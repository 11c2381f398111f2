---------------------------- MODULE RemoteProofs ----------------------------
(***************************************************************************)
(* The regions of a worker's table, for every number of workers, hosts and *)
(* buffers, every size of the address space and every gap: first for the   *)
(* table alone, and then for the table of a worker that serves hosts.      *)
(* Last, who owns which region of a worker: the ledger of a host that is   *)
(* served names each live region once.                                     *)
(***************************************************************************)
EXTENDS RemoteSession, WellFoundedInduction, TLAPS

\* The first-order prover is the one to try, unless a leaf names another.
USE Zenon

Mint == [worker : Workers, base : Nat, size : Sizes \ {0}]

(* The table has its type, and the next offset of a worker leaves the      *)
(* first gap free.                                                         *)
Types == /\ regions \in Seq(Region)
         /\ next_offset \in [Workers -> MinGap .. OffsetMask]
         /\ minted \in Seq(Mint)

End0(m) == minted[m].base + minted[m].size + Gap(minted[m].size)

(* Each region there ever was lies in the space of its worker, below the   *)
(* next offset, its gap included.                                          *)
Below == \A m \in DOMAIN minted :
           /\ vx_remote_addr(minted[m].worker, 0) <= minted[m].base
           /\ End0(m) <= vx_remote_addr(minted[m].worker, next_offset[minted[m].worker])

(* A slot of the table keeps the worker, base and size of its region.      *)
Recorded == \A i \in DOMAIN regions :
              /\ regions[i].mint \in DOMAIN minted
              /\ regions[i].worker = minted[regions[i].mint].worker
              /\ regions[i].base = minted[regions[i].mint].base
              /\ regions[i].size = minted[regions[i].mint].size

TableInv == Types /\ Len(regions) <= Capacity /\ Below /\ Recorded /\ GapsHold

(* "Bases are ascending", and no slot reaches into the next: true of a     *)
(* table in which one worker allocates.                                    *)
Sorted == \A i, j \in DOMAIN regions :
            i < j => regions[i].base + regions[i].size <= regions[j].base
-----------------------------------------------------------------------------
\* The addresses of a worker are a positive number that holds every offset.
LEMMA SpanType == Span \in Nat /\ OffsetMask < Span /\ 0 < Span
<1> QED
    BY SMT, RegionAssumption DEF Span

\* The gap after a region is as large as the region, and as the least gap.
LEMMA GapType == \A size \in Nat : Gap(size) \in Nat /\ MinGap <= Gap(size) /\ size <= Gap(size)
<1> QED
    BY SMT, RegionAssumption DEF Gap

\* The spaces of two workers do not meet.
LEMMA Times == \A a, b, s \in Nat : a < b => a * s + s <= b * s
<1> SUFFICES ASSUME NEW a \in Nat, NEW b \in Nat, NEW s \in Nat, a < b
             PROVE  a * s + s <= b * s
    OBVIOUS
<1>1. PICK k \in Nat : b = a + 1 + k
    <2>1. b - a - 1 \in Nat /\ b = a + 1 + (b - a - 1)
        BY SMT
    <2> QED
        BY <2>1
<1>2. b * s = a * s + s + k * s
    BY SMT, <1>1
<1>3. k * s \in Nat /\ a * s \in Nat
    BY SMT
<1> QED
    BY SMT, <1>2, <1>3

(* The space of a worker ends before that of the next one begins.          *)
LEMMA Spaces ==
  ASSUME NEW v \in Workers, NEW w \in Workers, v < w
  PROVE  vx_remote_addr(v, OffsetMask) < vx_remote_addr(w, 0)
<1>1. v \in Nat /\ w \in Nat
    BY SMT, RegionAssumption
<1>2. v * Span + Span <= w * Span
    BY <1>1, SpanType, Times
<1>3. v * Span \in Nat /\ w * Span \in Nat /\ OffsetMask \in Nat
    BY SMT, <1>1, SpanType, RegionAssumption
<1> QED
    BY SMT, <1>2, <1>3, SpanType DEF vx_remote_addr

\* An address is the first one of its worker plus the offset.
LEMMA Addr ==
  ASSUME NEW v \in Workers, NEW o \in Nat
  PROVE  vx_remote_addr(v, 0) \in Nat /\ vx_remote_addr(v, o) = vx_remote_addr(v, 0) + o
<1>1. v * Span \in Nat
    BY SMT, SpanType, RegionAssumption
<1> QED
    BY SMT, <1>1 DEF vx_remote_addr

-----------------------------------------------------------------------------
(* An allocation, with the facts about it that each conjunct needs.        *)
LEMMA Alloc ==
  ASSUME TableInv, NEW w \in Workers, NEW size \in Sizes, NEW remote \in Buffers,
         vx_remote_table_alloc(w, size, remote)
  PROVE  TableInv'
<1> DEFINE base == vx_remote_addr(w, next_offset[w])
           n == Len(minted) + 1
           k == Len(regions) + 1
           mint == [worker |-> w, base |-> base, size |-> size]
           region == [worker |-> w, base |-> base, size |-> size,
                      remote |-> remote, live |-> TRUE, mint |-> n]
<1>1. /\ size \in Nat /\ 0 < size /\ Gap(size) \in Nat
      /\ next_offset[w] \in Nat /\ MinGap <= next_offset[w]
      /\ next_offset[w] + size + Gap(size) <= OffsetMask /\ OffsetMask \in Nat /\ MinGap \in Nat
    <2>1. OffsetMask \in Nat /\ MinGap \in Nat /\ size \in Nat
        BY RegionAssumption
    <2>2. Gap(size) \in Nat
        BY <2>1, GapType
    <2>3. next_offset[w] \in MinGap .. OffsetMask
        BY DEF TableInv, Types
    <2>4. size # 0 /\ next_offset[w] + size <= OffsetMask - Gap(size)
        BY DEF vx_remote_table_alloc, HasRoom
    <2> QED
        BY SMT, <2>1, <2>2, <2>3, <2>4
<1>2. /\ vx_remote_addr(w, 0) \in Nat /\ base = vx_remote_addr(w, 0) + next_offset[w]
      /\ base \in Nat
    BY SMT, <1>1, Addr
<1>3. /\ regions' = Append(regions, region)
      /\ minted' = Append(minted, mint)
      /\ next_offset' = [next_offset EXCEPT ![w] = next_offset[w] + size + Gap(size)]
      /\ Len(regions) < Capacity
    BY DEF vx_remote_table_alloc, NextOffset, HasRoom
<1>4. mint \in Mint /\ region \in Region /\ n \in Nat
    BY SMTT(30), <1>1, <1>2 DEF Mint, Region, TableInv, Types
<1>5. /\ minted' \in Seq(Mint) /\ Len(minted') = n
      /\ DOMAIN minted' = DOMAIN minted \cup {n} /\ n \notin DOMAIN minted
      /\ minted'[n] = mint
      /\ \A m \in DOMAIN minted : minted'[m] = minted[m]
    BY SMT, <1>3, <1>4 DEF TableInv, Types
<1>6. /\ regions' \in Seq(Region) /\ Len(regions') = k
      /\ DOMAIN regions' = DOMAIN regions \cup {k}
      /\ regions'[k] = region
      /\ \A i \in DOMAIN regions : regions'[i] = regions[i]
    BY SMT, <1>3, <1>4 DEF TableInv, Types
<1>7. /\ next_offset' \in [Workers -> MinGap .. OffsetMask]
      /\ next_offset'[w] = next_offset[w] + size + Gap(size)
      /\ \A v \in Workers : next_offset[v] \in Nat /\ next_offset'[v] \in Nat
           /\ next_offset[v] <= next_offset'[v]
    BY SMTT(30), <1>1, <1>3, RegionAssumption DEF TableInv, Types
<1>8. \A m \in DOMAIN minted : /\ minted[m].worker \in Workers /\ minted[m].base \in Nat
                                /\ minted[m].size \in Nat /\ 0 < minted[m].size
                                /\ Gap(minted[m].size) \in Nat
    <2> SUFFICES ASSUME NEW m \in DOMAIN minted
                 PROVE  /\ minted[m].worker \in Workers /\ minted[m].base \in Nat
                        /\ minted[m].size \in Nat /\ 0 < minted[m].size
                        /\ Gap(minted[m].size) \in Nat
        OBVIOUS
    <2>1. minted[m] \in Mint
        BY SMT DEF TableInv, Types
    <2>2. /\ minted[m].worker \in Workers /\ minted[m].base \in Nat
          /\ minted[m].size \in Nat /\ minted[m].size # 0
        BY <2>1, RegionAssumption DEF Mint
    <2> QED
        BY SMT, <2>2, GapType
<1> HIDE DEF base, n, k, mint, region
<1>9. Types' /\ (Len(regions) <= Capacity)'
    BY SMTT(30), <1>1, <1>3, <1>5, <1>6, <1>7, RegionAssumption DEF Types, k, TableInv
<1>10. Recorded'
    <2> SUFFICES ASSUME NEW i \in DOMAIN regions'
                 PROVE  /\ regions'[i].mint \in DOMAIN minted'
                        /\ regions'[i].worker = minted'[regions'[i].mint].worker
                        /\ regions'[i].base = minted'[regions'[i].mint].base
                        /\ regions'[i].size = minted'[regions'[i].mint].size
        BY DEF Recorded
    <2>1. CASE i \in DOMAIN regions
        BY SMT, <1>5, <1>6, <2>1 DEF TableInv, Recorded
    <2>2. CASE i = k
        BY SMT, <1>5, <1>6, <2>2 DEF region, mint
    <2> QED
        BY <1>6, <2>1, <2>2
<1>11. Below'
    <2> SUFFICES ASSUME NEW m \in DOMAIN minted'
                 PROVE  /\ vx_remote_addr(minted'[m].worker, 0) <= minted'[m].base
                        /\ minted'[m].base + minted'[m].size + Gap(minted'[m].size)
                             <= vx_remote_addr(minted'[m].worker, next_offset'[minted'[m].worker])
        BY DEF Below, End0, vx_remote_addr, Span, Gap
    <2>1. CASE m \in DOMAIN minted
        <3> DEFINE v == minted[m].worker
        <3>1. v \in Workers /\ next_offset[v] \in Nat /\ next_offset'[v] \in Nat
                /\ next_offset[v] <= next_offset'[v]
            BY <1>7, <1>8, <2>1
        <3>2. /\ vx_remote_addr(v, 0) \in Nat
              /\ vx_remote_addr(v, next_offset[v]) = vx_remote_addr(v, 0) + next_offset[v]
              /\ vx_remote_addr(v, next_offset'[v]) = vx_remote_addr(v, 0) + next_offset'[v]
            BY <3>1, Addr
        <3>3. /\ vx_remote_addr(v, 0) <= minted[m].base
              /\ minted[m].base + minted[m].size + Gap(minted[m].size) <= vx_remote_addr(v, next_offset[v])
            BY <2>1 DEF TableInv, Below, End0
        <3>4. minted'[m] = minted[m]
            BY <1>5, <2>1
        <3> HIDE DEF v
        <3>5. minted[m].base + minted[m].size + Gap(minted[m].size) <= vx_remote_addr(v, next_offset'[v])
            BY SMT, <1>8, <2>1, <3>1, <3>2, <3>3
        <3> QED
            BY <3>3, <3>4, <3>5 DEF v
    <2>2. CASE m = n
        <3>1. vx_remote_addr(w, next_offset'[w]) = vx_remote_addr(w, 0) + next_offset'[w]
            BY <1>7, Addr
        <3>2. base + size + Gap(size) <= vx_remote_addr(w, next_offset'[w])
            BY SMT, <1>1, <1>2, <1>7, <3>1
        <3>3. vx_remote_addr(w, 0) <= base
            BY SMT, <1>1, <1>2
        <3> QED
            BY SMT, <1>5, <2>2, <3>2, <3>3 DEF mint
    <2> QED
        BY <1>5, <2>1, <2>2
<1>12. ASSUME NEW m \in DOMAIN minted
       PROVE  \/ minted[m].base + minted[m].size + Gap(minted[m].size) <= base
              \/ base + size + Gap(size) < minted[m].base
    <2> DEFINE v == minted[m].worker
               e == minted[m].base + minted[m].size + Gap(minted[m].size)
    <2>1. v \in Workers /\ minted[m].base \in Nat /\ e \in Nat /\ v \in Nat /\ w \in Nat
        <3>1. \A x \in Workers : x \in Nat
            BY SMT, RegionAssumption
        <3>2. v \in Workers /\ minted[m].base \in Nat
            BY <1>8
        <3>3. minted[m].size \in Nat /\ Gap(minted[m].size) \in Nat
            BY <1>8
        <3>4. e \in Nat
            BY SMT, <3>2, <3>3
        <3> QED
            BY <3>1, <3>2, <3>4
    <2>2. next_offset[v] \in Nat /\ next_offset[v] <= OffsetMask
        BY SMT, <2>1, <1>7, RegionAssumption DEF TableInv, Types
    <2>3. /\ vx_remote_addr(v, 0) \in Nat
          /\ vx_remote_addr(v, next_offset[v]) = vx_remote_addr(v, 0) + next_offset[v]
          /\ vx_remote_addr(v, OffsetMask) = vx_remote_addr(v, 0) + OffsetMask
          /\ vx_remote_addr(w, OffsetMask) = vx_remote_addr(w, 0) + OffsetMask
        BY <1>1, <2>1, <2>2, Addr
    <2>4. vx_remote_addr(v, 0) <= minted[m].base /\ e <= vx_remote_addr(v, next_offset[v])
        BY DEF TableInv, Below, End0
    <2>5. v < w => vx_remote_addr(v, OffsetMask) < vx_remote_addr(w, 0)
        BY <2>1, Spaces
    <2>6. w < v => vx_remote_addr(w, OffsetMask) < vx_remote_addr(v, 0)
        BY <2>1, Spaces
    <2> HIDE DEF v, e
    <2>7. CASE v = w
        BY <1>1, <1>2, <2>1, <2>2, <2>3, <2>4, <2>7 DEF e
    <2>8. CASE v < w
        BY SMT, <1>1, <1>2, <2>1, <2>2, <2>3, <2>4, <2>5, <2>8 DEF e
    <2>9. CASE w < v
        BY SMT, <1>1, <1>2, <2>1, <2>2, <2>3, <2>4, <2>6, <2>9
    <2> QED
        BY SMT, <2>1, <2>7, <2>8, <2>9
<1>13. GapsHold'
    <2> SUFFICES ASSUME NEW a \in DOMAIN minted', NEW b \in DOMAIN minted',
                        a # b, minted'[a].base <= minted'[b].base
                 PROVE  minted'[a].base + minted'[a].size + Gap(minted'[a].size) <= minted'[b].base
        BY DEF GapsHold, Gap
    <2>1. CASE a \in DOMAIN minted /\ b \in DOMAIN minted
        BY <1>5, <2>1 DEF TableInv, GapsHold
    <2>2. CASE a \in DOMAIN minted /\ b = n
        <3>1. minted'[a] = minted[a] /\ minted'[b].base = base /\ minted'[b].size = size
            BY SMT, <1>5, <2>2 DEF mint
        <3>2. /\ minted[a].base \in Nat /\ minted[a].size \in Nat /\ 0 < minted[a].size
              /\ Gap(minted[a].size) \in Nat
            BY <1>8, <2>2
        <3>3. \/ minted[a].base + minted[a].size + Gap(minted[a].size) <= base
              \/ base + size + Gap(size) < minted[a].base
            BY <1>12, <2>2
        <3> QED
            BY SMT, <1>1, <1>2, <3>1, <3>2, <3>3
    <2>3. CASE a = n /\ b \in DOMAIN minted
        <3>1. minted'[b] = minted[b] /\ minted'[a].base = base /\ minted'[a].size = size
            BY SMT, <1>5, <2>3 DEF mint
        <3>2. /\ minted[b].base \in Nat /\ minted[b].size \in Nat /\ 0 < minted[b].size
              /\ Gap(minted[b].size) \in Nat
            BY <1>8, <2>3
        <3>3. \/ minted[b].base + minted[b].size + Gap(minted[b].size) <= base
              \/ base + size + Gap(size) < minted[b].base
            BY <1>12, <2>3
        <3> QED
            BY SMT, <1>1, <1>2, <3>1, <3>2, <3>3
    <2> QED
        BY <1>5, <2>1, <2>2, <2>3
<1> QED
    BY <1>9, <1>10, <1>11, <1>13 DEF TableInv

(* A free changes no more than the live mark of a slot, if it is a slot.   *)
LEMMA Free ==
  ASSUME TableInv, NEW i, vx_remote_table_free(i)
  PROVE  TableInv'
<1>1. /\ regions' = [regions EXCEPT ![i].live = FALSE]
      /\ minted' = minted /\ next_offset' = next_offset
    BY DEF vx_remote_table_free
<1>2. regions \in Seq(Region)
    BY DEF TableInv, Types
<1>3. /\ DOMAIN regions' = DOMAIN regions
      /\ \A j \in DOMAIN regions :
           regions'[j] = IF j = i THEN [regions[j] EXCEPT !.live = FALSE] ELSE regions[j]
    BY <1>1, <1>2
<1>4. \A j \in DOMAIN regions : regions[j] \in Region
    BY SMT, <1>2
<1>5. \A j \in DOMAIN regions :
        /\ regions'[j] \in Region
        /\ regions'[j].mint = regions[j].mint /\ regions'[j].worker = regions[j].worker
        /\ regions'[j].base = regions[j].base /\ regions'[j].size = regions[j].size
    <2> SUFFICES ASSUME NEW j \in DOMAIN regions
                 PROVE  /\ regions'[j] \in Region
                        /\ regions'[j].mint = regions[j].mint /\ regions'[j].worker = regions[j].worker
                        /\ regions'[j].base = regions[j].base /\ regions'[j].size = regions[j].size
        OBVIOUS
    <2>1. regions[j] \in Region
        BY <1>4
    <2>2. CASE j # i
        BY <1>3, <2>1, <2>2
    <2>3. CASE j = i
        <3>1. regions'[j] = [regions[j] EXCEPT !.live = FALSE]
            BY <1>3, <2>3
        <3> QED
            BY <2>1, <3>1 DEF Region
    <2> QED
        BY <2>2, <2>3
<1>6. regions' \in Seq(Region) /\ Len(regions') = Len(regions)
    <2>1. DOMAIN regions = 1 .. Len(regions) /\ Len(regions) \in Nat
        BY SMT, <1>2
    <2>2. regions' = [j \in 1 .. Len(regions) |-> regions'[j]]
        BY <1>1, <1>3, <2>1
    <2>3. regions' \in [1 .. Len(regions) -> Region]
        BY <1>5, <2>1, <2>2
    <2> QED
        BY SMT, <2>1, <2>3
<1>7. Types' /\ (Len(regions) <= Capacity)'
    BY <1>1, <1>6 DEF TableInv, Types
<1>8. Below' /\ GapsHold'
    BY <1>1 DEF TableInv, Below, End0, GapsHold, Gap, vx_remote_addr, Span
<1>9. Recorded'
    BY SMT, <1>1, <1>3, <1>5 DEF TableInv, Recorded
<1> QED
    BY <1>7, <1>8, <1>9 DEF TableInv

(* The table is emptied for the next host and keeps its offsets.           *)
LEMMA FreeAll == TableInv /\ vx_remote_table_free_all => TableInv'
<1> SUFFICES ASSUME TableInv, vx_remote_table_free_all PROVE TableInv'
    OBVIOUS
<1>1. regions' = <<>> /\ minted' = minted /\ next_offset' = next_offset
    BY DEF vx_remote_table_free_all, OffsetsAfterFreeAll
<1>2. Types' /\ (Len(regions) <= Capacity)' /\ Recorded'
    BY SMT, <1>1, RegionAssumption DEF TableInv, Types, Recorded
<1>3. Below' /\ GapsHold'
    BY <1>1 DEF TableInv, Below, End0, GapsHold, Gap, vx_remote_addr, Span
<1> QED
    BY <1>2, <1>3 DEF TableInv

\* A new table has the invariant.
LEMMA New == TableInit => TableInv
<1> SUFFICES ASSUME TableInit PROVE TableInv
    OBVIOUS
<1>1. regions = <<>> /\ minted = <<>> /\ next_offset = [w \in Workers |-> MinGap]
    BY DEF TableInit
<1>2. Types
    BY SMT, <1>1, RegionAssumption DEF Types
<1> QED
    BY SMT, <1>1, <1>2, RegionAssumption DEF TableInv, Below, Recorded, GapsHold

\* A step that leaves the table alone keeps the invariant.
LEMMA Same == TableInv /\ UNCHANGED table => TableInv'
<1> QED
    BY DEF TableInv, Types, Below, Recorded, End0, GapsHold, Gap, vx_remote_addr, Span, table
-----------------------------------------------------------------------------
\* The invariant gives the type of the table.
LEMMA InvType == TableInv => TableTypeOK
<1> SUFFICES ASSUME TableInv PROVE TableTypeOK
    OBVIOUS
<1>1. next_offset \in [Workers -> MinGap .. OffsetMask] /\ MinGap \in Nat
    BY RegionAssumption DEF TableInv, Types
<1>2. next_offset \in [Workers -> 0 .. OffsetMask]
    BY SMT, <1>1, RegionAssumption
<1> QED
    BY <1>2 DEF TableInv, Types, TableTypeOK, Mint

(* Two regions that share an address are the same, so a slot that takes an *)
(* address inside region m is the slot of m, and live.                     *)
LEMMA InvStale == TableInv => StaleHandlesStayDead
<1> SUFFICES ASSUME TableInv, NEW m \in DOMAIN minted,
                    NEW i \in DOMAIN regions, NEW o \in 0 .. minted[m].size - 1,
                    Accepts(i, minted[m].base + o)
             PROVE  regions[i].mint = m /\ regions[i].live
    BY DEF StaleHandlesStayDead
<1> DEFINE n == regions[i].mint
<1>1. /\ n \in DOMAIN minted
      /\ regions[i].base = minted[n].base /\ regions[i].size = minted[n].size
    BY DEF TableInv, Recorded
<1>2. ASSUME NEW k \in DOMAIN minted
      PROVE  /\ minted[k].base \in Nat /\ minted[k].size \in Nat /\ Gap(minted[k].size) \in Nat
    <2>1. minted[k] \in Mint
        BY SMT DEF TableInv, Types
    <2>2. minted[k].base \in Nat /\ minted[k].size \in Nat
        BY <2>1, RegionAssumption DEF Mint
    <2> QED
        BY <2>2, GapType
<1>3. /\ regions[i].live /\ minted[n].base <= minted[m].base + o
      /\ (minted[m].base + o) - minted[n].base < minted[n].size
    BY <1>1 DEF Accepts
<1>4. /\ n # m /\ minted[n].base <= minted[m].base
           => minted[n].base + minted[n].size + Gap(minted[n].size) <= minted[m].base
      /\ n # m /\ minted[m].base <= minted[n].base
           => minted[m].base + minted[m].size + Gap(minted[m].size) <= minted[n].base
    BY <1>1 DEF TableInv, GapsHold
<1> HIDE DEF n
<1>5. n = m
    <2>1. /\ minted[n].base \in Nat /\ minted[n].size \in Nat /\ Gap(minted[n].size) \in Nat
          /\ minted[m].base \in Nat /\ minted[m].size \in Nat /\ Gap(minted[m].size) \in Nat
        BY <1>1, <1>2
    <2>2. o \in Nat /\ o < minted[m].size
        BY SMT, <2>1
    <2> QED
        BY SMT, <1>3, <1>4, <2>1, <2>2
<1> QED
    BY <1>3, <1>5 DEF n

\* Every operation of the table keeps the invariant.
LEMMA TableStep == TableInv /\ [TableNext]_table => TableInv'
<1> QED
    BY Alloc, Free, FreeAll, Same DEF TableNext

\* The invariant is true in every state of the table.
LEMMA TableHolds == TableSpec => []TableInv
<1> QED
    BY New, TableStep, PTL DEF TableSpec
-----------------------------------------------------------------------------
(* Induction, over the elements of a set of numbers, from the fact that    *)
(* the numbers are well founded; and from it, that a function defined by   *)
(* iterating a step exists.                                                *)
LEMMA Least ==
  ASSUME NEW S \in SUBSET Nat, S # {}
  PROVE  \E n \in S : \A m \in S : n <= m
<1> DEFINE R == OpToRel(<, Nat)
<1>1. \E x \in S : \A y \in S : ~(<<y, x>> \in R)
  BY NatLessThanWellFounded, WFMin
<1>2. \A x, y \in Nat : y < x => <<y, x>> \in R
  BY DEF OpToRel
<1> HIDE DEF R
<1>3. PICK x \in S : \A y \in S : ~(<<y, x>> \in R)
  BY <1>1
<1>4. ASSUME NEW y \in S PROVE x <= y
  <2>1. x \in Nat /\ y \in Nat
    OBVIOUS
  <2>2. ~(y < x)
    BY <1>2, <1>3, <2>1
  <2> QED BY SMT, <2>1, <2>2
<1> QED BY <1>4

\* A set of numbers with 0 and each successor has them all.
LEMMA Induct ==
  ASSUME NEW S \in SUBSET Nat, 0 \in S, \A n \in S : n + 1 \in S
  PROVE  S = Nat
<1> SUFFICES ASSUME Nat \ S # {} PROVE FALSE
  OBVIOUS
<1>1. PICK n \in Nat \ S : \A m \in Nat \ S : n <= m
  BY Least
<1>2. n # 0 /\ n - 1 \in Nat
  BY SMT, <1>1
<1>3. n - 1 \in S
  BY SMT, <1>1, <1>2
<1>4. n - 1 + 1 \in S
  BY <1>3
<1> QED BY SMT, <1>1, <1>4

\* There is a function that starts with s0 and goes on with step.
LEMMA Rec ==
  ASSUME NEW S, NEW step \in [S -> S], NEW s0 \in S
  PROVE  \E f : f = [k \in Nat |-> IF k = 0 THEN s0 ELSE step[f[k - 1]]]
<1> DEFINE Good(n, g) == /\ g \in [0 .. n -> S] /\ g[0] = s0
                         /\ \A k \in 1 .. n : g[k] = step[g[k - 1]]
           Has == {n \in Nat : \E g : Good(n, g)}
<1>1. Has = Nat
  <2>1. 0 \in Has
    <3>1. Good(0, [k \in 0 .. 0 |-> s0])
      BY SMT
    <3> QED BY <3>1
  <2>2. ASSUME NEW n \in Has PROVE n + 1 \in Has
    <3>1. PICK g : Good(n, g)
      OBVIOUS
    <3> DEFINE h == [k \in 0 .. n + 1 |-> IF k = n + 1 THEN step[g[n]] ELSE g[k]]
    <3>2. g[n] \in S
      BY SMT, <3>1
    <3>3. h \in [0 .. n + 1 -> S] /\ h[0] = s0
      BY SMT, <3>1, <3>2
    <3>4. ASSUME NEW k \in 1 .. n + 1 PROVE h[k] = step[h[k - 1]]
      BY SMT, <3>1, <3>4
    <3>5. Good(n + 1, h)
      BY <3>3, <3>4
    <3>6. \E gg : Good(n + 1, gg)
      BY <3>5
    <3> QED BY SMT, <3>6
  <2> QED BY <2>1, <2>2, Induct
<1>2. ASSUME NEW n \in Nat, NEW g, Good(n, g), NEW m \in Nat, NEW h, Good(m, h), n <= m
      PROVE  \A k \in 0 .. n : g[k] = h[k]
  <2> DEFINE E == {k \in Nat : k <= n => g[k] = h[k]}
  <2>1. 0 \in E
    BY <1>2
  <2>2. ASSUME NEW k \in E PROVE k + 1 \in E
    BY SMT, <1>2, <2>2
  <2>3. E = Nat
    BY <2>1, <2>2, Induct
  <2> QED BY SMT, <2>3
<1> DEFINE G(n) == CHOOSE g : Good(n, g)
           F == [n \in Nat |-> G(n)[n]]
<1>3. \A n \in Nat : Good(n, G(n))
  BY <1>1
<1> HIDE DEF G
<1>4. F[0] = s0
  BY <1>3
<1>5. ASSUME NEW k \in Nat \ {0} PROVE F[k] = step[F[k - 1]]
  <2>1. k - 1 \in Nat /\ Good(k, G(k)) /\ Good(k - 1, G(k - 1))
    BY SMT, <1>3
  <2>2. G(k)[k] = step[G(k)[k - 1]]
    BY SMT, <2>1
  <2>3. \A j \in 0 .. k - 1 : G(k - 1)[j] = G(k)[j]
    <3> HIDE DEF Good
    <3> QED BY SMT, <1>2, <2>1
  <2> QED BY SMT, <2>1, <2>2, <2>3
<1>6. F = [k \in Nat |-> IF k = 0 THEN s0 ELSE step[F[k - 1]]]
  BY <1>4, <1>5
<1> HIDE DEF F
<1> QED BY <1>6
-----------------------------------------------------------------------------
(* What the search knows after k rounds: the slots up to lo are not above  *)
(* addr, those after hi are, and what is between them shrinks.             *)
Narrowed(b, k, addr) ==
  /\ b \in Bounds /\ b.best = b.lo
  /\ b.lo <= b.hi /\ b.hi <= Len(regions)
  /\ b.lo = b.hi \/ b.hi - b.lo <= Len(regions) - k
  /\ \A i \in 1 .. b.lo : regions[i].base <= addr
  /\ \A i \in b.hi + 1 .. Len(regions) : addr < regions[i].base

\* The middle of a range that is not empty lies in it.
LEMMA Middle ==
  ASSUME NEW lo \in Nat, NEW hi \in Nat, lo < hi
  PROVE  lo + (hi - lo) \div 2 \in lo .. hi - 1
<1> QED
    BY SMT

\* A round cuts the range at a slot of it, and leaves a range that is empty alone.
LEMMA RoundIs ==
  ASSUME NEW addr, NEW b \in Bounds
  PROVE  /\ Round(addr)[b] \in Bounds
         /\ b.lo >= b.hi => Round(addr)[b] = b
         /\ b.lo < b.hi =>
              \E mid \in b.lo .. b.hi - 1 :
                \/ /\ regions[mid + 1].base <= addr
                   /\ Round(addr)[b] = [lo |-> mid + 1, hi |-> b.hi, best |-> mid + 1]
                \/ /\ ~(regions[mid + 1].base <= addr)
                   /\ Round(addr)[b] = [lo |-> b.lo, hi |-> mid, best |-> b.best]
<1> DEFINE mid == b.lo + (b.hi - b.lo) \div 2
<1>1. b.lo \in Nat /\ b.hi \in Nat /\ b.best \in Nat
    BY DEF Bounds
<1>2. b.lo < b.hi => mid \in b.lo .. b.hi - 1
    BY <1>1, Middle
<1>3. Round(addr)[b] = CASE b.lo >= b.hi -> b
           [] b.lo < b.hi /\ regions[mid + 1].base <= addr
                -> [lo |-> mid + 1, hi |-> b.hi, best |-> mid + 1]
           [] OTHER -> [lo |-> b.lo, hi |-> mid, best |-> b.best]
    BY DEF Round
<1> HIDE DEF mid
<1>4. CASE b.lo >= b.hi
    <2>1. Round(addr)[b] = b
        BY SMT, <1>1, <1>3, <1>4
    <2> QED
        BY SMT, <1>1, <1>4, <2>1
<1>5. CASE b.lo < b.hi
    <2>1. mid \in b.lo .. b.hi - 1 /\ mid \in Nat /\ mid + 1 \in Nat /\ ~(b.lo >= b.hi)
        BY SMT, <1>1, <1>2, <1>5
    <2>2. CASE regions[mid + 1].base <= addr
        <3>1. Round(addr)[b] = [lo |-> mid + 1, hi |-> b.hi, best |-> mid + 1]
            BY <1>3, <1>5, <2>1, <2>2
        <3> QED
            BY SMT, <1>1, <2>1, <2>2, <3>1 DEF Bounds
    <2>3. CASE ~(regions[mid + 1].base <= addr)
        <3>1. Round(addr)[b] = [lo |-> b.lo, hi |-> mid, best |-> b.best]
            BY <1>3, <1>5, <2>1, <2>3
        <3> QED
            BY SMT, <1>1, <2>1, <2>3, <3>1 DEF Bounds
    <2> QED
        BY <2>2, <2>3
<1> QED
    BY SMT, <1>1, <1>4, <1>5

\* The rounds start with the whole table, and each goes on from the one before.
LEMMA Unfold ==
  ASSUME NEW addr, Len(regions) \in Nat
  PROVE  Rounds(addr) = [k \in Nat |-> IF k = 0 THEN [lo |-> 0, hi |-> Len(regions), best |-> 0]
                                       ELSE Round(addr)[Rounds(addr)[k - 1]]]
<1> DEFINE step == Round(addr)
           start == [lo |-> 0, hi |-> Len(regions), best |-> 0]
           f == Rounds(addr)
<1>1. step \in [Bounds -> Bounds]
    <2>1. step = [b \in Bounds |-> step[b]]
        BY SMT DEF Round
    <2>2. \A b \in Bounds : step[b] \in Bounds
        BY RoundIs
    <2> HIDE DEF step
    <2> QED
        BY <2>1, <2>2
<1>2. start \in Bounds
    BY DEF Bounds
<1>3. f = CHOOSE g : g = [k \in Nat |-> IF k = 0 THEN start ELSE step[g[k - 1]]]
    BY DEF Rounds
<1> HIDE DEF step, start, f
<1>4. \E g : g = [k \in Nat |-> IF k = 0 THEN start ELSE step[g[k - 1]]]
    BY SMT, <1>1, <1>2, Rec
<1>5. f = [k \in Nat |-> IF k = 0 THEN start ELSE step[f[k - 1]]]
    BY <1>3, <1>4
<1> QED
    BY <1>5 DEF step, start, f

\* A round keeps what the search knows, in a table with ascending bases.
LEMMA RoundKeeps ==
  ASSUME Sorted, regions \in Seq(Region), NEW addr \in Nat, NEW k \in Nat,
         NEW b, Narrowed(b, k, addr)
  PROVE  Narrowed(Round(addr)[b], k + 1, addr)
<1> DEFINE n == Len(regions)
<1>1. /\ b \in Bounds /\ b.lo \in Nat /\ b.hi \in Nat /\ b.best = b.lo
      /\ b.lo <= b.hi /\ b.hi <= n /\ n \in Nat /\ DOMAIN regions = 1 .. n
      /\ b.lo = b.hi \/ b.hi - b.lo <= n - k
      /\ \A i \in 1 .. b.lo : regions[i].base <= addr
      /\ \A i \in b.hi + 1 .. n : addr < regions[i].base
    BY SMT DEF Narrowed, Bounds
<1>2. \A i \in 1 .. n : regions[i].base \in Nat /\ regions[i].size \in Nat
    <2>1. \A i \in 1 .. n : regions[i] \in Region
        BY SMT, <1>1
    <2> QED
        BY <2>1, RegionAssumption DEF Region
<1>3. \A i, j \in 1 .. n : i < j => regions[i].base + regions[i].size <= regions[j].base
    BY <1>1 DEF Sorted
<1>4. \A i, j \in 1 .. n : i <= j => regions[i].base <= regions[j].base
    BY SMTT(30), <1>2, <1>3
<1> HIDE DEF n
<1>5. CASE b.lo >= b.hi
    BY SMTT(30), <1>1, <1>5, RoundIs DEF Narrowed, n
<1>6. CASE b.lo < b.hi
    <2>1. PICK mid \in b.lo .. b.hi - 1 :
                \/ /\ regions[mid + 1].base <= addr
                   /\ Round(addr)[b] = [lo |-> mid + 1, hi |-> b.hi, best |-> mid + 1]
                \/ /\ ~(regions[mid + 1].base <= addr)
                   /\ Round(addr)[b] = [lo |-> b.lo, hi |-> mid, best |-> b.best]
        BY <1>1, <1>6, RoundIs
    <2>2. mid \in Nat /\ mid + 1 \in 1 .. n /\ b.lo <= mid /\ mid < b.hi
        BY SMT, <1>1, <2>1
    <2>3. regions[mid + 1].base \in Nat
        BY <1>2, <2>2
    <2>4. CASE /\ regions[mid + 1].base <= addr
               /\ Round(addr)[b] = [lo |-> mid + 1, hi |-> b.hi, best |-> mid + 1]
        <3> DEFINE c == [lo |-> mid + 1, hi |-> b.hi, best |-> mid + 1]
        <3>1. c \in Bounds /\ c.lo = mid + 1 /\ c.hi = b.hi /\ c.best = mid + 1
            BY SMT, <1>1, <2>2 DEF Bounds
        <3> HIDE DEF c
        <3>2. \A i \in 1 .. mid + 1 : regions[i].base <= addr
            <4> SUFFICES ASSUME NEW i \in 1 .. mid + 1 PROVE regions[i].base <= addr
                OBVIOUS
            <4>1. i \in 1 .. n /\ i <= mid + 1
                BY SMT, <1>1, <2>2
            <4>2. regions[i].base <= regions[mid + 1].base /\ regions[i].base \in Nat
                BY <1>2, <1>4, <2>2, <4>1
            <4> QED
                BY SMT, <2>3, <2>4, <4>2
        <3>3. b.hi - (mid + 1) <= n - (k + 1) /\ mid + 1 <= b.hi
            BY SMTT(30), <1>1, <1>6, <2>2
        <3>4. Narrowed(c, k + 1, addr)
            BY <1>1, <3>1, <3>2, <3>3 DEF Narrowed, n
        <3> QED
            BY <2>4, <3>4 DEF c
    <2>5. CASE /\ ~(regions[mid + 1].base <= addr)
               /\ Round(addr)[b] = [lo |-> b.lo, hi |-> mid, best |-> b.best]
        <3> DEFINE c == [lo |-> b.lo, hi |-> mid, best |-> b.best]
        <3>1. c \in Bounds /\ c.lo = b.lo /\ c.hi = mid /\ c.best = b.lo
            BY <1>1, <2>2 DEF Bounds
        <3> HIDE DEF c
        <3>2. \A i \in mid + 1 .. n : addr < regions[i].base
            BY SMT, <1>1, <1>2, <1>4, <2>2, <2>3, <2>5
        <3>3. mid - b.lo <= n - (k + 1) /\ b.lo <= mid /\ mid <= n
            BY SMT, <1>1, <1>6, <2>2
        <3>4. Narrowed(c, k + 1, addr)
            BY <1>1, <3>1, <3>2, <3>3 DEF Narrowed, n
        <3> QED
            BY <2>5, <3>4 DEF c
    <2> QED
        BY <2>1, <2>4, <2>5
<1> QED
    BY SMT, <1>1, <1>5, <1>6

(* The search ends at the last slot whose base is not above addr.          *)
LEMMA SearchIs ==
  ASSUME Sorted, regions \in Seq(Region), NEW addr \in Nat
  PROVE  /\ Search(addr) \in 0 .. Len(regions)
         /\ \A i \in 1 .. Search(addr) : regions[i].base <= addr
         /\ \A i \in Search(addr) + 1 .. Len(regions) : addr < regions[i].base
<1> DEFINE n == Len(regions)
           f == Rounds(addr)
           start == [lo |-> 0, hi |-> n, best |-> 0]
           S == {k \in Nat : Narrowed(f[k], k, addr)}
<1>1. n \in Nat
    BY SMT
<1>2. f = [k \in Nat |-> IF k = 0 THEN start ELSE Round(addr)[f[k - 1]]]
    BY <1>1, Unfold
<1> HIDE DEF f
<1>3. f[0] = start /\ \A k \in Nat : f[k + 1] = Round(addr)[f[k]]
    <2>1. f[0] = start
        BY <1>2
    <2>2. ASSUME NEW k \in Nat PROVE f[k + 1] = Round(addr)[f[k]]
        <3>1. k + 1 \in Nat /\ k + 1 # 0 /\ k + 1 - 1 = k
            BY SMT
        <3> QED
            BY SMT, <1>2, <3>1
    <2> QED
        BY <2>1, <2>2
<1>4. 0 \in S
    <2>1. start \in Bounds /\ start.lo = 0 /\ start.hi = n /\ start.best = 0
        BY <1>1 DEF Bounds
    <2> HIDE DEF start
    <2>2. Narrowed(start, 0, addr)
        BY SMT, <1>1, <2>1 DEF Narrowed
    <2> QED
        BY <1>3, <2>2
<1>5. ASSUME NEW k \in S PROVE k + 1 \in S
    <2>1. k \in Nat /\ Narrowed(f[k], k, addr)
        OBVIOUS
    <2>2. Narrowed(Round(addr)[f[k]], k + 1, addr)
        BY <2>1, RoundKeeps
    <2>3. f[k + 1] = Round(addr)[f[k]] /\ k + 1 \in Nat
        BY SMT, <1>3, <2>1
    <2> QED
        BY <2>2, <2>3
<1>6. n \in S
    <2> HIDE DEF S
    <2>1. S \in SUBSET Nat
        BY DEF S
    <2>2. S = Nat
        BY <1>4, <1>5, <2>1, Induct
    <2> QED
        BY <1>1, <2>2
<1>7. Narrowed(f[n], n, addr)
    BY <1>6
<1>8. /\ f[n].best \in Nat /\ f[n].lo \in Nat /\ f[n].hi \in Nat
      /\ f[n].best = f[n].lo /\ f[n].lo = f[n].hi /\ f[n].hi <= n
      /\ \A i \in 1 .. f[n].lo : regions[i].base <= addr
      /\ \A i \in f[n].hi + 1 .. n : addr < regions[i].base
    BY SMT, <1>1, <1>7 DEF Narrowed, Bounds
<1>9. Search(addr) = f[n].best
    BY DEF Search, f
<1> QED
    BY SMT, <1>1, <1>8, <1>9

\* The quotient and the remainder of a product plus a rest.
LEMMA DivMod ==
  ASSUME NEW a \in Nat, NEW s \in Nat, 0 < s, NEW r \in 0 .. s - 1
  PROVE  (a * s + r) \div s = a /\ (a * s + r) % s = r
<1> QED
    BY SMT

(* An address inside a slot is a handle of the worker of that slot.        *)
LEMMA InsideIsHandle ==
  ASSUME TableInv, NEW j \in DOMAIN regions, NEW addr \in Nat,
         regions[j].base <= addr, addr < regions[j].base + regions[j].size
  PROVE  vx_remote_addr_is_handle(addr) /\ vx_remote_addr_worker(addr) = regions[j].worker
<1> DEFINE m == regions[j].mint
           v == minted[m].worker
<1>1. /\ m \in DOMAIN minted /\ regions[j].worker = v
      /\ regions[j].base = minted[m].base /\ regions[j].size = minted[m].size
    BY DEF TableInv, Recorded
<1>2. minted[m] \in Mint
    BY SMT, <1>1 DEF TableInv, Types
<1>3. v \in Workers /\ minted[m].base \in Nat /\ minted[m].size \in Nat
    BY <1>2, RegionAssumption DEF Mint
<1>4. v \in 1 .. WorkerMax /\ v \in Nat
    <2> HIDE DEF v
    <2> QED
        BY SMT, <1>3, RegionAssumption
<1>5. next_offset[v] \in Nat /\ next_offset[v] <= OffsetMask /\ OffsetMask \in Nat
    <2> HIDE DEF v
    <2> QED
        BY SMT, <1>3, RegionAssumption DEF TableInv, Types
<1>6. /\ vx_remote_addr(v, 0) <= minted[m].base
      /\ minted[m].base + minted[m].size + Gap(minted[m].size) <= vx_remote_addr(v, next_offset[v])
    BY <1>1 DEF TableInv, Below, End0
<1>7. Gap(minted[m].size) \in Nat
    BY <1>3, GapType
<1>8. /\ vx_remote_addr(v, 0) \in Nat
      /\ vx_remote_addr(v, next_offset[v]) = vx_remote_addr(v, 0) + next_offset[v]
      /\ vx_remote_addr(v, 0) = v * Span
    <2>1. vx_remote_addr(v, 0) = v * Span + 0 /\ v * Span \in Nat
        BY SMT, <1>4, SpanType DEF vx_remote_addr
    <2> QED
        BY SMTT(30), <1>3, <1>5, <2>1, Addr
<1> DEFINE r == addr - vx_remote_addr(v, 0)
<1> HIDE DEF m, v
<1>9. r \in Nat /\ r <= OffsetMask
    BY SMT, <1>1, <1>3, <1>5, <1>6, <1>7, <1>8
<1>10. addr = v * Span + r
    BY SMT, <1>8, <1>9
<1>11. r \in 0 .. Span - 1
    BY SMT, <1>5, <1>9, SpanType
<1> HIDE DEF r
<1>12. addr \div Span = v /\ addr % Span = r
    BY <1>4, <1>10, <1>11, SpanType, DivMod
<1> QED
    BY <1>1, <1>4, <1>9, <1>12 DEF vx_remote_addr_is_handle, vx_remote_addr_worker

(* What the lookup returns is a live slot that the address lies in, or 0.  *)
LEMMA ResolveFinds ==
  ASSUME TableInv, Sorted, NEW addr \in Nat, vx_remote_resolve(addr) # 0
  PROVE  /\ vx_remote_resolve(addr) \in DOMAIN regions
         /\ Accepts(vx_remote_resolve(addr), addr)
<1>1. regions \in Seq(Region)
    BY DEF TableInv, Types
<1>2. Search(addr) \in 0 .. Len(regions)
    BY <1>1, SearchIs
<1> QED
    BY SMT, <1>1, <1>2 DEF vx_remote_resolve

(* An address in a live slot finds that slot.                              *)
LEMMA ResolveMeets ==
  ASSUME TableInv, Sorted, NEW j \in DOMAIN regions, NEW addr \in Nat, regions[j].live,
         regions[j].base <= addr, addr < regions[j].base + regions[j].size
  PROVE  vx_remote_resolve(addr) = j
<1> DEFINE best == Search(addr)
           n == Len(regions)
<1>1. regions \in Seq(Region)
    BY DEF TableInv, Types
<1>2. /\ best \in 0 .. n /\ n \in Nat /\ DOMAIN regions = 1 .. n
      /\ \A i \in 1 .. best : regions[i].base <= addr
      /\ \A i \in best + 1 .. n : addr < regions[i].base
    <2>1. n \in Nat /\ DOMAIN regions = 1 .. n
        BY SMT, <1>1
    <2>2. /\ best \in 0 .. n
          /\ \A i \in 1 .. best : regions[i].base <= addr
          /\ \A i \in best + 1 .. n : addr < regions[i].base
        BY <1>1, SearchIs
    <2> QED
        BY <2>1, <2>2
<1>3. \A i \in 1 .. n : regions[i].base \in Nat /\ regions[i].size \in Nat
    <2>1. \A i \in 1 .. n : regions[i] \in Region
        BY SMT, <1>1, <1>2
    <2> QED
        BY <2>1, RegionAssumption DEF Region
<1>4. \A i \in 1 .. n : j < i => regions[j].base + regions[j].size <= regions[i].base
    BY <1>2 DEF Sorted
<1> HIDE DEF best, n
<1>5. j \in 1 .. n /\ best \in Nat
    BY SMT, <1>2
<1>6. ~(best < j)
    <2> SUFFICES ASSUME best < j PROVE FALSE
        OBVIOUS
    <2>1. j \in best + 1 .. n
        BY SMT, <1>2, <1>5
    <2>2. addr < regions[j].base
        BY <1>2, <2>1
    <2> QED
        BY SMT, <1>3, <1>5, <2>2
<1>7. ~(j < best)
    <2> SUFFICES ASSUME j < best PROVE FALSE
        OBVIOUS
    <2>1. best \in 1 .. best /\ best \in 1 .. n
        BY SMT, <1>2, <1>5
    <2>2. regions[best].base <= addr /\ regions[j].base + regions[j].size <= regions[best].base
        BY <1>2, <1>4, <2>1
    <2> QED
        BY SMT, <1>3, <1>5, <2>1, <2>2
<1>8. best = j /\ best # 0
    BY SMT, <1>2, <1>5, <1>6, <1>7
<1>9. Accepts(j, addr)
    <2>1. addr - regions[j].base < regions[j].size
        BY SMT, <1>3, <1>5
    <2> QED
        BY <2>1, InsideIsHandle DEF Accepts
<1>10. vx_remote_addr_is_handle(addr)
    BY InsideIsHandle
<1> QED
    BY <1>8, <1>9, <1>10 DEF vx_remote_resolve, best

\* In a table with ascending bases the lookup is exact.
LEMMA InvResolve == TableInv /\ Sorted => ResolveIsExact
<1> SUFFICES ASSUME TableInv, Sorted, NEW addr \in Addresses
             PROVE  LET i == vx_remote_resolve(addr)
                        Holds(j) == /\ regions[j].live
                                    /\ addr \in regions[j].base .. regions[j].base + regions[j].size - 1
                    IN  IF i # 0 THEN Holds(i) ELSE \A j \in DOMAIN regions : ~Holds(j)
    BY DEF ResolveIsExact
<1>1. addr \in Nat
    <2>1. WorkerMax + 1 \in Nat /\ Span \in Nat
        BY SMT, RegionAssumption, SpanType
    <2>2. (WorkerMax + 1) * Span \in Nat
        BY SMT, <2>1
    <2> QED
        BY SMT, <2>2 DEF Addresses
<1>2. ASSUME NEW j \in DOMAIN regions
      PROVE  regions[j].base \in Nat /\ regions[j].size \in Nat
    <2>1. regions[j] \in Region
        BY SMT DEF TableInv, Types
    <2> QED
        BY <2>1, RegionAssumption DEF Region
<1> DEFINE i == vx_remote_resolve(addr)
<1>3. ASSUME i # 0
      PROVE  regions[i].live /\ addr \in regions[i].base .. regions[i].base + regions[i].size - 1
    <2>1. i \in DOMAIN regions /\ Accepts(i, addr)
        BY <1>1, <1>3, ResolveFinds
    <2>2. regions[i].base \in Nat /\ regions[i].size \in Nat
        BY <1>2, <2>1
    <2>3. regions[i].live /\ regions[i].base <= addr /\ addr - regions[i].base < regions[i].size
        BY <2>1 DEF Accepts
    <2> HIDE DEF i
    <2> QED
        BY SMT, <1>1, <2>2, <2>3
<1>4. ASSUME i = 0, NEW j \in DOMAIN regions, regions[j].live,
             addr \in regions[j].base .. regions[j].base + regions[j].size - 1
      PROVE  FALSE
    <2>1. regions[j].base <= addr /\ addr < regions[j].base + regions[j].size
        BY SMT, <1>1, <1>2, <1>4
    <2>2. i = j
        BY <1>1, <1>4, <2>1, ResolveMeets
    <2>3. j # 0
        BY SMT DEF TableInv, Types
    <2> QED
        BY <1>4, <2>2, <2>3
<1> HIDE DEF i
<1> QED
    BY <1>3, <1>4 DEF i
-----------------------------------------------------------------------------
(* The order of the slots: a new region of the only worker comes last.     *)
LEMMA SortedAlloc ==
  ASSUME TableInv, Sorted, NEW w, Workers = {w}, NEW size \in Sizes, NEW remote \in Buffers,
         vx_remote_table_alloc(w, size, remote)
  PROVE  /\ Sorted'
         /\ \A i \in DOMAIN regions : regions[i].base + regions[i].size <= vx_remote_addr(w, next_offset[w])
<1> DEFINE base == vx_remote_addr(w, next_offset[w])
           k == Len(regions) + 1
           region == [worker |-> w, base |-> base, size |-> size,
                      remote |-> remote, live |-> TRUE, mint |-> Len(minted) + 1]
<1>1. regions' = Append(regions, region) /\ regions \in Seq(Region)
    BY DEF vx_remote_table_alloc, TableInv, Types
<1>2. region.base = base
    OBVIOUS
<1>3. ASSUME NEW i \in DOMAIN regions PROVE regions[i].base + regions[i].size <= base
    <2> DEFINE m == regions[i].mint
    <2>1. m \in DOMAIN minted /\ regions[i].base = minted[m].base /\ regions[i].size = minted[m].size
        BY DEF TableInv, Recorded
    <2>2. minted[m] \in Mint
        BY SMT, <2>1 DEF TableInv, Types
    <2>3. minted[m].worker = w /\ minted[m].base \in Nat /\ minted[m].size \in Nat
        BY <2>2, RegionAssumption DEF Mint
    <2>4. Gap(minted[m].size) \in Nat
        BY <2>3, GapType
    <2>5. minted[m].base + minted[m].size + Gap(minted[m].size) <= base
        BY <2>1, <2>3 DEF TableInv, Below, End0
    <2>6. next_offset[w] \in Nat
        BY SMT, RegionAssumption DEF TableInv, Types
    <2>7. base \in Nat
        BY SMT, <2>6, Addr
    <2> HIDE DEF m, base
    <2> QED
        BY SMT, <2>1, <2>3, <2>4, <2>5, <2>7
<1> HIDE DEF base, region
<1>4. /\ DOMAIN regions = 1 .. Len(regions) /\ Len(regions) \in Nat
      /\ DOMAIN regions' = 1 .. k
      /\ regions'[k] = region /\ \A i \in 1 .. Len(regions) : regions'[i] = regions[i]
    BY SMT, <1>1
<1>5. ASSUME NEW i \in 1 .. k, NEW j \in 1 .. k, i < j
      PROVE  regions'[i].base + regions'[i].size <= regions'[j].base
    <2>1. i \in DOMAIN regions /\ regions'[i] = regions[i]
        BY SMT, <1>4, <1>5
    <2>2. CASE j = k
        BY <1>2, <1>3, <1>4, <2>1, <2>2
    <2>3. CASE j # k
        <3>1. j \in DOMAIN regions /\ regions'[j] = regions[j]
            BY SMT, <1>4, <2>3
        <3> QED
            BY <1>5, <2>1, <3>1 DEF Sorted
    <2> QED
        BY <2>2, <2>3
<1> QED
    BY <1>3, <1>4, <1>5 DEF Sorted, base

(* A free marks the slot it names, and changes nothing else.               *)
LEMMA FreeIs ==
  ASSUME TableInv, NEW i \in DOMAIN regions, vx_remote_table_free(i)
  PROVE  /\ DOMAIN regions' = DOMAIN regions
         /\ ~regions'[i].live
         /\ \A j \in DOMAIN regions : /\ regions'[j].base = regions[j].base
                                      /\ regions'[j].size = regions[j].size
                                      /\ regions'[j].remote = regions[j].remote
                                      /\ j # i => regions'[j].live = regions[j].live
<1>1. regions' = [regions EXCEPT ![i].live = FALSE] /\ regions \in Seq(Region)
    BY DEF vx_remote_table_free, TableInv, Types
<1>2. /\ DOMAIN regions' = DOMAIN regions
      /\ regions'[i] = [regions[i] EXCEPT !.live = FALSE]
      /\ \A j \in DOMAIN regions : j # i => regions'[j] = regions[j]
    BY <1>1
<1>3. regions[i] \in Region
    BY SMT, <1>1
<1>4. /\ regions'[i].base = regions[i].base /\ regions'[i].size = regions[i].size
      /\ regions'[i].remote = regions[i].remote /\ ~regions'[i].live
    BY <1>2, <1>3 DEF Region
<1> QED
    BY <1>2, <1>4

\* A free keeps the bases ascending.
LEMMA SortedFree ==
  ASSUME TableInv, Sorted, NEW i \in DOMAIN regions, vx_remote_table_free(i)
  PROVE  Sorted'
<1> QED
    BY FreeIs DEF Sorted

\* The bases of an empty table are ascending.
LEMMA SortedEmpty == regions = <<>> => Sorted
<1> QED
    BY SMT DEF Sorted
-----------------------------------------------------------------------------
(* The messages between the worker and its hosts, and the handles the      *)
(* hosts keep: enough to know that a worker is asked for sizes.            *)
Result == [handle : Nat, buffer : Buffers \cup {NoHost}]
Message == [type : {"TRANSFER"}, size : Sizes]
             \cup [type : {"FETCH", "DISPATCH"}, handles : SUBSET Nat]
             \cup [type : {"FREE"}, handles : {{a} : a \in Nat}]
Reply == [type : {"TRANSFER", "FETCH", "FREE", "DISPATCH"}, ok : BOOLEAN, result : Result]

Wires == /\ requests \in [Hosts -> Seq(Message)]
         /\ replies \in [Hosts -> Seq(Reply)]

Steps == Calls \cup {"none", "encode", "collect", "ended", "aborted"}
Reads == {"collect", "read back", "release"}

Kept == /\ doing \in [Hosts -> Steps]
        /\ resident \in [Hosts -> SUBSET Result]
        /\ staged \in [Hosts -> Seq(Result)]
        /\ todo \in [Hosts -> Nat]
        /\ \A h \in Hosts : doing[h] \in Reads => todo[h] <= Len(staged[h])

SessionInv == TableInv /\ Wires /\ Kept

\* A request has the type of a message.
LEMMA Asks ==
  ASSUME SessionInv, NEW h \in Hosts, NEW call, NEW msg \in Message, Ask(h, call, msg)
  PROVE  Wires' /\ UNCHANGED table /\ doing' = [doing EXCEPT ![h] = call]
<1>1. requests' = [requests EXCEPT ![h] = Append(@, msg)] /\ replies' = replies
    BY DEF Ask
<1>2. requests[h] \in Seq(Message)
    BY DEF SessionInv, Wires
<1>3. Append(requests[h], msg) \in Seq(Message)
    BY SMT, <1>2
<1> QED
    BY <1>1, <1>3 DEF SessionInv, Wires, Ask, worker

(* A step of one host leaves what the others keep alone.                   *)
LEMMA OneHost ==
  ASSUME SessionInv, NEW h \in Hosts, NEW c \in Steps, NEW r \in SUBSET Result,
         NEW s \in Seq(Result), NEW n \in Nat, c \in Reads => n <= Len(s),
         doing' = [doing EXCEPT ![h] = c], resident' = [resident EXCEPT ![h] = r],
         staged' = [staged EXCEPT ![h] = s], todo' = [todo EXCEPT ![h] = n]
  PROVE  Kept'
<1>1. /\ doing \in [Hosts -> Steps] /\ resident \in [Hosts -> SUBSET Result]
      /\ staged \in [Hosts -> Seq(Result)] /\ todo \in [Hosts -> Nat]
    BY DEF SessionInv, Kept
<1>2. /\ doing' \in [Hosts -> Steps] /\ resident' \in [Hosts -> SUBSET Result]
      /\ staged' \in [Hosts -> Seq(Result)] /\ todo' \in [Hosts -> Nat]
    BY <1>1
<1>3. ASSUME NEW g \in Hosts, doing'[g] \in Reads PROVE todo'[g] <= Len(staged'[g])
    <2>1. CASE g = h
        BY <1>1, <2>1, <1>3
    <2>2. CASE g # h
        <3>1. doing'[g] = doing[g] /\ todo'[g] = todo[g] /\ staged'[g] = staged[g]
            BY <1>1, <2>2
        <3> QED
            BY <1>3, <3>1 DEF SessionInv, Kept
    <2> QED
        BY <2>1, <2>2
<1> QED
    BY <1>2, <1>3 DEF Kept

\* The types of what one host keeps.
LEMMA HostTypes ==
  ASSUME SessionInv, NEW h \in Hosts
  PROVE  /\ doing[h] \in Steps /\ resident[h] \in SUBSET Result
         /\ staged[h] \in Seq(Result) /\ todo[h] \in Nat
         /\ doing[h] \in Reads => todo[h] <= Len(staged[h])
         /\ doing = [doing EXCEPT ![h] = doing[h]]
         /\ resident = [resident EXCEPT ![h] = resident[h]]
         /\ staged = [staged EXCEPT ![h] = staged[h]]
         /\ todo = [todo EXCEPT ![h] = todo[h]]
<1> QED
    BY DEF SessionInv, Kept

(* A step that only moves on, and one that only gives up what was placed.  *)
LEMMA MovesOn ==
  ASSUME SessionInv, NEW h \in Hosts, NEW c \in Steps, c \notin Reads \/ doing[h] \in Reads,
         doing' = [doing EXCEPT ![h] = c], UNCHANGED <<resident, staged, todo>>
  PROVE  Kept'
<1>1. PICK r \in SUBSET Result, s \in Seq(Result), n \in Nat : r = resident[h] /\ s = staged[h] /\ n = todo[h]
    BY HostTypes
<1>2. c \in Reads => n <= Len(s)
    BY <1>1, HostTypes
<1>3. resident' = [resident EXCEPT ![h] = r] /\ staged' = [staged EXCEPT ![h] = s]
        /\ todo' = [todo EXCEPT ![h] = n]
    BY <1>1, HostTypes
<1> QED
    BY <1>2, <1>3, OneHost

\* A host that goes to a call in which it reads nothing back keeps the types.
LEMMA GivesUp ==
  ASSUME SessionInv, NEW h \in Hosts, NEW c \in Steps, c \notin Reads, NEW r \in SUBSET Result,
         doing' = [doing EXCEPT ![h] = c], resident' = [resident EXCEPT ![h] = r],
         UNCHANGED <<staged, todo>>
  PROVE  Kept'
<1> DEFINE s == staged[h]
           n == todo[h]
<1>1. staged' = [staged EXCEPT ![h] = s] /\ todo' = [todo EXCEPT ![h] = n]
    BY HostTypes
<1>2. s \in Seq(Result) /\ n \in Nat
    BY HostTypes
<1> HIDE DEF s, n
<1>3. c \in Reads => n <= Len(s)
    OBVIOUS
<1> QED
    BY <1>1, <1>2, <1>3, OneHost

\* The end of a host keeps the types and the table.
LEMMA Ends ==
  ASSUME SessionInv, NEW h \in Hosts, NEW how \in {"ended", "aborted"}, End(h, how)
  PROVE  SessionInv'
<1>1. TableInv'
    BY Same DEF End, worker, SessionInv
<1>2. Wires'
    BY SMT DEF SessionInv, Wires, End
<1>3. Kept'
    <2>0. how \in Steps /\ how \notin Reads
        BY DEF Steps, Reads
    <2>1. <<>> \in Seq(Result) /\ {} \in SUBSET Result /\ 0 \in Nat
        BY SMT
    <2>2. /\ doing' = [doing EXCEPT ![h] = how] /\ resident' = [resident EXCEPT ![h] = {}]
          /\ staged' = [staged EXCEPT ![h] = <<>>] /\ todo' = [todo EXCEPT ![h] = 0]
        BY DEF End
    <2> QED
        BY <2>0, <2>1, <2>2, OneHost
<1> QED
    BY <1>1, <1>2, <1>3 DEF SessionInv

\* The handles a host keeps can be put into its requests.
LEMMA Placed ==
  ASSUME SessionInv, NEW h \in Hosts
  PROVE  /\ \A x \in resident[h] : Request("FETCH", {x.handle}) \in Message
                                 /\ Request("FREE", {x.handle}) \in Message
         /\ \A i \in DOMAIN staged[h] : Request("FETCH", {staged[h][i].handle}) \in Message
                                     /\ Request("FREE", {staged[h][i].handle}) \in Message
         /\ \A s \in SUBSET Handles(resident[h]) :
              Request("DISPATCH", s \cup Handles(Range(staged[h]))) \in Message
<1>1. resident[h] \subseteq Result /\ staged[h] \in Seq(Result)
    BY HostTypes
<1>2. \A i \in DOMAIN staged[h] : staged[h][i] \in Result
    BY SMT, <1>1
<1>3. \A x \in Result : x.handle \in Nat
    BY DEF Result
<1>4. /\ \A hs \in SUBSET Nat : /\ Request("FETCH", hs) \in Message
                                /\ Request("DISPATCH", hs) \in Message
      /\ \A a \in Nat : Request("FREE", {a}) \in Message
    BY DEF Request, Message
<1>5. Handles(resident[h]) \subseteq Nat
    BY <1>1, <1>3 DEF Handles
<1>6. Handles(Range(staged[h])) \subseteq Nat
    BY <1>2, <1>3 DEF Handles, Range
<1>7. \A s \in SUBSET Handles(resident[h]) : s \cup Handles(Range(staged[h])) \in SUBSET Nat
    BY <1>5, <1>6
<1>8. \A x \in Result : {x.handle} \in SUBSET Nat
    BY <1>3
<1> QED
    BY <1>1, <1>2, <1>3, <1>4, <1>7, <1>8

\* The first step of a call of a host keeps the types and the table.
LEMMA StartStep ==
  ASSUME SessionInv, NEW h \in Hosts, Starts(h)
  PROVE  SessionInv'
<1>0. \A size \in Sizes : Transfer(size) \in Message
    BY DEF Transfer, Message
<1>1. CASE vx_remote_connect(h)
    <2>1. UNCHANGED <<table, requests, replies, doing, resident, staged, todo>>
        BY <1>1 DEF vx_remote_connect, worker, host
    <2>2. Wires' /\ Kept'
        BY <2>1 DEF SessionInv, Wires, Kept
    <2> QED
        BY <2>1, <2>2, Same DEF SessionInv
<1>2. CASE try_alloc(h)
    <2>1. PICK size \in Sizes : Ask(h, "alloc", Transfer(size))
        BY <1>2 DEF try_alloc
    <2>2. Wires' /\ UNCHANGED table /\ doing' = [doing EXCEPT ![h] = "alloc"]
        BY <1>0, <2>1, Asks
    <2>3. "alloc" \in Steps /\ "alloc" \notin Reads /\ UNCHANGED <<resident, staged, todo>>
        BY <1>2 DEF try_alloc, Steps, Calls, Reads
    <2>4. Kept'
        BY <2>2, <2>3, MovesOn
    <2> QED
        BY <2>2, <2>4, Same DEF SessionInv
<1>3. CASE try_fetch(h)
    <2>1. PICK x \in resident[h] : Ask(h, "fetch", Request("FETCH", {x.handle}))
        BY <1>3 DEF try_fetch
    <2>2. Wires' /\ UNCHANGED table /\ doing' = [doing EXCEPT ![h] = "fetch"]
        BY <2>1, Asks, Placed
    <2>3. "fetch" \in Steps /\ "fetch" \notin Reads /\ UNCHANGED <<resident, staged, todo>>
        BY <1>3 DEF try_fetch, Steps, Calls, Reads
    <2>4. Kept'
        BY <2>2, <2>3, MovesOn
    <2> QED
        BY <2>2, <2>4, Same DEF SessionInv
<1>4. CASE try_free(h)
    <2>1. PICK x \in resident[h] :
            /\ \/ Ask(h, "free", Request("FREE", {x.handle}))
               \/ link[h] = "closed" /\ UNCHANGED <<worker, wires, doing>>
            /\ resident' = [resident EXCEPT ![h] = @ \ {x}]
        BY <1>4 DEF try_free
    <2>2. /\ "free" \in Steps /\ "free" \notin Reads /\ "none" \in Steps /\ "none" \notin Reads
          /\ doing[h] = "none" /\ UNCHANGED <<staged, todo>>
        BY <1>4 DEF try_free, Steps, Calls, Reads
    <2>3. resident[h] \ {x} \in SUBSET Result
        BY HostTypes
    <2>4. CASE Ask(h, "free", Request("FREE", {x.handle}))
        <3>1. Wires' /\ UNCHANGED table /\ doing' = [doing EXCEPT ![h] = "free"]
            BY <2>1, <2>4, Asks, Placed
        <3>2. Kept'
            BY <2>1, <2>2, <2>3, <3>1, GivesUp
        <3> QED
            BY <3>1, <3>2, Same DEF SessionInv
    <2>5. CASE UNCHANGED <<worker, wires, doing>>
        <3>1. Wires' /\ UNCHANGED table /\ doing' = doing
            BY <2>5 DEF worker, wires, SessionInv, Wires
        <3>2. Kept'
            <4>1. doing' = [doing EXCEPT ![h] = "none"]
                BY <2>2, <3>1, HostTypes
            <4> QED
                BY <2>1, <2>2, <2>3, <4>1, GivesUp
        <3> QED
            BY <3>1, <3>2, Same DEF SessionInv
    <2> QED
        BY <2>1, <2>4, <2>5
<1>5. CASE try_dispatch(h)
    <2>1. PICK n \in 0 .. MaxStaged : todo' = [todo EXCEPT ![h] = n]
        BY <1>5 DEF try_dispatch
    <2>2. n \in Nat
        BY SMT, SessionAssumption
    <2>3. /\ "encode" \in Steps /\ "encode" \notin Reads /\ doing' = [doing EXCEPT ![h] = "encode"]
          /\ UNCHANGED <<table, requests, replies, resident, staged>>
        BY <1>5 DEF try_dispatch, Steps, Reads, worker, wires
    <2>4. Kept'
        BY ZenonT(40), <2>1, <2>2, <2>3, OneHost, HostTypes
    <2>5. Wires'
        BY <2>3 DEF SessionInv, Wires
    <2> QED
        BY <2>3, <2>4, <2>5, Same DEF SessionInv
<1>6. CASE cannot_cross(h)
    BY <1>6, Ends DEF cannot_cross
<1> QED
    BY <1>1, <1>2, <1>3, <1>4, <1>5, <1>6 DEF Starts

\* A later step of a call of a host keeps the types and the table.
LEMMA ContinueStep ==
  ASSUME SessionInv, NEW h \in Hosts, Continues(h)
  PROVE  SessionInv'
<1>0. \A size \in Sizes : Transfer(size) \in Message
    BY DEF Transfer, Message
<1>1. CASE encode_args(h)
    <2>1. CASE todo[h] > 0
        <3>1. PICK size \in Sizes : Ask(h, "stage", Transfer(size))
            BY SMT, <1>1, <2>1 DEF encode_args
        <3>2. Wires' /\ UNCHANGED table /\ doing' = [doing EXCEPT ![h] = "stage"]
            BY <1>0, <3>1, Asks
        <3>3. /\ "stage" \in Steps /\ "stage" \notin Reads
              /\ todo' = [todo EXCEPT ![h] = todo[h] - 1] /\ UNCHANGED <<resident, staged>>
            BY SMT, <1>1, <2>1 DEF encode_args, Steps, Calls, Reads
        <3>4. /\ resident' = [resident EXCEPT ![h] = resident[h]]
                   /\ staged' = [staged EXCEPT ![h] = staged[h]]
              /\ resident[h] \in SUBSET Result /\ staged[h] \in Seq(Result) /\ todo[h] \in Nat
            BY <3>3, HostTypes
        <3>5. todo[h] - 1 \in Nat
            BY SMT, <2>1, <3>4
        <3>6. Kept'
            BY <3>2, <3>3, <3>4, <3>5, OneHost
        <3> QED
            BY <3>2, <3>6, Same DEF SessionInv
    <2>2. CASE todo[h] = 0
        <3>1. PICK placed \in SUBSET Handles(resident[h]) :
                Ask(h, "dispatch", Request("DISPATCH", placed \cup Handles(Range(staged[h]))))
            BY SMT, <1>1, <2>2 DEF encode_args
        <3>2. Wires' /\ UNCHANGED table /\ doing' = [doing EXCEPT ![h] = "dispatch"]
            BY <3>1, Asks, Placed
        <3>3. "dispatch" \in Steps /\ "dispatch" \notin Reads /\ UNCHANGED <<resident, staged, todo>>
            BY SMT, <1>1, <2>2 DEF encode_args, Steps, Calls, Reads
        <3>4. Kept'
            BY <3>2, <3>3, MovesOn
        <3> QED
            BY <3>2, <3>4, Same DEF SessionInv
    <2> QED
        BY <1>1, <2>1, <2>2 DEF encode_args
<1>2. CASE fetch_staged(h)
    <2>1. /\ doing[h] = "collect" /\ todo[h] > 0 /\ todo' = [todo EXCEPT ![h] = todo[h] - 1]
          /\ Ask(h, "read back", Request("FETCH", {staged[h][todo[h]].handle}))
          /\ UNCHANGED <<resident, staged>>
        BY <1>2 DEF fetch_staged
    <2>2. /\ resident' = [resident EXCEPT ![h] = resident[h]] /\ staged' = [staged EXCEPT ![h] = staged[h]]
          /\ resident[h] \in SUBSET Result /\ staged[h] \in Seq(Result) /\ todo[h] \in Nat
          /\ "collect" \in Reads => todo[h] <= Len(staged[h])
        BY <2>1, HostTypes
    <2>3. "read back" \in Steps /\ "collect" \in Reads
        BY DEF Steps, Calls, Reads
    <2>4. todo[h] - 1 \in Nat /\ todo[h] - 1 <= Len(staged[h]) /\ todo[h] \in DOMAIN staged[h]
        <3>1. Len(staged[h]) \in Nat /\ DOMAIN staged[h] = 1 .. Len(staged[h])
            BY SMT, <2>2
        <3>2. todo[h] <= Len(staged[h]) /\ todo[h] \in Nat /\ todo[h] > 0
            BY <2>1, <2>2, <2>3
        <3> QED
            BY SMT, <3>1, <3>2
    <2>5. Wires' /\ UNCHANGED table /\ doing' = [doing EXCEPT ![h] = "read back"]
        BY <2>1, <2>4, Asks, Placed
    <2>6. Kept'
        BY <2>1, <2>2, <2>3, <2>4, <2>5, OneHost
    <2> QED
        BY <2>5, <2>6, Same DEF SessionInv
<1>3. CASE free_staged(h)
    <2>1. CASE staged[h] # <<>>
        <3>1. /\ todo[h] = 0 /\ Ask(h, "release", Request("FREE", {Head(staged[h]).handle}))
              /\ staged' = [staged EXCEPT ![h] = Tail(staged[h])] /\ UNCHANGED <<resident, todo>>
            BY <1>3, <2>1 DEF free_staged, ToFree
        <3>2. /\ resident' = [resident EXCEPT ![h] = resident[h]] /\ todo' = [todo EXCEPT ![h] = todo[h]]
              /\ resident[h] \in SUBSET Result /\ staged[h] \in Seq(Result) /\ todo[h] \in Nat
            BY <3>1, HostTypes
        <3>3. /\ Tail(staged[h]) \in Seq(Result) /\ Head(staged[h]) = staged[h][1] /\ 1 \in DOMAIN staged[h]
              /\ todo[h] <= Len(Tail(staged[h]))
            BY SMT, <2>1, <3>1, <3>2
        <3>4. Wires' /\ UNCHANGED table /\ doing' = [doing EXCEPT ![h] = "release"]
            BY <3>1, <3>3, Asks, Placed
        <3>5. "release" \in Steps
            BY DEF Steps, Calls
        <3>6. Kept'
            BY <3>1, <3>2, <3>3, <3>4, <3>5, OneHost
        <3> QED
            BY <3>4, <3>6, Same DEF SessionInv
    <2>2. CASE staged[h] = <<>>
        <3>1. /\ doing' = [doing EXCEPT ![h] = "none"]
              /\ UNCHANGED <<table, requests, replies, resident, staged, todo>>
            BY <1>3, <2>2 DEF free_staged, worker, wires
        <3>2. "none" \in Steps /\ "none" \notin Reads
            BY DEF Steps, Reads
        <3>3. Kept'
            BY <3>1, <3>2, MovesOn
        <3>4. Wires'
            BY <3>1 DEF SessionInv, Wires
        <3> QED
            BY <3>1, <3>3, <3>4, Same DEF SessionInv
    <2> QED
        BY <2>1, <2>2
<1>4. CASE reply_ok(h)
    <2> DEFINE c == After(doing[h])
               r == IF doing[h] = "alloc" THEN resident[h] \cup {Got(h).result} ELSE resident[h]
               s == IF doing[h] = "stage" THEN Append(staged[h], Got(h).result) ELSE staged[h]
    <2>1. /\ doing[h] \in Calls /\ replies[h] # <<>> /\ UNCHANGED <<table, requests>>
          /\ replies' = [replies EXCEPT ![h] = Tail(@)]
        BY <1>4 DEF reply_ok, Receive, worker
    <2>2. /\ doing' = [doing EXCEPT ![h] = c] /\ resident' = [resident EXCEPT ![h] = r]
          /\ staged' = [staged EXCEPT ![h] = s]
        BY <1>4 DEF reply_ok
    <2>3. replies[h] \in Seq(Reply)
        BY DEF SessionInv, Wires
    <2>4. Tail(replies[h]) \in Seq(Reply) /\ Head(replies[h]) \in Reply
        BY SMT, <2>1, <2>3
    <2>5. Got(h).result \in Result
        BY <2>4 DEF Got, Reply
    <2>6. Wires'
        BY <2>1, <2>4 DEF SessionInv, Wires
    <2>7. /\ resident[h] \in SUBSET Result /\ staged[h] \in Seq(Result) /\ todo[h] \in Nat
          /\ doing[h] \in Reads => todo[h] <= Len(staged[h])
        BY HostTypes
    <2>8. r \in SUBSET Result /\ s \in Seq(Result)
        BY SMT, <2>5, <2>7
    <2>9. /\ c \in Steps
          /\ c \in Reads => doing[h] \in Reads \/ doing[h] = "dispatch"
        BY <2>1 DEF After, Steps, Calls, Reads
    <2>10. CASE doing[h] = "dispatch"
        <3>1. PICK n \in {0, Len(staged[h])} : todo' = [todo EXCEPT ![h] = n]
            BY <1>4, <2>10 DEF reply_ok
        <3>2. n \in Nat /\ n <= Len(s)
            BY SMT, <2>7, <2>10
        <3> HIDE DEF c, r, s
        <3>3. Kept'
            BY <2>2, <2>8, <2>9, <3>1, <3>2, OneHost
        <3> QED
            BY <2>1, <2>6, <3>3, Same DEF SessionInv
    <2>11. CASE doing[h] # "dispatch"
        <3>1. todo' = [todo EXCEPT ![h] = todo[h]]
            BY <1>4, <2>11, HostTypes DEF reply_ok
        <3>2. c \in Reads => todo[h] <= Len(s)
            <4>1. doing[h] \in Reads => s = staged[h]
                BY DEF Reads
            <4> QED
                BY <2>7, <2>9, <2>11, <4>1
        <3> HIDE DEF c, r, s
        <3>3. Kept'
            BY <2>2, <2>7, <2>8, <2>9, <3>1, <3>2, OneHost
        <3> QED
            BY <2>1, <2>6, <3>3, Same DEF SessionInv
    <2> QED
        BY <2>10, <2>11
<1>5. CASE reply_refused(h)
    BY <1>5, Ends DEF reply_refused
<1>6. CASE wire_failed(h)
    <2>1. CASE End(h, "aborted")
        BY <2>1, Ends
    <2>2. CASE /\ doing' = [doing EXCEPT ![h] = "none"]
               /\ staged' = [staged EXCEPT ![h] = <<>>]
               /\ UNCHANGED <<worker, wires, resident, todo>>
        <3>1. /\ resident' = [resident EXCEPT ![h] = resident[h]] /\ todo' = [todo EXCEPT ![h] = todo[h]]
              /\ resident[h] \in SUBSET Result /\ todo[h] \in Nat
            BY <2>2, HostTypes
        <3>2. "none" \in Steps /\ "none" \notin Reads
            BY DEF Steps, Reads
        <3>3. <<>> \in Seq(Result)
            BY SMT
        <3>4. Kept'
            BY <2>2, <3>1, <3>2, <3>3, OneHost
        <3>5. Wires' /\ UNCHANGED table
            BY <2>2 DEF worker, wires, SessionInv, Wires
        <3> QED
            BY <3>4, <3>5, Same DEF SessionInv
    <2> QED
        BY <1>6, <2>1, <2>2 DEF wire_failed
<1> QED
    BY <1>1, <1>2, <1>3, <1>4, <1>5, <1>6 DEF Continues

\* A reply has the type of a message.
LEMMA Answers ==
  ASSUME SessionInv, NEW h \in Hosts, requests[h] # <<>>,
         NEW ok \in BOOLEAN, NEW result \in Result, Answer(h, ok, result)
  PROVE  Wires' /\ Kept'
<1>1. requests[h] \in Seq(Message) /\ replies[h] \in Seq(Reply)
    BY DEF SessionInv, Wires
<1>2. Tail(requests[h]) \in Seq(Message) /\ Head(requests[h]) \in Message
    BY SMT, <1>1
<1>3. Head(requests[h]).type \in {"TRANSFER", "FETCH", "FREE", "DISPATCH"}
    BY <1>2 DEF Message
<1> DEFINE reply == [type |-> Head(requests[h]).type, ok |-> ok, result |-> result]
<1>4. reply \in Reply
    BY <1>3 DEF Reply
<1>5. /\ requests' = [requests EXCEPT ![h] = Tail(@)]
      /\ replies' = [replies EXCEPT ![h] = IF link[h] = "cut" THEN @ ELSE Append(@, reply)]
      /\ UNCHANGED <<doing, resident, staged, todo>>
    BY DEF Answer, host
<1> HIDE DEF reply
<1>6. Append(replies[h], reply) \in Seq(Reply)
    BY SMT, <1>1, <1>4
<1>7. Wires'
    BY <1>1, <1>2, <1>5, <1>6 DEF SessionInv, Wires
<1>8. Kept'
    BY <1>5 DEF SessionInv, Kept
<1> QED
    BY <1>7, <1>8

\* A step of the worker for a host keeps the types and the table.
LEMMA ServeStep ==
  ASSUME SessionInv, NEW h \in Hosts, Serve(h)
  PROVE  SessionInv'
<1>0. Nothing \in Result
    BY DEF Nothing, Result
<1>1. CASE accept(h)
    <2>1. UNCHANGED <<table, requests, replies, doing, resident, staged, todo>>
        BY <1>1 DEF accept, wires, host
    <2>2. Wires' /\ Kept'
        BY <2>1 DEF SessionInv, Wires, Kept
    <2> QED
        BY <2>1, <2>2, Same DEF SessionInv
<1>2. CASE serve_transfer(h)
    <2>1. requests[h] # <<>> /\ Head(requests[h]).type = "TRANSFER"
        BY <1>2 DEF serve_transfer, Asked
    <2>2. requests[h] \in Seq(Message)
        BY DEF SessionInv, Wires
    <2>3. Head(requests[h]) \in Message
        BY SMT, <2>1, <2>2
    <2>4. Size(h) \in Sizes
        BY <2>1, <2>3 DEF Size, Message
    <2>5. ASSUME NEW b \in Buffers \ device, vx_remote_table_alloc(Me, Size(h), b),
                 Answer(h, TRUE, [handle |-> vx_remote_addr(Me, next_offset[Me]), buffer |-> b])
          PROVE  SessionInv'
        <3>1. Me \in Workers
            BY SessionAssumption
        <3>2. next_offset[Me] \in Nat
            BY SMT, <3>1, RegionAssumption DEF SessionInv, TableInv, Types
        <3>3. vx_remote_addr(Me, next_offset[Me]) \in Nat
            BY SMT, <3>1, <3>2, Addr
        <3>4. [handle |-> vx_remote_addr(Me, next_offset[Me]), buffer |-> b] \in Result
            BY <3>3 DEF Result
        <3>5. Wires' /\ Kept'
            BY <2>1, <2>5, <3>4, Answers
        <3>6. TableInv'
            BY <2>4, <2>5, <3>1, Alloc DEF SessionInv
        <3> QED
            BY <3>5, <3>6 DEF SessionInv
    <2>6. ASSUME Answer(h, FALSE, Nothing), UNCHANGED <<table, device>>
          PROVE  SessionInv'
        <3>1. Wires' /\ Kept'
            BY <1>0, <2>1, <2>6, Answers
        <3> QED
            BY <2>6, <3>1, Same DEF SessionInv
    <2> QED
        BY <1>2, <2>5, <2>6 DEF serve_transfer
<1>3. CASE serve_dispatch(h)
    <2>1. PICK ok \in {Resolves(h), FALSE} : Answer(h, ok, Nothing)
        BY <1>3 DEF serve_dispatch
    <2>2. ok \in BOOLEAN
        BY DEF Resolves
    <2>3. requests[h] # <<>> /\ UNCHANGED table
        BY <1>3 DEF serve_dispatch, Asked
    <2>4. Wires' /\ Kept'
        BY <1>0, <2>1, <2>2, <2>3, Answers
    <2> QED
        BY <2>3, <2>4, Same DEF SessionInv
<1>4. CASE serve_fetch(h)
    <2>1. Answer(h, Resolves(h), Nothing) /\ requests[h] # <<>> /\ UNCHANGED table
        BY <1>4 DEF serve_fetch, Asked
    <2>2. Resolves(h) \in BOOLEAN
        BY DEF Resolves
    <2>3. Wires' /\ Kept'
        BY <1>0, <2>1, <2>2, Answers
    <2> QED
        BY <2>1, <2>3, Same DEF SessionInv
<1>5. CASE serve_free(h)
    <2>1. Answer(h, TRUE, Nothing) /\ requests[h] # <<>>
        BY <1>5 DEF serve_free, Asked
    <2>2. Wires' /\ Kept'
        BY <1>0, <2>1, Answers
    <2>3. vx_remote_table_free(vx_remote_resolve(TheHandle(h))) \/ UNCHANGED table
        BY <1>5 DEF serve_free
    <2>4. TableInv'
        BY <2>3, Free, Same DEF SessionInv
    <2> QED
        BY <2>2, <2>4 DEF SessionInv
<1>6. CASE hang_up(h)
    <2>1. /\ vx_remote_table_free_all /\ requests' = [requests EXCEPT ![h] = <<>>]
          /\ UNCHANGED <<replies, doing, resident, staged, todo>>
        BY <1>6 DEF hang_up, host
    <2>2. <<>> \in Seq(Message)
        BY SMT
    <2>3. Wires'
        BY <2>1, <2>2 DEF SessionInv, Wires
    <2>4. Kept'
        BY <2>1 DEF SessionInv, Kept
    <2> QED
        BY <2>1, <2>3, <2>4, FreeAll DEF SessionInv
<1> QED
    BY <1>1, <1>2, <1>3, <1>4, <1>5, <1>6 DEF Serve

(* A worker that is started again has a new table.                         *)
LEMMA RestartStep == SessionInv /\ restart => SessionInv'
<1> SUFFICES ASSUME SessionInv, restart PROVE SessionInv'
    OBVIOUS
<1>1. /\ regions' = <<>> /\ next_offset' = [w \in Workers |-> MinGap] /\ minted' = <<>>
      /\ requests' = [h \in Hosts |-> <<>>] /\ replies' = [h \in Hosts |-> <<>>]
      /\ UNCHANGED <<doing, resident, staged, todo>>
    BY DEF restart, host
<1>2. Types'
    BY SMT, <1>1, RegionAssumption DEF Types
<1>3. TableInv'
    BY SMT, <1>1, <1>2, RegionAssumption DEF TableInv, Below, Recorded, GapsHold
<1>4. Wires'
    BY SMT, <1>1 DEF Wires
<1>5. Kept'
    BY <1>1 DEF SessionInv, Kept
<1> QED
    BY <1>3, <1>4, <1>5 DEF SessionInv

\* A new worker and its hosts have the types, and the table its invariant.
LEMMA SessionStart == Init => SessionInv
<1> SUFFICES ASSUME Init PROVE SessionInv
    OBVIOUS
<1>1. TableInv
    BY New DEF Init
<1>2. Wires
    BY SMT DEF Init, Wires
<1>3. Kept
    BY SMT DEF Init, Kept, Steps, Reads
<1> QED
    BY <1>1, <1>2, <1>3 DEF SessionInv

\* Every step keeps the types and the invariant of the table.
LEMMA SessionStep == SessionInv /\ [Next]_vars => SessionInv'
<1> SUFFICES ASSUME SessionInv, [Next]_vars PROVE SessionInv'
    OBVIOUS
<1>1. ASSUME NEW h \in Hosts, Starts(h) \/ Continues(h) \/ Serve(h) PROVE SessionInv'
    BY <1>1, StartStep, ContinueStep, ServeStep
<1>2. ASSUME NEW h \in Hosts, dies(h) PROVE SessionInv'
    BY <1>2, Ends DEF dies
<1>3. ASSUME UNCHANGED vars PROVE SessionInv'
    <2>1. UNCHANGED <<table, requests, replies, doing, resident, staged, todo>>
        BY <1>3 DEF vars, worker, wires, host
    <2>2. Wires' /\ Kept'
        BY <2>1 DEF SessionInv, Wires, Kept
    <2> QED
        BY <2>1, <2>2, Same DEF SessionInv
<1> QED
    BY <1>1, <1>2, <1>3, RestartStep DEF Next, Finished

\* The types and the invariant of the table are true in every state.
LEMMA SessionHolds == Spec => []SessionInv
<1> QED
    BY SessionStart, SessionStep, PTL DEF Spec
-----------------------------------------------------------------------------
(* The table of any number of workers has its type: the sums of            *)
(* vx_remote_table_alloc at the end of an address space never wrap.        *)
THEOREM TableTypes == TableSpec => []TableTypeOK
<1> QED
    BY TableHolds, InvType, PTL

(* A table that serves any number of workers keeps the gap of each region. *)
THEOREM TableGaps == TableSpec => []GapsHold
<1>1. TableInv => GapsHold
    BY DEF TableInv
<1> QED
    BY <1>1, TableHolds, PTL

(* In the table of one worker each address finds the live region it lies   *)
(* in, and an address that lies in none finds nothing.                     *)
THEOREM TableResolves ==
  ASSUME NEW w, Workers = {w}
  PROVE  TableSpec => []ResolveIsExact
<1>1. TableInit => TableInv /\ Sorted
    BY New, SortedEmpty DEF TableInit
<1>2. TableInv /\ Sorted /\ [TableNext]_table => TableInv' /\ Sorted'
    <2> SUFFICES ASSUME TableInv, Sorted, [TableNext]_table PROVE TableInv' /\ Sorted'
        OBVIOUS
    <2>1. TableInv'
        BY TableStep
    <2>2. ASSUME NEW v \in Workers, NEW size \in Sizes, NEW remote \in Buffers,
                 vx_remote_table_alloc(v, size, remote)
          PROVE  Sorted'
        <3>1. v = w
            OBVIOUS
        <3> QED
            BY <2>2, <3>1, SortedAlloc
    <2>3. ASSUME NEW i \in DOMAIN regions, vx_remote_table_free(i)
          PROVE  Sorted'
        BY <2>3, SortedFree
    <2>4. ASSUME vx_remote_table_free_all \/ UNCHANGED table
          PROVE  Sorted'
        BY SMT, <2>4 DEF vx_remote_table_free_all, table, Sorted
    <2> QED
        BY <2>1, <2>2, <2>3, <2>4 DEF TableNext
<1> QED
    BY <1>1, <1>2, InvResolve, PTL DEF TableSpec

(* A worker, whatever its hosts ask for and wherever they or it die, gives *)
(* out regions that neither overlap nor lose their gap.                    *)
THEOREM SessionGaps == Spec => []GapsHold
<1>1. SessionInv => GapsHold
    BY DEF SessionInv, TableInv
<1> QED
    BY <1>1, SessionHolds, PTL

(* No slot of the worker's table accepts an address inside a region that   *)
(* was freed, or that an earlier host left.                                *)
THEOREM SessionStale == Spec => []StaleHandlesStayDead
<1>1. SessionInv => StaleHandlesStayDead
    BY InvStale DEF SessionInv
<1> QED
    BY <1>1, SessionHolds, PTL

-----------------------------------------------------------------------------
(* Who owns which region *)

(* A site is a live region as a host knows it.                             *)
Sites == {[handle |-> regions[i].base, buffer |-> regions[i].remote] :
            i \in {j \in DOMAIN regions : regions[j].live}}

Mine(h) == IF serving = h THEN Sites ELSE {}

(* The handle on its way to a host, and the one on its way to be freed.    *)
Coming(r) == IF r # <<>> /\ Head(r).ok /\ Head(r).type = "TRANSFER" THEN {Head(r).result} ELSE {}
Going(q) == IF q # <<>> /\ Head(q).type = "FREE" THEN Head(q).handles ELSE {}

(* What a host holds, or is about to, is exactly the live regions but for  *)
(* the one it gives back, and it holds none twice.                         *)
Ledger(res, stg, com, go, sites) ==
  /\ go \subseteq Handles(sites)
  /\ res \cup Range(stg) \cup com = {s \in sites : s.handle \notin go}
  /\ res \cap Range(stg) = {} /\ com \cap (res \cup Range(stg)) = {}
  /\ \A a, b \in DOMAIN stg : a # b => stg[a] # stg[b]

(* On an open connection one message is out for a host that is in a call,  *)
(* and none for another.                                                   *)
InTurn(l, c, q, r) ==
  /\ l = "open" /\ c \in Calls =>
       \/ Len(q) = 1 /\ Head(q).type = TypeOfCall(c) /\ r = <<>>
       \/ q = <<>> /\ Len(r) = 1 /\ Head(r).type = TypeOfCall(c)
  /\ l # "open" \/ c \notin Calls => r = <<>>
  /\ l \in {"none", "closed"} \/ (l = "open" /\ c \notin Calls) => q = <<>>

(* A dispatch stages no more than it was asked to, and outside of one      *)
(* nothing is staged.                                                      *)
Fits(c, stg, n) ==
  /\ n <= MaxStaged
  /\ c \in {"none", "alloc", "fetch", "free"} => stg = <<>>
  /\ c = "encode" => n + Len(stg) <= MaxStaged
  /\ c = "stage" => n + Len(stg) < MaxStaged
  /\ c = "dispatch" => Len(stg) <= MaxStaged

Good(l, c, q, r, res, stg, n, mine) ==
  /\ InTurn(l, c, q, r)
  /\ Fits(c, stg, n)
  /\ res \subseteq Handle /\ stg \in Seq(Handle)
  /\ l = "none" => res = {}
  /\ l = "open" => Ledger(res, stg, Coming(r), Going(q), mine)

Sound(h) == Good(link[h], doing[h], requests[h], replies[h],
                 resident[h], staged[h], todo[h], Mine(h))

(* The worker serves a host whose connection has not ended, and keeps      *)
(* nothing between two hosts.                                              *)
Service == /\ serving \in Hosts \cup {NoHost}
           /\ link \in [Hosts -> {"none", "open", "cut", "closed"}]
           /\ restarts \in 0 .. MaxRestarts
           /\ serving # NoHost => link[serving] \in {"open", "cut"}
           /\ serving = NoHost => regions = <<>>

(* The device holds the buffer of each site, and each of them once.        *)
Stocked == /\ device = {s.buffer : s \in Sites}
           /\ \A s, t \in Sites : s.buffer = t.buffer => s = t

OwnerInv == /\ SessionInv /\ Sorted /\ Service /\ Stocked
            /\ \A h \in Hosts : Sound(h)
-----------------------------------------------------------------------------
\* A sequence of length 0 is empty.
LEMMA NoneLeft ==
  ASSUME NEW T, NEW s \in Seq(T), Len(s) = 0
  PROVE  s = <<>>
<1> QED
    BY SMT

\* Tail takes one element from a sequence with no repeats.
LEMMA RangeTail ==
  ASSUME NEW T, NEW s \in Seq(T), s # <<>>, \A a, b \in DOMAIN s : a # b => s[a] # s[b]
  PROVE  /\ Range(Tail(s)) = Range(s) \ {Head(s)} /\ Head(s) \in Range(s)
         /\ \A a, b \in DOMAIN Tail(s) : a # b => Tail(s)[a] # Tail(s)[b]
<1>1. /\ Len(s) \in Nat /\ Len(s) >= 1 /\ DOMAIN s = 1 .. Len(s) /\ Head(s) = s[1]
      /\ DOMAIN Tail(s) = 1 .. Len(s) - 1
      /\ \A i \in 1 .. Len(s) - 1 : Tail(s)[i] = s[i + 1]
    BY SMT
<1>2. \A x : x \in Range(Tail(s)) => x \in Range(s) \ {Head(s)}
    BY SMT, <1>1 DEF Range
<1>3. \A x : x \in Range(s) \ {Head(s)} => x \in Range(Tail(s))
    <2> SUFFICES ASSUME NEW i \in DOMAIN s, s[i] # Head(s) PROVE s[i] \in Range(Tail(s))
        BY DEF Range
    <2>1. i # 1 /\ i \in 1 .. Len(s)
        BY <1>1
    <2>2. i - 1 \in 1 .. Len(s) - 1 /\ (i - 1) + 1 = i
        BY SMT, <1>1, <2>1
    <2>3. Tail(s)[i - 1] = s[i] /\ i - 1 \in DOMAIN Tail(s)
        BY <1>1, <2>2
    <2> QED
        BY <2>3 DEF Range
<1>4. \A a, b \in DOMAIN Tail(s) : a # b => Tail(s)[a] # Tail(s)[b]
    BY SMT, <1>1
<1>5. Head(s) \in Range(s)
    BY SMT, <1>1 DEF Range
<1> QED
    BY <1>2, <1>3, <1>4, <1>5

\* Append adds one element, and repeats none when the element is new.
LEMMA RangeAppend ==
  ASSUME NEW T, NEW s \in Seq(T), NEW x \in T
  PROVE  /\ Range(Append(s, x)) = Range(s) \cup {x}
         /\ x \notin Range(s) /\ (\A a, b \in DOMAIN s : a # b => s[a] # s[b])
              => \A a, b \in DOMAIN Append(s, x) : a # b => Append(s, x)[a] # Append(s, x)[b]
<1> DEFINE t == Append(s, x)
           n == Len(s)
<1>1. /\ n \in Nat /\ DOMAIN s = 1 .. n /\ DOMAIN t = 1 .. n + 1
      /\ t[n + 1] = x /\ \A i \in 1 .. n : t[i] = s[i]
    BY SMT
<1> HIDE DEF t, n
<1>2. \A i \in 1 .. n + 1 : i \in 1 .. n \/ i = n + 1
    BY SMT, <1>1
<1>3. Range(t) = Range(s) \cup {x}
    <2>1. \A i \in 1 .. n : i \in 1 .. n + 1
        BY SMT, <1>1
    <2>2. n + 1 \in 1 .. n + 1
        BY SMT, <1>1
    <2> QED
        BY <1>1, <1>2, <2>1, <2>2 DEF Range
<1>4. ASSUME x \notin Range(s), \A a, b \in DOMAIN s : a # b => s[a] # s[b],
             NEW a \in DOMAIN t, NEW b \in DOMAIN t, a # b
      PROVE  t[a] # t[b]
    BY <1>1, <1>2, <1>4 DEF Range
<1> QED
    BY <1>3, <1>4 DEF t

Unique(sites) == \A s, t \in sites : s.handle = t.handle => s = t

\* A host that the worker has no region for holds nothing.
LEMMA LedgerNone ==
  ASSUME NEW res, NEW stg, NEW com, NEW go, Ledger(res, stg, com, go, {})
  PROVE  res = {} /\ Range(stg) = {} /\ com = {} /\ go = {}
<1> QED
    BY DEF Ledger, Handles

\* A free of a placed buffer takes its handle from the host.
LEMMA LedgerGive ==
  ASSUME NEW sites, Unique(sites), NEW res, NEW stg, NEW x \in res,
         Ledger(res, stg, {}, {}, sites)
  PROVE  Ledger(res \ {x}, stg, {}, {x.handle}, sites)
<1>1. res \cup Range(stg) = sites /\ res \cap Range(stg) = {}
    BY DEF Ledger
<1>2. {s \in sites : s.handle \notin {x.handle}} = sites \ {x}
    BY <1>1 DEF Unique
<1>3. {x.handle} \subseteq Handles(sites)
    BY <1>1 DEF Handles
<1> QED
    BY <1>1, <1>2, <1>3 DEF Ledger

\* A free of a staged operand takes its handle from the host.
LEMMA LedgerGiveHead ==
  ASSUME NEW sites, Unique(sites), NEW res, NEW T, NEW stg \in Seq(T), stg # <<>>,
         Ledger(res, stg, {}, {}, sites)
  PROVE  Ledger(res, Tail(stg), {}, {Head(stg).handle}, sites)
<1> DEFINE x == Head(stg)
<1>1. /\ res \cup Range(stg) = sites /\ res \cap Range(stg) = {}
      /\ \A a, b \in DOMAIN stg : a # b => stg[a] # stg[b]
    BY DEF Ledger
<1>2. /\ Range(Tail(stg)) = Range(stg) \ {x} /\ x \in Range(stg)
      /\ \A a, b \in DOMAIN Tail(stg) : a # b => Tail(stg)[a] # Tail(stg)[b]
    BY <1>1, RangeTail
<1> HIDE DEF x
<1>3. {s \in sites : s.handle \notin {x.handle}} = sites \ {x}
    BY <1>1, <1>2 DEF Unique
<1>4. {x.handle} \subseteq Handles(sites)
    BY <1>1, <1>2 DEF Handles
<1>5. Ledger(res, Tail(stg), {}, {x.handle}, sites)
    BY <1>1, <1>2, <1>3, <1>4 DEF Ledger
<1> QED
    BY <1>5 DEF x

\* A transfer that worked puts a new handle on its way to the host.
LEMMA LedgerCome ==
  ASSUME NEW sites, NEW res, NEW stg, NEW x, x \notin sites,
         Ledger(res, stg, {}, {}, sites)
  PROVE  Ledger(res, stg, {x}, {}, sites \cup {x})
<1> QED
    BY DEF Ledger

\* The host that placed a buffer keeps the handle that came.
LEMMA LedgerKeep ==
  ASSUME NEW sites, NEW res, NEW stg, NEW x, Ledger(res, stg, {x}, {}, sites)
  PROVE  Ledger(res \cup {x}, stg, {}, {}, sites)
<1> QED
    BY DEF Ledger

\* The host that stages an operand keeps the handle that came.
LEMMA LedgerStage ==
  ASSUME NEW sites, NEW res, NEW T, NEW stg \in Seq(T), NEW x \in T,
         Ledger(res, stg, {x}, {}, sites)
  PROVE  Ledger(res, Append(stg, x), {}, {}, sites)
<1>1. /\ res \cup Range(stg) \cup {x} = sites /\ res \cap Range(stg) = {}
      /\ x \notin res /\ x \notin Range(stg)
      /\ \A a, b \in DOMAIN stg : a # b => stg[a] # stg[b]
    BY DEF Ledger
<1>2. /\ Range(Append(stg, x)) = Range(stg) \cup {x}
      /\ \A a, b \in DOMAIN Append(stg, x) : a # b => Append(stg, x)[a] # Append(stg, x)[b]
    BY <1>1, RangeAppend
<1> QED
    BY <1>1, <1>2 DEF Ledger
-----------------------------------------------------------------------------
(* What a step of the table does to the sites.                             *)
LEMMA SitesAre ==
  ASSUME TableInv, Sorted
  PROVE  /\ Unique(Sites) /\ Sites \subseteq Handle
         /\ \A s \in Sites : \E i \in DOMAIN regions :
              /\ regions[i].live /\ regions[i].base = s.handle /\ regions[i].remote = s.buffer
              /\ vx_remote_resolve(s.handle) = i
<1>1. regions \in Seq(Region)
    BY DEF TableInv, Types
<1>2. ASSUME NEW i \in DOMAIN regions
      PROVE  /\ regions[i].base \in Nat /\ regions[i].size \in Nat /\ 0 < regions[i].size
             /\ regions[i].remote \in Buffers
    <2>1. regions[i] \in Region
        BY SMT, <1>1
    <2>2. regions[i].size \in Sizes /\ regions[i].size # 0
        BY <2>1 DEF Region
    <2>3. regions[i].base \in Nat /\ regions[i].remote \in Buffers
        BY <2>1 DEF Region
    <2>4. regions[i].size \in Nat
        BY <2>2, RegionAssumption
    <2> QED
        BY SMT, <2>2, <2>3, <2>4
<1>3. ASSUME NEW i \in DOMAIN regions, NEW j \in DOMAIN regions, regions[i].base = regions[j].base
      PROVE  i = j
    <2>1. i \in Nat /\ j \in Nat
        BY SMT, <1>1
    <2>2. /\ i < j => regions[i].base + regions[i].size <= regions[j].base
          /\ j < i => regions[j].base + regions[j].size <= regions[i].base
        BY DEF Sorted
    <2>3. /\ regions[i].base \in Nat /\ regions[i].size \in Nat /\ 0 < regions[i].size
          /\ regions[j].base \in Nat /\ regions[j].size \in Nat /\ 0 < regions[j].size
        BY <1>2
    <2> QED
        BY SMT, <1>3, <2>1, <2>2, <2>3
<1>4. ASSUME NEW i \in DOMAIN regions, regions[i].live
      PROVE  vx_remote_resolve(regions[i].base) = i
    <2>1. /\ regions[i].base \in Nat /\ regions[i].base <= regions[i].base
          /\ regions[i].base < regions[i].base + regions[i].size
        BY SMT, <1>2
    <2> QED
        BY <1>4, <2>1, ResolveMeets
<1>5. ASSUME NEW s \in Sites
      PROVE  \E i \in DOMAIN regions :
              regions[i].live /\ regions[i].base = s.handle /\ regions[i].remote = s.buffer
              /\ s = [handle |-> regions[i].base, buffer |-> regions[i].remote]
    BY SMT DEF Sites
<1>6. Unique(Sites)
    BY SMT, <1>3, <1>5 DEF Unique
<1>7. Sites \subseteq Handle
    BY SMT, <1>2, <1>5 DEF Handle
<1>8. \A s \in Sites : \E i \in DOMAIN regions :
              /\ regions[i].live /\ regions[i].base = s.handle /\ regions[i].remote = s.buffer
              /\ vx_remote_resolve(s.handle) = i
    BY <1>4, <1>5
<1> QED
    BY <1>6, <1>7, <1>8

\* An allocation adds one live region, after all others.
LEMMA SitesAlloc ==
  ASSUME TableInv, Sorted, NEW size \in Sizes, NEW b \in Buffers, vx_remote_table_alloc(Me, size, b)
  PROVE  LET x == [handle |-> vx_remote_addr(Me, next_offset[Me]), buffer |-> b]
         IN  Sites' = Sites \cup {x} /\ x \notin Sites /\ Sorted'
<1> DEFINE base == vx_remote_addr(Me, next_offset[Me])
           x == [handle |-> base, buffer |-> b]
           k == Len(regions) + 1
           region == [worker |-> Me, base |-> base, size |-> size,
                      remote |-> b, live |-> TRUE, mint |-> Len(minted) + 1]
<1>1. regions' = Append(regions, region) /\ regions \in Seq(Region)
    BY DEF vx_remote_table_alloc, TableInv, Types
<1>2. Sorted' /\ \A i \in DOMAIN regions : regions[i].base + regions[i].size <= base
    BY SessionAssumption, SortedAlloc
<1>3. region.base = base /\ region.remote = b /\ region.live
    OBVIOUS
<1> HIDE DEF region
<1>4. /\ DOMAIN regions' = DOMAIN regions \cup {k} /\ k \notin DOMAIN regions
      /\ regions'[k] = region /\ \A i \in DOMAIN regions : regions'[i] = regions[i]
    BY SMT, <1>1
<1>5. Sites' = Sites \cup {x}
    BY SMT, <1>3, <1>4 DEF Sites
<1>6. x \notin Sites
    <2> SUFFICES ASSUME x \in Sites PROVE FALSE
        OBVIOUS
    <2>1. PICK i \in DOMAIN regions : regions[i].base = base
        BY DEF Sites
    <2>2. regions[i] \in Region
        BY SMT, <1>1
    <2>3. regions[i].base \in Nat /\ regions[i].size \in Sizes /\ regions[i].size # 0
        BY <2>2 DEF Region
    <2>4. regions[i].size \in Nat
        BY <2>3, RegionAssumption
    <2>5. regions[i].base + regions[i].size <= base
        BY <1>2
    <2> HIDE DEF base
    <2> QED
        BY SMT, <2>1, <2>3, <2>4, <2>5
<1> QED
    BY <1>2, <1>5, <1>6

\* A free takes one live region away.
LEMMA SitesFree ==
  ASSUME TableInv, Sorted, NEW i \in DOMAIN regions, vx_remote_table_free(i)
  PROVE  /\ Sites' = {s \in Sites : s.handle # regions[i].base} /\ Sorted'
         /\ [handle |-> regions[i].base, buffer |-> regions[i].remote] \in Sites
<1>1. regions[i].live
    BY DEF vx_remote_table_free
<1>2. /\ DOMAIN regions' = DOMAIN regions /\ ~regions'[i].live
      /\ \A j \in DOMAIN regions : /\ regions'[j].base = regions[j].base
                                   /\ regions'[j].remote = regions[j].remote
                                   /\ j # i => regions'[j].live = regions[j].live
    BY FreeIs
<1>3. ASSUME NEW j \in DOMAIN regions, regions[j].live, j # i
      PROVE  regions[j].base # regions[i].base
    <2>1. vx_remote_resolve(regions[j].base) = j /\ vx_remote_resolve(regions[i].base) = i
        <3>1. regions \in Seq(Region)
            BY DEF TableInv, Types
        <3>2. /\ regions[i].base \in Nat /\ regions[j].base \in Nat
              /\ regions[i].size \in Nat /\ 0 < regions[i].size
              /\ regions[j].size \in Nat /\ 0 < regions[j].size
            <4>1. regions[i] \in Region /\ regions[j] \in Region
                BY SMT, <3>1
            <4>2. \A r \in Region : r.base \in Nat /\ r.size \in Sizes /\ r.size # 0
                BY DEF Region
            <4>3. \A z \in Sizes : z # 0 => z \in Nat /\ 0 < z
                BY SMT, RegionAssumption
            <4> QED
                BY <4>1, <4>2, <4>3
        <3>3. /\ regions[i].base <= regions[i].base /\ regions[i].base < regions[i].base + regions[i].size
              /\ regions[j].base <= regions[j].base /\ regions[j].base < regions[j].base + regions[j].size
            BY SMT, <3>2
        <3> QED
            BY <1>1, <1>3, <3>2, <3>3, ResolveMeets
    <2> QED
        BY <1>3, <2>1
<1>4. Sites' = {s \in Sites : s.handle # regions[i].base}
    BY SMT, <1>1, <1>2, <1>3 DEF Sites
<1>5. Sorted'
    BY SortedFree
<1>6. [handle |-> regions[i].base, buffer |-> regions[i].remote] \in Sites
    BY <1>1 DEF Sites
<1> QED
    BY <1>4, <1>5, <1>6

\* What a hang-up releases is the buffers of the live regions.
LEMMA LeftAre == Left = {s.buffer : s \in Sites}
<1> DEFINE live == {j \in DOMAIN regions : regions[j].live}
           site(i) == [handle |-> regions[i].base, buffer |-> regions[i].remote]
<1>1. \A i : site(i).buffer = regions[i].remote
    OBVIOUS
<1>2. Sites = {site(i) : i \in live} /\ Left = {regions[i].remote : i \in live}
    BY DEF Sites, Left
<1> HIDE DEF site, live
<1> QED
    BY SMT, <1>1, <1>2

\* An empty table has no live region.
LEMMA SitesEmpty == regions = <<>> => Sites = {}
<1> QED
    BY SMT DEF Sites
-----------------------------------------------------------------------------
(* A step of one host, or of the worker for it, leaves the others alone.   *)
Elsewhere(h) == \A g \in Hosts \ {h} :
  /\ link'[g] = link[g] /\ requests'[g] = requests[g] /\ replies'[g] = replies[g]
  /\ doing'[g] = doing[g] /\ resident'[g] = resident[g]
  /\ staged'[g] = staged[g] /\ todo'[g] = todo[g]

\* The types of what the hosts and their connections hold.
LEMMA FunctionTypes ==
  ASSUME OwnerInv
  PROVE  /\ link \in [Hosts -> {"none", "open", "cut", "closed"}]
         /\ requests \in [Hosts -> Seq(Message)] /\ replies \in [Hosts -> Seq(Reply)]
         /\ doing \in [Hosts -> Steps] /\ resident \in [Hosts -> SUBSET Result]
         /\ staged \in [Hosts -> Seq(Result)] /\ todo \in [Hosts -> Nat]
<1> QED
    BY DEF OwnerInv, SessionInv, Wires, Kept, Service

\* A step of a host leaves the other hosts and the worker alone.
LEMMA HostsFrame ==
  ASSUME OwnerInv, NEW h \in Hosts, Starts(h) \/ Continues(h) \/ dies(h)
  PROVE  /\ Elsewhere(h) /\ UNCHANGED worker
         /\ link' \in [Hosts -> {"none", "open", "cut", "closed"}]
         /\ link[h] \in {"open", "cut"} => link'[h] \in {"open", "cut"}
<1>1. /\ link \in [Hosts -> {"none", "open", "cut", "closed"}]
      /\ requests \in [Hosts -> Seq(Message)] /\ replies \in [Hosts -> Seq(Reply)]
      /\ doing \in [Hosts -> Steps] /\ resident \in [Hosts -> SUBSET Result]
      /\ staged \in [Hosts -> Seq(Result)] /\ todo \in [Hosts -> Nat]
    BY FunctionTypes
<1> DEFINE P == /\ Elsewhere(h) /\ UNCHANGED worker
                /\ link' \in [Hosts -> {"none", "open", "cut", "closed"}]
                /\ link[h] \in {"open", "cut"} => link'[h] \in {"open", "cut"}
<1>2. ASSUME NEW how, End(h, how), link[h] # "cut" PROVE P
    BY <1>1, <1>2 DEF End, Elsewhere
<1>3. ASSUME NEW call, NEW msg, Ask(h, call, msg), NEW r, NEW s, NEW n,
             resident' = [resident EXCEPT ![h] = r], staged' = [staged EXCEPT ![h] = s],
             todo' = [todo EXCEPT ![h] = n]
      PROVE  P
    BY <1>1, <1>3 DEF Ask, Elsewhere
<1>4. /\ resident = [resident EXCEPT ![h] = resident[h]] /\ staged = [staged EXCEPT ![h] = staged[h]]
      /\ todo = [todo EXCEPT ![h] = todo[h]]
    BY <1>1
<1>5. CASE vx_remote_connect(h)
    BY <1>1, <1>5 DEF vx_remote_connect, host, Elsewhere
<1>6. CASE try_alloc(h)
    BY <1>3, <1>4, <1>6 DEF try_alloc
<1>7. CASE try_fetch(h)
    BY <1>3, <1>4, <1>7 DEF try_fetch
<1>8. CASE try_free(h)
    <2>1. PICK x \in resident[h] :
            /\ \/ Ask(h, "free", Request("FREE", {x.handle}))
               \/ UNCHANGED <<worker, wires, doing>>
            /\ resident' = [resident EXCEPT ![h] = @ \ {x}]
        BY <1>8 DEF try_free
    <2>2. UNCHANGED <<staged, todo>>
        BY <1>8 DEF try_free
    <2>3. CASE Ask(h, "free", Request("FREE", {x.handle}))
        BY <1>3, <1>4, <2>1, <2>2, <2>3
    <2>4. CASE UNCHANGED <<worker, wires, doing>>
        BY <1>1, <2>1, <2>2, <2>4 DEF wires, Elsewhere
    <2> QED
        BY <2>1, <2>3, <2>4
<1>9. CASE try_dispatch(h)
    <2>1. PICK n : todo' = [todo EXCEPT ![h] = n]
        BY <1>9 DEF try_dispatch
    <2> QED
        BY <1>1, <1>9, <2>1 DEF try_dispatch, wires, Elsewhere
<1>10. CASE cannot_cross(h)
    BY <1>2, <1>10 DEF cannot_cross, Ready
<1>11. CASE encode_args(h)
    <2>1. UNCHANGED <<resident, staged>>
        BY <1>11 DEF encode_args
    <2>2. PICK n, call, msg : todo' = [todo EXCEPT ![h] = n] /\ Ask(h, call, msg)
        BY <1>4, <1>11 DEF encode_args
    <2> QED
        BY <1>3, <1>4, <2>1, <2>2
<1>12. CASE fetch_staged(h)
    BY <1>3, <1>4, <1>12 DEF fetch_staged
<1>13. CASE free_staged(h)
    <2>1. CASE staged[h] # <<>>
        BY <1>3, <1>4, <1>13, <2>1 DEF free_staged
    <2>2. CASE staged[h] = <<>>
        BY <1>1, <1>13, <2>2 DEF free_staged, wires, Elsewhere
    <2> QED
        BY <2>1, <2>2
<1>14. CASE reply_ok(h)
    <2>1. PICK n : todo' = [todo EXCEPT ![h] = n]
        BY <1>4, <1>14 DEF reply_ok
    <2> QED
        BY <1>1, <1>14, <2>1 DEF reply_ok, Receive, Elsewhere
<1>15. CASE reply_refused(h)
    BY <1>2, <1>15 DEF reply_refused
<1>16. CASE wire_failed(h)
    <2>1. CASE End(h, "aborted")
        BY <1>2, <1>16, <2>1 DEF wire_failed
    <2>2. CASE /\ doing' = [doing EXCEPT ![h] = "none"]
               /\ staged' = [staged EXCEPT ![h] = <<>>]
               /\ UNCHANGED <<worker, wires, resident, todo>>
        BY <1>1, <2>2 DEF wires, Elsewhere
    <2> QED
        BY <1>16, <2>1, <2>2 DEF wire_failed
<1>17. CASE dies(h)
    BY <1>2, <1>17 DEF dies
<1> QED
    BY <1>5, <1>6, <1>7, <1>8, <1>9, <1>10, <1>11, <1>12, <1>13, <1>14, <1>15, <1>16, <1>17
       DEF Starts, Continues

\* A step that is about one host keeps the others as they were.
LEMMA OthersKeep ==
  ASSUME OwnerInv, NEW h \in Hosts, Elsewhere(h), \A g \in Hosts \ {h} : Mine(g)' = Mine(g), Sound(h)'
  PROVE  \A g \in Hosts : Sound(g)'
<1> SUFFICES ASSUME NEW g \in Hosts \ {h} PROVE Sound(g)'
    OBVIOUS
<1>1. Sound(g)
    BY DEF OwnerInv
<1>2. /\ link'[g] = link[g] /\ requests'[g] = requests[g] /\ replies'[g] = replies[g]
      /\ doing'[g] = doing[g] /\ resident'[g] = resident[g]
      /\ staged'[g] = staged[g] /\ todo'[g] = todo[g] /\ Mine(g)' = Mine(g)
    BY DEF Elsewhere
<1>3. Sound(g)' <=> Good(link'[g], doing'[g], requests'[g], replies'[g],
                         resident'[g], staged'[g], todo'[g], Mine(g)')
    BY DEF Sound
<1> QED
    BY <1>1, <1>2, <1>3 DEF Sound

\* A step of a host keeps the invariant when it keeps what is true of the host.
LEMMA HostsDo ==
  ASSUME OwnerInv, NEW h \in Hosts, Starts(h) \/ Continues(h) \/ dies(h), Sound(h)'
  PROVE  OwnerInv'
<1>1. /\ Elsewhere(h) /\ UNCHANGED worker
      /\ link' \in [Hosts -> {"none", "open", "cut", "closed"}]
      /\ link[h] \in {"open", "cut"} => link'[h] \in {"open", "cut"}
    BY HostsFrame
<1>2. SessionInv'
    BY StartStep, ContinueStep, Ends DEF OwnerInv, dies
<1>3. UNCHANGED <<regions, device, serving, restarts>>
    BY <1>1 DEF worker, table
<1>4. Sorted' /\ Sites' = Sites
    BY <1>3 DEF Sorted, OwnerInv, Sites
<1>5. Stocked'
    BY <1>3, <1>4 DEF OwnerInv, Stocked
<1>6. Service'
    <2>1. ASSUME serving # NoHost PROVE link'[serving] \in {"open", "cut"}
        <3>1. serving \in Hosts /\ link[serving] \in {"open", "cut"}
            BY <2>1 DEF OwnerInv, Service
        <3>2. serving # h => link'[serving] = link[serving]
            BY <1>1, <3>1 DEF Elsewhere
        <3> QED
            BY <1>1, <3>1, <3>2
    <2> QED
        BY <1>1, <1>3, <2>1 DEF OwnerInv, Service
<1>7. \A g \in Hosts : Mine(g)' = Mine(g)
    BY <1>3, <1>4 DEF Mine
<1>8. \A g \in Hosts : Sound(g)'
    BY <1>1, <1>7, OthersKeep
<1> QED
    BY <1>2, <1>4, <1>5, <1>6, <1>8 DEF OwnerInv
-----------------------------------------------------------------------------
(* The next state of a host, from the facts about its parts.               *)
LEMMA SoundNext ==
  ASSUME NEW h \in Hosts,
         InTurn(link'[h], doing'[h], requests'[h], replies'[h]),
         Fits(doing'[h], staged'[h], todo'[h]),
         resident'[h] \subseteq Handle, staged'[h] \in Seq(Handle),
         link'[h] = "none" => resident'[h] = {},
         link'[h] = "open" => Ledger(resident'[h], staged'[h], Coming(replies'[h]),
                                     Going(requests'[h]), Mine(h)')
  PROVE  Sound(h)'
<1> QED
    BY DEF Sound, Good

\* What the invariant says of one host.
LEMMA SoundNow ==
  ASSUME OwnerInv, NEW h \in Hosts
  PROVE  /\ InTurn(link[h], doing[h], requests[h], replies[h])
         /\ Fits(doing[h], staged[h], todo[h])
         /\ resident[h] \subseteq Handle /\ staged[h] \in Seq(Handle) /\ todo[h] \in Nat
         /\ requests[h] \in Seq(Message) /\ replies[h] \in Seq(Reply)
         /\ link[h] = "none" => resident[h] = {}
         /\ link[h] = "open" => Ledger(resident[h], staged[h], Coming(replies[h]),
                                       Going(requests[h]), Mine(h))
<1>1. Good(link[h], doing[h], requests[h], replies[h], resident[h], staged[h], todo[h], Mine(h))
    BY DEF OwnerInv, Sound
<1>2. requests[h] \in Seq(Message) /\ replies[h] \in Seq(Reply) /\ todo[h] \in Nat
    BY FunctionTypes
<1> QED
    BY <1>1, <1>2 DEF Good

(* A host that ends owns nothing any more.                                 *)
LEMMA EndSound ==
  ASSUME OwnerInv, NEW h \in Hosts, NEW how \in {"ended", "aborted"}, End(h, how), link[h] # "cut"
  PROVE  Sound(h)'
<1>1. /\ link'[h] = (IF link[h] = "open" THEN "cut" ELSE "closed") /\ doing'[h] = how
      /\ replies'[h] = <<>> /\ requests'[h] = requests[h]
      /\ resident'[h] = {} /\ staged'[h] = <<>> /\ todo'[h] = 0
    BY FunctionTypes DEF End
<1>2. InTurn(link[h], doing[h], requests[h], replies[h])
    BY SoundNow
<1>3. link[h] \in {"none", "open", "closed"}
    BY FunctionTypes
<1>4. InTurn(link'[h], doing'[h], requests'[h], replies'[h])
    BY <1>1, <1>2, <1>3 DEF InTurn, Calls
<1>5. Fits(doing'[h], staged'[h], todo'[h])
    BY SMT, <1>1, SessionAssumption DEF Fits
<1>6. /\ resident'[h] \subseteq Handle /\ staged'[h] \in Seq(Handle)
      /\ link'[h] # "open" /\ link'[h] # "none"
    BY SMT, <1>1
<1> QED
    BY <1>4, <1>5, <1>6, SoundNext

(* A request goes out: nothing else was on its way.                        *)
LEMMA AskSound ==
  ASSUME OwnerInv, NEW h \in Hosts, doing[h] \notin Calls, NEW call \in Calls,
         NEW msg \in Message, msg.type = TypeOfCall(call), Ask(h, call, msg)
  PROVE  /\ InTurn(link'[h], doing'[h], requests'[h], replies'[h]) /\ link'[h] = "open"
         /\ doing'[h] = call /\ Mine(h)' = Mine(h)
         /\ Ledger(resident[h], staged[h], {}, {}, Mine(h))
         /\ Coming(replies'[h]) = {}
         /\ Going(requests'[h]) = IF msg.type = "FREE" THEN msg.handles ELSE {}
<1>1. /\ InTurn(link[h], doing[h], requests[h], replies[h])
      /\ link[h] = "open" => Ledger(resident[h], staged[h], Coming(replies[h]),
                                    Going(requests[h]), Mine(h))
    BY SoundNow
<1>2. link[h] = "open"
    BY DEF Ask
<1>3. requests[h] = <<>> /\ replies[h] = <<>>
    BY <1>1, <1>2 DEF InTurn
<1>4. /\ doing'[h] = call /\ requests'[h] = Append(<<>>, msg) /\ replies'[h] = <<>>
      /\ link'[h] = "open" /\ UNCHANGED worker
    BY <1>2, <1>3, FunctionTypes DEF Ask
<1>5. requests'[h] = <<msg>> /\ Len(<<msg>>) = 1 /\ Head(<<msg>>) = msg /\ <<msg>> # <<>>
    BY SMTT(30), <1>4
<1>6. InTurn(link'[h], doing'[h], requests'[h], replies'[h])
    BY <1>4, <1>5 DEF InTurn
<1>7. Mine(h)' = Mine(h)
    BY <1>4 DEF worker, table, Mine, Sites
<1>8. Coming(<<>>) = {} /\ Going(<<>>) = {}
    BY DEF Coming, Going
<1>9. Going(<<msg>>) = IF msg.type = "FREE" THEN msg.handles ELSE {}
    BY <1>5 DEF Going
<1> QED
    BY <1>1, <1>2, <1>3, <1>4, <1>5, <1>6, <1>7, <1>8, <1>9

(* One that is no FREE leaves the ledger as it is.                         *)
LEMMA AskKeeps ==
  ASSUME OwnerInv, NEW h \in Hosts, doing[h] \notin Calls, NEW call \in Calls,
         NEW msg \in Message, msg.type = TypeOfCall(call), msg.type # "FREE", Ask(h, call, msg),
         UNCHANGED <<resident, staged>>, Fits(call, staged[h], todo'[h])
  PROVE  Sound(h)'
<1>1. /\ InTurn(link'[h], doing'[h], requests'[h], replies'[h]) /\ link'[h] = "open"
      /\ doing'[h] = call /\ Mine(h)' = Mine(h)
      /\ Ledger(resident[h], staged[h], {}, {}, Mine(h))
      /\ Coming(replies'[h]) = {} /\ Going(requests'[h]) = {}
    BY AskSound
<1>2. resident[h] \subseteq Handle /\ staged[h] \in Seq(Handle)
    BY SoundNow
<1> QED
    BY <1>1, <1>2, SoundNext

\* The first step of a call keeps what is true of its host.
LEMMA StartsSound ==
  ASSUME OwnerInv, NEW h \in Hosts, Starts(h)
  PROVE  Sound(h)'
<1>0. /\ \A size \in Sizes : Transfer(size) \in Message /\ Transfer(size).type = "TRANSFER"
      /\ TypeOfCall("alloc") = "TRANSFER" /\ TypeOfCall("fetch") = "FETCH" /\ TypeOfCall("free") = "FREE"
      /\ {"alloc", "fetch", "free"} \subseteq Calls /\ "none" \notin Calls /\ "encode" \notin Calls
    BY DEF Transfer, Message, TypeOfCall, Calls
<1>1. /\ Fits(doing[h], staged[h], todo[h]) /\ todo[h] \in Nat
      /\ resident[h] \subseteq Handle /\ staged[h] \in Seq(Handle)
      /\ InTurn(link[h], doing[h], requests[h], replies[h])
      /\ link[h] = "open" => Ledger(resident[h], staged[h], Coming(replies[h]),
                                    Going(requests[h]), Mine(h))
    BY SoundNow
<1>2. doing[h] = "none" => /\ Fits("alloc", staged[h], todo[h]) /\ Fits("fetch", staged[h], todo[h])
                           /\ Fits("free", staged[h], todo[h]) /\ staged[h] = <<>>
    BY <1>1 DEF Fits
<1>3. CASE vx_remote_connect(h)
    <2>1. /\ link[h] = "none" /\ doing[h] = "none" /\ link'[h] = "open" /\ UNCHANGED worker
          /\ UNCHANGED <<requests, replies, doing, resident, staged, todo>>
        BY <1>3, FunctionTypes DEF vx_remote_connect, host
    <2>2. requests[h] = <<>> /\ replies[h] = <<>> /\ staged[h] = <<>>
        BY <1>1, <1>2, <2>1 DEF InTurn
    <2>3. InTurn(link'[h], doing'[h], requests'[h], replies'[h])
        BY <1>0, <2>1, <2>2 DEF InTurn
    <2>4. resident[h] = {} /\ Mine(h)' = {}
        <3>1. serving # h
            BY <2>1, SessionAssumption DEF OwnerInv, Service
        <3>2. resident[h] = {}
            BY <2>1, SoundNow
        <3> QED
            BY <2>1, <3>1, <3>2 DEF worker, Mine
    <2>5. Ledger({}, <<>>, Coming(<<>>), Going(<<>>), {})
        BY SMT DEF Ledger, Coming, Going, Range
    <2> QED
        BY <1>1, <2>1, <2>2, <2>3, <2>4, <2>5, SoundNext
<1>4. CASE try_alloc(h)
    <2>1. PICK size \in Sizes : Ask(h, "alloc", Transfer(size))
        BY <1>4 DEF try_alloc
    <2>2. doing[h] = "none" /\ UNCHANGED <<resident, staged, todo>>
        BY <1>4 DEF try_alloc, Ready
    <2> QED
        BY <1>0, <1>2, <2>1, <2>2, AskKeeps
<1>5. CASE try_fetch(h)
    <2>1. PICK x \in resident[h] : Ask(h, "fetch", Request("FETCH", {x.handle}))
        BY <1>5 DEF try_fetch
    <2>2. doing[h] = "none" /\ UNCHANGED <<resident, staged, todo>>
        BY <1>5 DEF try_fetch, Ready
    <2>3. Request("FETCH", {x.handle}) \in Message /\ Request("FETCH", {x.handle}).type = "FETCH"
        BY Placed DEF OwnerInv, Request
    <2> QED
        BY <1>0, <1>2, <2>1, <2>2, <2>3, AskKeeps
<1>6. CASE try_free(h)
    <2>1. PICK x \in resident[h] :
            /\ \/ Ask(h, "free", Request("FREE", {x.handle}))
               \/ link[h] = "closed" /\ UNCHANGED <<worker, wires, doing>>
            /\ resident' = [resident EXCEPT ![h] = @ \ {x}]
        BY <1>6 DEF try_free
    <2>2. doing[h] = "none" /\ UNCHANGED <<staged, todo>> /\ resident'[h] = resident[h] \ {x}
        BY <1>6, <2>1, FunctionTypes DEF try_free
    <2>3. CASE Ask(h, "free", Request("FREE", {x.handle}))
        <3> DEFINE msg == Request("FREE", {x.handle})
        <3>1. msg \in Message /\ msg.type = "FREE" /\ msg.handles = {x.handle}
            BY Placed DEF OwnerInv, Request
        <3> HIDE DEF msg
        <3>2. Ask(h, "free", msg)
            BY <2>3 DEF msg
        <3>3. /\ InTurn(link'[h], doing'[h], requests'[h], replies'[h]) /\ link'[h] = "open"
              /\ doing'[h] = "free" /\ Mine(h)' = Mine(h)
              /\ Ledger(resident[h], staged[h], {}, {}, Mine(h))
              /\ Coming(replies'[h]) = {} /\ Going(requests'[h]) = {x.handle}
            <4>1. doing[h] \notin Calls /\ "free" \in Calls /\ msg.type = TypeOfCall("free")
                BY <1>0, <2>2, <3>1
            <4> QED
                BY <3>1, <3>2, <4>1, AskSound
        <3>4. Unique(Mine(h))
            BY SitesAre DEF OwnerInv, SessionInv, Mine, Unique
        <3>5. Ledger(resident[h] \ {x}, staged[h], {}, {x.handle}, Mine(h))
            BY <3>3, <3>4, LedgerGive
        <3>6. resident'[h] \subseteq Handle
            BY <1>1, <2>2
        <3> QED
            BY <1>1, <1>2, <2>2, <3>3, <3>5, <3>6, SoundNext
    <2>4. CASE link[h] = "closed" /\ UNCHANGED <<worker, wires, doing>>
        <3>1. link'[h] = "closed" /\ UNCHANGED <<requests, replies, link, doing>>
            BY <2>4 DEF wires
        <3>2. resident'[h] \subseteq Handle
            BY <1>1, <2>2
        <3> QED
            BY <1>1, <2>2, <3>1, <3>2, SoundNext
    <2> QED
        BY <2>1, <2>3, <2>4
<1>7. CASE try_dispatch(h)
    <2>1. PICK n \in 0 .. MaxStaged : todo' = [todo EXCEPT ![h] = n]
        BY <1>7 DEF try_dispatch
    <2>2. /\ link[h] = "open" /\ doing[h] = "none" /\ doing'[h] = "encode" /\ todo'[h] = n
          /\ UNCHANGED <<worker, link, requests, replies, resident, staged>>
        BY <1>7, <2>1, FunctionTypes DEF try_dispatch, Ready, wires
    <2>3. staged[h] = <<>> /\ Len(<<>>) = 0 /\ n \in Nat /\ n <= MaxStaged
        BY SMT, <1>2, <2>2, SessionAssumption
    <2>4. Fits("encode", <<>>, n)
        BY SMT, <2>3 DEF Fits
    <2>5. InTurn(link'[h], doing'[h], requests'[h], replies'[h])
        BY <1>0, <1>1, <2>2 DEF InTurn
    <2>6. Mine(h)' = Mine(h)
        BY <2>2 DEF worker, table, Mine, Sites
    <2> QED
        BY <1>1, <2>2, <2>3, <2>4, <2>5, <2>6, SoundNext
<1>8. CASE cannot_cross(h)
    BY <1>8, EndSound DEF cannot_cross, Ready
<1> QED
    BY <1>3, <1>4, <1>5, <1>6, <1>7, <1>8 DEF Starts

\* A later step of a call keeps what is true of its host.
LEMMA ContinuesSound ==
  ASSUME OwnerInv, NEW h \in Hosts, Continues(h)
  PROVE  Sound(h)'
<1>0. /\ \A size \in Sizes : Transfer(size) \in Message /\ Transfer(size).type = "TRANSFER"
      /\ TypeOfCall("stage") = "TRANSFER" /\ TypeOfCall("dispatch") = "DISPATCH"
      /\ TypeOfCall("read back") = "FETCH" /\ TypeOfCall("release") = "FREE"
      /\ {"stage", "dispatch", "read back", "release"} \subseteq Calls
      /\ "none" \notin Calls /\ "encode" \notin Calls /\ "collect" \notin Calls
    BY DEF Transfer, Message, TypeOfCall, Calls
<1>1. /\ Fits(doing[h], staged[h], todo[h]) /\ todo[h] \in Nat
      /\ resident[h] \subseteq Handle /\ staged[h] \in Seq(Handle) /\ Len(staged[h]) \in Nat
      /\ InTurn(link[h], doing[h], requests[h], replies[h])
      /\ link[h] = "open" => Ledger(resident[h], staged[h], Coming(replies[h]),
                                    Going(requests[h]), Mine(h))
    <2>1. staged[h] \in Seq(Handle)
        BY SoundNow
    <2>2. Len(staged[h]) \in Nat
        BY SMT, <2>1
    <2> QED
        BY <2>2, SoundNow
<1>2. CASE encode_args(h)
    <2>1. doing[h] = "encode" /\ UNCHANGED <<resident, staged>>
        BY <1>2 DEF encode_args
    <2>2. todo[h] <= MaxStaged /\ todo[h] + Len(staged[h]) <= MaxStaged
        BY <1>1, <2>1 DEF Fits
    <2>3. CASE todo[h] > 0
        <3>1. PICK size \in Sizes : Ask(h, "stage", Transfer(size))
            BY SMT, <1>2, <2>3 DEF encode_args
        <3>2. todo'[h] = todo[h] - 1
            BY SMTT(30), <1>2, <2>3, FunctionTypes DEF encode_args
        <3>3. Fits("stage", staged[h], todo'[h])
            <4>1. todo[h] \in Nat /\ Len(staged[h]) \in Nat /\ MaxStaged \in Nat
                BY <1>1, SessionAssumption
            <4>2. todo'[h] <= MaxStaged /\ todo'[h] + Len(staged[h]) < MaxStaged
                BY SMT, <2>2, <2>3, <3>2, <4>1
            <4> QED
                BY <4>2 DEF Fits
        <3> QED
            BY <1>0, <2>1, <3>1, <3>3, AskKeeps
    <2>4. CASE todo[h] = 0
        <3>1. PICK placed \in SUBSET Handles(resident[h]) :
                Ask(h, "dispatch", Request("DISPATCH", placed \cup Handles(Range(staged[h]))))
            BY SMT, <1>2, <2>4 DEF encode_args
        <3> DEFINE msg == Request("DISPATCH", placed \cup Handles(Range(staged[h])))
        <3>2. msg \in Message /\ msg.type = "DISPATCH"
            BY Placed DEF OwnerInv, Request
        <3>3. UNCHANGED todo
            BY SMT, <1>2, <2>4 DEF encode_args
        <3>4. Fits("dispatch", staged[h], todo'[h])
            <4>1. todo[h] = 0 /\ todo'[h] = 0 /\ Len(staged[h]) \in Nat /\ MaxStaged \in Nat
                BY <1>1, <2>4, <3>3, SessionAssumption
            <4>2. todo'[h] <= MaxStaged /\ Len(staged[h]) <= MaxStaged
                BY SMT, <2>2, <4>1
            <4> QED
                BY <4>2 DEF Fits
        <3>5. Ask(h, "dispatch", msg)
            BY <3>1
        <3> HIDE DEF msg
        <3> QED
            BY <1>0, <2>1, <3>2, <3>4, <3>5, AskKeeps
    <2> QED
        BY <1>2, <2>3, <2>4 DEF encode_args
<1>3. CASE fetch_staged(h)
    <2>1. /\ doing[h] = "collect" /\ todo[h] > 0 /\ todo' = [todo EXCEPT ![h] = todo[h] - 1]
          /\ Ask(h, "read back", Request("FETCH", {staged[h][todo[h]].handle}))
          /\ UNCHANGED <<resident, staged>>
        BY <1>3 DEF fetch_staged
    <2>2. todo'[h] = todo[h] - 1
        BY <2>1, FunctionTypes
    <2>3. todo[h] \in DOMAIN staged[h]
        <3>1. todo[h] <= Len(staged[h])
            BY <2>1, HostTypes DEF OwnerInv, Reads
        <3>2. DOMAIN staged[h] = 1 .. Len(staged[h])
            BY SMTT(30), <1>1
        <3>3. todo[h] > 0 /\ todo[h] \in Nat /\ Len(staged[h]) \in Nat
            BY <1>1, <2>1
        <3> QED
            BY SMTT(30), <3>1, <3>2, <3>3
    <2> DEFINE msg == Request("FETCH", {staged[h][todo[h]].handle})
    <2>4. msg \in Message /\ msg.type = "FETCH" /\ Ask(h, "read back", msg)
        BY <2>1, <2>3, Placed DEF OwnerInv, Request
    <2>5. Fits("read back", staged[h], todo'[h])
        <3>1. todo[h] > 0 /\ todo[h] <= MaxStaged
            BY <1>1, <2>1 DEF Fits
        <3>2. todo'[h] <= MaxStaged
            <4>1. todo[h] \in Nat /\ MaxStaged \in Nat
                BY <1>1, SessionAssumption
            <4> QED
                BY SMT, <2>2, <3>1, <4>1
        <3> QED
            BY <3>2 DEF Fits
    <2> HIDE DEF msg
    <2> QED
        BY <1>0, <2>1, <2>4, <2>5, AskKeeps
<1>4. CASE free_staged(h)
    <2>1. CASE staged[h] # <<>>
        <3>1. /\ doing[h] = "collect" /\ Ask(h, "release", Request("FREE", {Head(staged[h]).handle}))
              /\ staged'[h] = Tail(staged[h]) /\ UNCHANGED <<resident, todo>>
            BY <1>4, <2>1, FunctionTypes DEF free_staged, ToFree
        <3> DEFINE a == Head(staged[h]).handle
                   msg == Request("FREE", {a})
        <3>2. Head(staged[h]) = staged[h][1] /\ 1 \in DOMAIN staged[h] /\ Tail(staged[h]) \in Seq(Handle)
            BY SMTT(30), <1>1, <2>1
        <3>3. msg \in Message /\ msg.type = "FREE" /\ msg.handles = {a}
            BY <3>2, Placed DEF OwnerInv, Request
        <3>4. Ask(h, "release", msg)
            BY <3>1
        <3> HIDE DEF msg, a
        <3>5. /\ InTurn(link'[h], doing'[h], requests'[h], replies'[h]) /\ link'[h] = "open"
              /\ doing'[h] = "release" /\ Mine(h)' = Mine(h)
              /\ Ledger(resident[h], staged[h], {}, {}, Mine(h))
              /\ Coming(replies'[h]) = {} /\ Going(requests'[h]) = {a}
            BY <1>0, <3>1, <3>3, <3>4, AskSound
        <3>6. Unique(Mine(h))
            BY SitesAre DEF OwnerInv, SessionInv, Mine, Unique
        <3>7. Ledger(resident[h], Tail(staged[h]), {}, {a}, Mine(h))
            BY <1>1, <2>1, <3>5, <3>6, LedgerGiveHead DEF a
        <3>8. Fits("release", Tail(staged[h]), todo[h])
            BY <1>1 DEF Fits
        <3> QED
            BY <1>1, <3>1, <3>2, <3>5, <3>7, <3>8, SoundNext
    <2>2. CASE staged[h] = <<>>
        <3>1. /\ doing[h] = "collect" /\ doing'[h] = "none"
              /\ UNCHANGED <<worker, link, requests, replies, resident, staged, todo>>
            BY <1>4, <2>2, FunctionTypes DEF free_staged, wires
        <3>2. InTurn(link'[h], doing'[h], requests'[h], replies'[h])
            BY <1>0, <1>1, <3>1 DEF InTurn
        <3>3. Fits("none", <<>>, todo[h])
            BY <1>1 DEF Fits
        <3>4. Mine(h)' = Mine(h)
            BY <3>1 DEF worker, table, Mine, Sites
        <3>5. link[h] = "none" => resident[h] = {}
            BY SoundNow
        <3> QED
            BY <1>1, <2>2, <3>1, <3>2, <3>3, <3>4, <3>5, SoundNext
    <2> QED
        BY <2>1, <2>2
<1>5. CASE reply_ok(h)
    <2> DEFINE c == doing[h]
               x == Got(h).result
    <2>1. /\ c \in Calls /\ link[h] = "open" /\ replies[h] # <<>>
          /\ Got(h).ok \/ c \in {"free", "release"}
          /\ link'[h] = "open" /\ replies'[h] = Tail(replies[h]) /\ doing'[h] = After(c)
          /\ resident'[h] = (IF c = "alloc" THEN resident[h] \cup {x} ELSE resident[h])
          /\ staged'[h] = (IF c = "stage" THEN Append(staged[h], x) ELSE staged[h])
          /\ UNCHANGED <<worker, requests>>
        BY <1>5, FunctionTypes DEF reply_ok, Receive, Served
    <2>2. requests[h] = <<>> /\ Len(replies[h]) = 1 /\ Got(h).type = TypeOfCall(c)
        BY <1>1, <2>1 DEF InTurn, Got
    <2>3. replies[h] \in Seq(Reply)
        BY SoundNow
    <2>4. replies'[h] = <<>> /\ requests'[h] = <<>>
        <3>1. Tail(replies[h]) \in Seq(Reply) /\ Len(Tail(replies[h])) = 0
            BY SMTT(30), <2>1, <2>2, <2>3
        <3>2. Tail(replies[h]) = <<>>
            BY <3>1, NoneLeft
        <3> QED
            BY <2>1, <2>2, <3>2
    <2>5. After(c) \notin Calls
        BY <2>1 DEF After, Calls
    <2>6. InTurn(link'[h], doing'[h], requests'[h], replies'[h])
        BY <2>1, <2>4, <2>5 DEF InTurn
    <2>7. Mine(h)' = Mine(h) /\ Mine(h) \subseteq Handle
        BY <2>1, SitesAre DEF worker, table, Mine, Sites, OwnerInv, SessionInv
    <2>8. Coming(<<>>) = {} /\ Going(<<>>) = {}
        BY DEF Coming, Going
    <2>9. Ledger(resident[h], staged[h], Coming(replies[h]), {}, Mine(h))
        BY <1>1, <2>1, <2>2, <2>8
    <2>10. Coming(replies[h]) = IF c \in {"alloc", "stage"} THEN {x} ELSE {}
        BY <2>1, <2>2 DEF Coming, Got, TypeOfCall, Calls
    <2>11. CASE c = "alloc"
        <3>1. Ledger(resident[h], staged[h], {x}, {}, Mine(h))
            BY <2>9, <2>10, <2>11
        <3>2. Ledger(resident[h] \cup {x}, staged[h], {}, {}, Mine(h)) /\ x \in Handle
            BY <2>7, <3>1, LedgerKeep DEF Ledger
        <3>3. After(c) = "none" /\ UNCHANGED todo
            BY <1>5, <2>11 DEF After, reply_ok
        <3>4. Fits("none", staged[h], todo[h])
            BY <1>1, <2>11 DEF Fits
        <3> HIDE DEF c, x
        <3>5. resident'[h] = resident[h] \cup {x} /\ staged'[h] = staged[h] /\ resident'[h] \subseteq Handle
            BY <1>1, <2>1, <2>11, <3>2
        <3> QED
            BY <1>1, <2>1, <2>4, <2>6, <2>7, <2>8, <3>2, <3>3, <3>4, <3>5, SoundNext
    <2>12. CASE c = "stage"
        <3>1. Ledger(resident[h], staged[h], {x}, {}, Mine(h))
            BY <2>9, <2>10, <2>12
        <3>2. x \in Handle
            BY <2>7, <3>1 DEF Ledger
        <3>3. Ledger(resident[h], Append(staged[h], x), {}, {}, Mine(h))
            BY <1>1, <3>1, <3>2, LedgerStage
        <3>4. After(c) = "encode" /\ UNCHANGED todo
            BY <1>5, <2>12 DEF After, reply_ok
        <3> HIDE DEF x
        <3>5. Append(staged[h], x) \in Seq(Handle) /\ Len(Append(staged[h], x)) = Len(staged[h]) + 1
            BY SMTT(30), <1>1, <3>2
        <3>6. Fits("encode", Append(staged[h], x), todo[h])
            BY SMTT(30), <1>1, <2>12, <3>5, SessionAssumption DEF Fits
        <3> HIDE DEF c
        <3>7. resident'[h] = resident[h] /\ staged'[h] = Append(staged[h], x)
            BY <2>1, <2>12
        <3> QED
            BY <1>1, <2>1, <2>4, <2>6, <2>7, <2>8, <3>3, <3>4, <3>5, <3>6, <3>7, SoundNext
    <2>13. CASE c \notin {"alloc", "stage"}
        <3>1. Ledger(resident[h], staged[h], {}, {}, Mine(h))
            BY <2>9, <2>10, <2>13
        <3>2. resident'[h] = resident[h] /\ staged'[h] = staged[h]
            BY <2>1, <2>13
        <3>3. Fits(After(c), staged[h], todo'[h])
            <4>1. CASE c = "dispatch"
                <5>1. todo'[h] \in {0, Len(staged[h])}
                    BY <1>5, <4>1, FunctionTypes DEF reply_ok
                <5> QED
                    BY SMT, <1>1, <4>1, <5>1, SessionAssumption DEF Fits, After
            <4>2. CASE c # "dispatch"
                <5>1. todo'[h] = todo[h]
                    BY <1>5, <4>2 DEF reply_ok
                <5>2. (After(c) = "none" /\ c \in {"fetch", "free"}) \/ After(c) = "collect"
                    BY <2>1, <2>13, <4>2 DEF After, Calls
                <5> QED
                    BY <1>1, <5>1, <5>2 DEF Fits
            <4> QED
                BY <4>1, <4>2
        <3> HIDE DEF c, x
        <3> QED
            BY <1>1, <2>1, <2>4, <2>6, <2>7, <2>8, <3>1, <3>2, <3>3, SoundNext
    <2> QED
        BY <2>11, <2>12, <2>13
<1>6. CASE reply_refused(h)
    BY <1>6, EndSound DEF reply_refused
<1>7. CASE wire_failed(h)
    <2>1. link[h] = "closed"
        BY <1>7 DEF wire_failed
    <2>2. CASE End(h, "aborted")
        BY <2>1, <2>2, EndSound
    <2>3. CASE /\ doing' = [doing EXCEPT ![h] = "none"]
               /\ staged' = [staged EXCEPT ![h] = <<>>]
               /\ UNCHANGED <<worker, wires, resident, todo>>
        <3>1. /\ link'[h] = "closed" /\ doing'[h] = "none" /\ staged'[h] = <<>>
              /\ UNCHANGED <<requests, replies, resident, todo>>
            BY <2>1, <2>3, FunctionTypes DEF wires
        <3>2. InTurn(link'[h], doing'[h], requests'[h], replies'[h])
            BY <1>1, <2>1, <3>1 DEF InTurn
        <3>3. Fits("none", <<>>, todo[h]) /\ <<>> \in Seq(Handle)
            <4>1. todo[h] <= MaxStaged
                BY <1>1 DEF Fits
            <4>2. <<>> \in Seq(Handle)
                BY SMT
            <4> QED
                BY <4>1, <4>2 DEF Fits
        <3> QED
            BY <1>1, <3>1, <3>2, <3>3, SoundNext
    <2> QED
        BY <1>7, <2>2, <2>3 DEF wire_failed
<1> QED
    BY <1>2, <1>3, <1>4, <1>5, <1>6, <1>7 DEF Continues
-----------------------------------------------------------------------------
(* The worker answers the host it serves: no other one notices.            *)
LEMMA AnswerSound ==
  ASSUME OwnerInv, NEW h \in Hosts, serving = h, requests[h] # <<>>,
         NEW ok \in BOOLEAN, NEW result, Answer(h, ok, result)
  PROVE  /\ Elsewhere(h) /\ Service' /\ \A g \in Hosts \ {h} : Mine(g)' = Mine(g)
         /\ Mine(h) = Sites /\ Mine(h)' = Sites' /\ link'[h] = link[h] /\ link[h] # "none"
         /\ UNCHANGED <<doing, resident, staged, todo>>
         /\ InTurn(link'[h], doing'[h], requests'[h], replies'[h])
         /\ link[h] = "open" =>
              /\ Ledger(resident[h], staged[h], {}, Going(requests[h]), Sites)
              /\ Going(requests'[h]) = {}
              /\ Coming(replies'[h]) = IF ok /\ Head(requests[h]).type = "TRANSFER" THEN {result} ELSE {}
<1> DEFINE m == Head(requests[h])
           reply == [type |-> m.type, ok |-> ok, result |-> result]
<1>1. /\ InTurn(link[h], doing[h], requests[h], replies[h])
      /\ requests[h] \in Seq(Message) /\ replies[h] \in Seq(Reply)
      /\ link[h] = "open" => Ledger(resident[h], staged[h], Coming(replies[h]),
                                    Going(requests[h]), Mine(h))
    BY SoundNow
<1>2. /\ requests' = [requests EXCEPT ![h] = Tail(requests[h])]
      /\ replies' = [replies EXCEPT ![h] = IF link[h] = "cut" THEN replies[h] ELSE Append(replies[h], reply)]
      /\ UNCHANGED <<link, serving, restarts, doing, resident, staged, todo>>
    BY DEF Answer, host
<1>3. link[h] \in {"open", "cut"} /\ h # NoHost
    BY SessionAssumption DEF OwnerInv, Service
<1>4. /\ requests'[h] = Tail(requests[h]) /\ Elsewhere(h)
      /\ replies'[h] = IF link[h] = "cut" THEN replies[h] ELSE Append(replies[h], reply)
    <2> HIDE DEF reply
    <2> QED
        BY <1>2, FunctionTypes DEF Elsewhere
<1>5. Service'
    BY <1>2, <1>3 DEF OwnerInv, Service
<1>6. \A g \in Hosts \ {h} : Mine(g)' = Mine(g)
    BY <1>2 DEF Mine
<1>7. Mine(h) = Sites /\ Mine(h)' = Sites'
    BY <1>2 DEF Mine
<1>8. ASSUME link[h] = "open"
      PROVE  /\ replies[h] = <<>> /\ doing[h] \in Calls /\ requests'[h] = <<>>
             /\ m.type = TypeOfCall(doing[h]) /\ replies'[h] = <<reply>>
    <2>1. doing[h] \in Calls /\ Len(requests[h]) = 1 /\ m.type = TypeOfCall(doing[h]) /\ replies[h] = <<>>
        BY <1>1, <1>8 DEF InTurn
    <2>2. Tail(requests[h]) \in Seq(Message) /\ Len(Tail(requests[h])) = 0
        BY SMTT(30), <1>1, <2>1
    <2>3. Tail(requests[h]) = <<>>
        BY <2>2, NoneLeft
    <2> HIDE DEF reply, m
    <2>4. replies'[h] = <<reply>>
        BY SMTT(30), <1>4, <1>8, <2>1
    <2> QED
        BY <1>4, <2>1, <2>3, <2>4
<1>9. Len(<<reply>>) = 1 /\ Head(<<reply>>) = reply /\ <<reply>> # <<>> /\ Coming(<<>>) = {}
        /\ Going(<<>>) = {}
    BY SMT DEF Coming, Going
<1>10. InTurn(link'[h], doing'[h], requests'[h], replies'[h])
    <2>1. CASE link[h] = "open"
        <3>1. reply.type = m.type
            OBVIOUS
        <3> HIDE DEF reply, m
        <3> QED
            BY <1>2, <1>8, <1>9, <2>1, <3>1 DEF InTurn
    <2>2. CASE link[h] = "cut"
        <3> HIDE DEF reply, m
        <3> QED
            BY <1>1, <1>2, <1>4, <2>2 DEF InTurn
    <2> QED
        BY <1>3, <2>1, <2>2
<1>11. Coming(<<reply>>) = IF ok /\ m.type = "TRANSFER" THEN {result} ELSE {}
    <2>1. reply.ok = ok /\ reply.type = m.type /\ reply.result = result
        OBVIOUS
    <2> HIDE DEF reply, m
    <2> QED
        BY <1>9, <2>1 DEF Coming
<1>12. ASSUME link[h] = "open"
       PROVE  /\ Ledger(resident[h], staged[h], {}, Going(requests[h]), Sites)
              /\ Going(requests'[h]) = {}
              /\ Coming(replies'[h]) = IF ok /\ Head(requests[h]).type = "TRANSFER" THEN {result} ELSE {}
    <2> HIDE DEF reply
    <2> QED
        BY <1>1, <1>7, <1>8, <1>9, <1>11, <1>12
<1> QED
    BY <1>2, <1>3, <1>4, <1>5, <1>6, <1>7, <1>10, <1>12

(* What is left to show of an answer: the table, the device and the ledger *)
(* of the host that asked.                                                 *)
LEMMA AnswerDoes ==
  ASSUME OwnerInv, NEW h \in Hosts, Serve(h), serving = h, requests[h] # <<>>,
         NEW ok \in BOOLEAN, NEW result, Answer(h, ok, result), Sorted', Stocked',
         link[h] = "open" => Ledger(resident[h], staged[h], Coming(replies'[h]), {}, Sites')
  PROVE  OwnerInv'
<1>1. /\ Elsewhere(h) /\ Service' /\ \A g \in Hosts \ {h} : Mine(g)' = Mine(g)
      /\ Mine(h)' = Sites' /\ link'[h] = link[h] /\ link[h] # "none"
      /\ UNCHANGED <<doing, resident, staged, todo>>
      /\ InTurn(link'[h], doing'[h], requests'[h], replies'[h])
      /\ link[h] = "open" => Going(requests'[h]) = {}
    BY AnswerSound
<1>2. /\ Fits(doing[h], staged[h], todo[h]) /\ resident[h] \subseteq Handle /\ staged[h] \in Seq(Handle)
    BY SoundNow
<1>3. Sound(h)'
    BY <1>1, <1>2, SoundNext
<1>4. \A g \in Hosts : Sound(g)'
    BY <1>1, <1>3, OthersKeep
<1>5. SessionInv'
    BY ServeStep DEF OwnerInv
<1> QED
    BY <1>1, <1>4, <1>5 DEF OwnerInv

(* An answer that changes neither the table nor the device.                *)
LEMMA AnswerOnly ==
  ASSUME OwnerInv, NEW h \in Hosts, Serve(h), serving = h, requests[h] # <<>>,
         NEW ok \in BOOLEAN, NEW result, Answer(h, ok, result), UNCHANGED <<table, device>>,
         Head(requests[h]).type = "FREE" => link[h] # "open",
         Head(requests[h]).type = "TRANSFER" => ~ok
  PROVE  OwnerInv'
<1>1. Sorted' /\ Sites' = Sites
    BY DEF OwnerInv, Sorted, Sites, table
<1>2. Stocked'
    BY <1>1 DEF OwnerInv, Stocked
<1>3. link[h] = "open" =>
              /\ Ledger(resident[h], staged[h], {}, Going(requests[h]), Sites)
              /\ Coming(replies'[h]) = IF ok /\ Head(requests[h]).type = "TRANSFER" THEN {result} ELSE {}
    BY AnswerSound
<1>4. link[h] = "open" => Going(requests[h]) = {}
    BY DEF Going
<1>5. link[h] = "open" => Ledger(resident[h], staged[h], Coming(replies'[h]), {}, Sites')
    BY <1>1, <1>3, <1>4
<1> QED
    BY <1>1, <1>2, <1>5, AnswerDoes

\* A step of the worker for a host keeps the invariant.
LEMMA ServeOwner ==
  ASSUME OwnerInv, NEW h \in Hosts, Serve(h)
  PROVE  OwnerInv'
<1>0. TableInv /\ Sorted /\ Stocked /\ Service /\ SessionInv
    BY DEF OwnerInv, SessionInv
<1>1. CASE accept(h)
    <2>1. /\ serving = NoHost /\ serving' = h /\ link[h] \in {"open", "cut"}
          /\ UNCHANGED <<table, device, restarts, link, requests, replies, doing, resident, staged, todo>>
        BY <1>1 DEF accept, wires, host
    <2>2. h # NoHost /\ regions = <<>>
        BY <1>0, <2>1, SessionAssumption DEF Service
    <2>3. Sorted' /\ Sites' = Sites /\ Sites = {}
        BY <1>0, <2>1, <2>2, SitesEmpty DEF Sorted, Sites, table
    <2>4. Stocked' /\ Service'
        BY <1>0, <2>1, <2>2, <2>3 DEF Stocked, Service
    <2>5. \A g \in Hosts : Mine(g)' = Mine(g)
        BY <2>3 DEF Mine
    <2>6. Sound(h)'
        BY <2>1, <2>5 DEF OwnerInv, Sound
    <2>7. Elsewhere(h)
        BY <2>1 DEF Elsewhere
    <2>8. \A g \in Hosts : Sound(g)'
        BY <2>5, <2>6, <2>7, OthersKeep
    <2>9. SessionInv'
        BY <1>0, ServeStep
    <2> QED
        BY <2>3, <2>4, <2>8, <2>9 DEF OwnerInv
<1>2. CASE serve_transfer(h)
    <2>1. serving = h /\ requests[h] # <<>> /\ Head(requests[h]).type = "TRANSFER"
        BY <1>2 DEF serve_transfer, Asked
    <2>2. requests[h] \in Seq(Message)
        BY SoundNow
    <2>3. Head(requests[h]) \in Message
        BY SMT, <2>1, <2>2
    <2>4. Size(h) \in Sizes
        BY <2>1, <2>3 DEF Size, Message
    <2>5. ASSUME NEW b \in Buffers \ device, vx_remote_table_alloc(Me, Size(h), b),
                 device' = device \cup {b},
                 Answer(h, TRUE, [handle |-> vx_remote_addr(Me, next_offset[Me]), buffer |-> b])
          PROVE  OwnerInv'
        <3> DEFINE x == [handle |-> vx_remote_addr(Me, next_offset[Me]), buffer |-> b]
        <3>1. Sites' = Sites \cup {x} /\ x \notin Sites /\ Sorted'
            BY <1>0, <2>4, <2>5, SitesAlloc
        <3>2. x.buffer = b
            OBVIOUS
        <3> HIDE DEF x
        <3>3. Stocked'
            BY SMTT(30), <1>0, <2>5, <3>1, <3>2 DEF Stocked
        <3>4. Answer(h, TRUE, x)
            BY <2>5 DEF x
        <3>5. link[h] = "open" => /\ Ledger(resident[h], staged[h], {}, Going(requests[h]), Sites)
                                  /\ Coming(replies'[h]) = {x}
            BY <2>1, <3>4, AnswerSound
        <3>6. Going(requests[h]) = {}
            BY <2>1 DEF Going
        <3>7. link[h] = "open" => Ledger(resident[h], staged[h], Coming(replies'[h]), {}, Sites')
            BY SMTT(30), <3>1, <3>5, <3>6, LedgerCome
        <3> QED
            BY <2>1, <3>1, <3>3, <3>4, <3>7, AnswerDoes
    <2>6. ASSUME Answer(h, FALSE, Nothing), UNCHANGED <<table, device>>
          PROVE  OwnerInv'
        BY <2>1, <2>6, AnswerOnly
    <2> QED
        BY <1>2, <2>5, <2>6 DEF serve_transfer
<1>3. CASE serve_dispatch(h)
    <2>1. PICK ok \in {Resolves(h), FALSE} : Answer(h, ok, Nothing)
        BY <1>3 DEF serve_dispatch
    <2>2. ok \in BOOLEAN
        BY DEF Resolves
    <2>3. /\ serving = h /\ requests[h] # <<>> /\ Head(requests[h]).type = "DISPATCH"
          /\ UNCHANGED <<table, device>>
        BY <1>3 DEF serve_dispatch, Asked
    <2> QED
        BY <2>1, <2>2, <2>3, AnswerOnly
<1>4. CASE serve_fetch(h)
    <2>1. Answer(h, Resolves(h), Nothing)
        BY <1>4 DEF serve_fetch
    <2>2. Resolves(h) \in BOOLEAN
        BY DEF Resolves
    <2>3. /\ serving = h /\ requests[h] # <<>> /\ Head(requests[h]).type = "FETCH"
          /\ UNCHANGED <<table, device>>
        BY <1>4 DEF serve_fetch, Asked
    <2> QED
        BY <2>1, <2>2, <2>3, AnswerOnly
<1>5. CASE serve_free(h)
    <2> DEFINE a == TheHandle(h)
               i == vx_remote_resolve(a)
    <2>1. /\ serving = h /\ requests[h] # <<>> /\ Head(requests[h]).type = "FREE"
          /\ Answer(h, TRUE, Nothing)
        BY <1>5 DEF serve_free, Asked
    <2>2. requests[h] \in Seq(Message)
        BY SoundNow
    <2>3. Head(requests[h]) \in Message
        BY SMTT(30), <2>1, <2>2
    <2>4. PICK n \in Nat : Head(requests[h]).handles = {n}
        BY <2>1, <2>3 DEF Message
    <2>5. a = n
        BY <2>4 DEF TheHandle
    <2>6. a \in Nat /\ Going(requests[h]) = {a}
        BY <2>1, <2>4, <2>5 DEF Going
    <2>7. IF i # 0 THEN device' = device \ {regions[i].remote} /\ vx_remote_table_free(i)
          ELSE UNCHANGED <<table, device>>
        BY <1>5 DEF serve_free
    <2> HIDE DEF a
    <2>8. link[h] = "open" => /\ Ledger(resident[h], staged[h], {}, {a}, Sites)
                              /\ Coming(replies'[h]) = {}
        BY <2>1, <2>6, AnswerSound
    <2>9. ASSUME link[h] = "open" PROVE i # 0 /\ regions[i].base = a
        <3>1. PICK s \in Sites : s.handle = a
            BY <2>8, <2>9 DEF Ledger, Handles
        <3>2. PICK j \in DOMAIN regions : regions[j].base = a /\ i = j
            BY <1>0, <3>1, SitesAre
        <3>3. j # 0
            BY SMT, <1>0 DEF TableInv, Types
        <3> QED
            BY <3>2, <3>3
    <2>10. CASE i # 0
        <3>1. i \in DOMAIN regions
            BY <1>0, <2>6, <2>10, ResolveFinds
        <3>2. device' = device \ {regions[i].remote} /\ vx_remote_table_free(i)
            BY <2>7, <2>10
        <3> HIDE DEF i
        <3> DEFINE t == [handle |-> regions[i].base, buffer |-> regions[i].remote]
        <3>3. Sites' = {s \in Sites : s.handle # regions[i].base} /\ Sorted' /\ t \in Sites
            BY <1>0, <3>1, <3>2, SitesFree
        <3>4. t.handle = regions[i].base /\ t.buffer = regions[i].remote
            OBVIOUS
        <3> HIDE DEF t
        <3>5. Sites' = Sites \ {t}
            <4>1. Unique(Sites)
                BY <1>0, SitesAre
            <4> QED
                BY <3>3, <3>4, <4>1 DEF Unique
        <3>6. Stocked'
            BY SMT, <1>0, <3>2, <3>3, <3>4, <3>5 DEF Stocked
        <3>7. link[h] = "open" => Ledger(resident[h], staged[h], Coming(replies'[h]), {}, Sites')
            <4> SUFFICES ASSUME link[h] = "open"
                         PROVE  Ledger(resident[h], staged[h], Coming(replies'[h]), {}, Sites')
                OBVIOUS
            <4>1. Sites' = {s \in Sites : s.handle # a} /\ Coming(replies'[h]) = {}
                BY <2>8, <2>9, <3>3
            <4> DEFINE left == {s \in Sites : s.handle # a}
            <4>2. Ledger(resident[h], staged[h], {}, {a}, Sites)
                BY <2>8
            <4>3. Ledger(resident[h], staged[h], {}, {}, left)
                BY <4>2 DEF Ledger
            <4> QED
                BY <4>1, <4>3
        <3> QED
            BY <2>1, <3>3, <3>6, <3>7, AnswerDoes
    <2>11. CASE i = 0
        <3>1. UNCHANGED <<table, device>> /\ link[h] # "open"
            BY <2>7, <2>9, <2>11
        <3> QED
            BY <2>1, <3>1, AnswerOnly
    <2> QED
        BY <2>10, <2>11
<1>6. CASE hang_up(h)
    <2>1. /\ serving = h /\ link[h] = "cut" /\ device' = device \ Left /\ regions' = <<>>
          /\ link' = [link EXCEPT ![h] = "closed"] /\ serving' = NoHost
          /\ requests' = [requests EXCEPT ![h] = <<>>]
          /\ UNCHANGED <<restarts, replies, doing, resident, staged, todo>>
        BY <1>6 DEF hang_up, host, vx_remote_table_free_all
    <2>2. Sites' = {} /\ Sorted'
        BY SMT, <2>1 DEF Sites, Sorted
    <2>3. Left = {s.buffer : s \in Sites}
        BY LeftAre
    <2>4. Stocked'
        BY <1>0, <2>1, <2>2, <2>3 DEF Stocked
    <2>5. Service'
        BY <1>0, <2>1 DEF Service
    <2>6. Elsewhere(h) /\ link'[h] = "closed" /\ requests'[h] = <<>>
        BY <2>1, FunctionTypes DEF Elsewhere
    <2>7. h # NoHost /\ \A g \in Hosts : g # NoHost
        BY SessionAssumption
    <2>8. \A g \in Hosts \ {h} : Mine(g)' = Mine(g)
        BY <2>1, <2>7 DEF Mine
    <2>9. /\ InTurn(link[h], doing[h], requests[h], replies[h])
          /\ Fits(doing[h], staged[h], todo[h]) /\ resident[h] \subseteq Handle /\ staged[h] \in Seq(Handle)
        BY SoundNow
    <2>10. InTurn(link'[h], doing'[h], requests'[h], replies'[h])
        BY <2>1, <2>6, <2>9 DEF InTurn
    <2>11. Sound(h)'
        BY <2>1, <2>6, <2>9, <2>10, SoundNext
    <2>12. \A g \in Hosts : Sound(g)'
        BY <2>6, <2>8, <2>11, OthersKeep
    <2>13. SessionInv'
        BY <1>0, ServeStep
    <2> QED
        BY <2>2, <2>4, <2>5, <2>12, <2>13 DEF OwnerInv
<1> QED
    BY <1>1, <1>2, <1>3, <1>4, <1>5, <1>6 DEF Serve

(* A worker that starts again keeps nothing, and no connection is open.    *)
LEMMA RestartOwner == OwnerInv /\ restart => OwnerInv'
<1> SUFFICES ASSUME OwnerInv, restart PROVE OwnerInv'
    OBVIOUS
<1>1. /\ regions' = <<>> /\ device' = {} /\ serving' = NoHost
      /\ restarts < MaxRestarts /\ restarts' = restarts + 1
      /\ link' = [h \in Hosts |-> IF link[h] = "none" THEN "none" ELSE "closed"]
      /\ requests' = [h \in Hosts |-> <<>>] /\ replies' = [h \in Hosts |-> <<>>]
      /\ UNCHANGED <<doing, resident, staged, todo>>
    BY DEF restart, host
<1>2. Sites' = {} /\ Sorted'
    BY SMT, <1>1 DEF Sites, Sorted
<1>3. Stocked'
    BY <1>1, <1>2 DEF Stocked
<1>4. Service'
    BY SMT, <1>1, SessionAssumption DEF OwnerInv, Service
<1>5. ASSUME NEW h \in Hosts PROVE Sound(h)'
    <2>1. /\ link'[h] = (IF link[h] = "none" THEN "none" ELSE "closed")
          /\ requests'[h] = <<>> /\ replies'[h] = <<>>
        BY <1>1
    <2>2. /\ Fits(doing[h], staged[h], todo[h]) /\ resident[h] \subseteq Handle /\ staged[h] \in Seq(Handle)
          /\ link[h] = "none" => resident[h] = {}
        BY SoundNow
    <2>3. InTurn(link'[h], doing'[h], requests'[h], replies'[h])
        BY <2>1 DEF InTurn
    <2> QED
        BY <1>1, <2>1, <2>2, <2>3, SoundNext
<1>6. SessionInv'
    BY RestartStep DEF OwnerInv
<1> QED
    BY <1>2, <1>3, <1>4, <1>5, <1>6 DEF OwnerInv

\* A new worker and its hosts have the invariant.
LEMMA OwnerStart == Init => OwnerInv
<1> SUFFICES ASSUME Init PROVE OwnerInv
    OBVIOUS
<1>1. /\ regions = <<>> /\ device = {} /\ serving = NoHost /\ restarts = 0
      /\ link = [h \in Hosts |-> "none"] /\ requests = [h \in Hosts |-> <<>>]
      /\ replies = [h \in Hosts |-> <<>>] /\ doing = [h \in Hosts |-> "none"]
      /\ resident = [h \in Hosts |-> {}] /\ staged = [h \in Hosts |-> <<>>] /\ todo = [h \in Hosts |-> 0]
    BY DEF Init, TableInit
<1>2. SessionInv
    BY SessionStart
<1>3. Sorted /\ Sites = {}
    BY <1>1, SortedEmpty, SitesEmpty
<1>4. Stocked /\ Service
    BY SMT, <1>1, <1>3, SessionAssumption DEF Stocked, Service
<1>5. ASSUME NEW h \in Hosts PROVE Sound(h)
    <2>1. Good("none", "none", <<>>, <<>>, {}, <<>>, 0, Mine(h))
        BY SMT, SessionAssumption DEF Good, InTurn, Fits, Calls
    <2> QED
        BY <1>1, <2>1 DEF Sound
<1> QED
    BY <1>2, <1>3, <1>4, <1>5 DEF OwnerInv

\* Every step keeps the invariant.
LEMMA OwnerStep == OwnerInv /\ [Next]_vars => OwnerInv'
<1> SUFFICES ASSUME OwnerInv, [Next]_vars PROVE OwnerInv'
    OBVIOUS
<1>1. ASSUME NEW h \in Hosts, Starts(h) PROVE OwnerInv'
    BY <1>1, StartsSound, HostsDo
<1>2. ASSUME NEW h \in Hosts, Continues(h) PROVE OwnerInv'
    BY <1>2, ContinuesSound, HostsDo
<1>3. ASSUME NEW h \in Hosts, dies(h) PROVE OwnerInv'
    <2>1. Sound(h)'
        BY <1>3, EndSound DEF dies
    <2> QED
        BY <1>3, <2>1, HostsDo
<1>4. ASSUME UNCHANGED vars PROVE OwnerInv'
    <2>1. UNCHANGED <<table, regions, device, serving, restarts, link, requests, replies,
                      doing, resident, staged, todo>>
        BY <1>4 DEF vars, worker, table, wires, host
    <2>2. Sorted' /\ Sites' = Sites
        BY <2>1 DEF OwnerInv, Sorted, Sites
    <2>3. Stocked' /\ Service'
        BY <2>1, <2>2 DEF OwnerInv, Stocked, Service
    <2>4. SessionInv'
        BY <1>4, SessionStep DEF OwnerInv
    <2>5. ASSUME NEW h \in Hosts PROVE Sound(h)'
        <3>1. Mine(h)' = Mine(h)
            BY <2>1, <2>2 DEF Mine
        <3> QED
            BY <2>1, <3>1 DEF OwnerInv, Sound
    <2> QED
        BY <2>2, <2>3, <2>4, <2>5 DEF OwnerInv
<1> QED
    BY <1>1, <1>2, <1>3, <1>4, ServeOwner, RestartOwner DEF Next, Finished

\* The invariant is true in every state.
LEMMA OwnerHolds == Spec => []OwnerInv
<1> QED
    BY OwnerStart, OwnerStep, PTL DEF Spec
-----------------------------------------------------------------------------
(* While its connection lasts, each handle that a host keeps is a site.    *)
LEMMA HeldAreSites ==
  ASSUME OwnerInv, NEW h \in Hosts, link[h] = "open"
  PROVE  resident[h] \cup Range(staged[h]) \subseteq Sites
<1>1. Ledger(resident[h], staged[h], Coming(replies[h]), Going(requests[h]), Mine(h))
    BY SoundNow
<1>2. Mine(h) \subseteq Sites
    BY DEF Mine
<1> QED
    BY <1>1, <1>2 DEF Ledger

(* The worker's table resolves every address exactly: "Bases are           *)
(* ascending" on a worker, whatever its hosts allocate and free.           *)
THEOREM SessionResolves == Spec => []ResolveIsExact
<1>1. OwnerInv => ResolveIsExact
    BY InvResolve DEF OwnerInv, SessionInv
<1> QED
    BY <1>1, OwnerHolds, PTL

(* A host never takes the reply to one call for that to another, whatever  *)
(* dies between the two.                                                   *)
THEOREM SessionInStep == Spec => []InStep
<1>1. OwnerInv => InStep
    <2> SUFFICES ASSUME OwnerInv, NEW h \in Hosts,
                        doing[h] \in Calls, link[h] = "open", replies[h] # <<>>
                 PROVE  Len(replies[h]) = 1 /\ Got(h).type = TypeOfCall(doing[h])
        BY DEF InStep
    <2>1. InTurn(link[h], doing[h], requests[h], replies[h])
        BY SoundNow
    <2> QED
        BY <2>1 DEF InTurn, Got
<1> QED
    BY <1>1, OwnerHolds, PTL

(* Each handle a host keeps on an open connection finds the buffer that    *)
(* was allocated for it.                                                   *)
THEOREM SessionHandles == Spec => []HandlesFindTheirBuffers
<1>1. OwnerInv => HandlesFindTheirBuffers
    <2> SUFFICES ASSUME OwnerInv PROVE HandlesFindTheirBuffers
        OBVIOUS
    <2>1. TypeOK
        <3>1. TableTypeOK
            BY InvType DEF OwnerInv, SessionInv
        <3>2. device \subseteq Buffers
            <4>1. Sites \subseteq Handle
                BY SitesAre DEF OwnerInv, SessionInv
            <4>2. \A x \in Handle : x.buffer \in Buffers
                BY DEF Handle
            <4> QED
                BY <4>1, <4>2 DEF OwnerInv, Stocked
        <3>3. serving \in Hosts \cup {NoHost} /\ restarts \in 0 .. MaxRestarts
            BY DEF OwnerInv, Service
        <3>4. \A h \in Hosts : resident[h] \subseteq Handle /\ staged[h] \in Seq(Handle)
                /\ todo[h] \in 0 .. MaxStaged
            <4> SUFFICES ASSUME NEW h \in Hosts
                         PROVE  resident[h] \subseteq Handle /\ staged[h] \in Seq(Handle)
                                  /\ todo[h] \in 0 .. MaxStaged
                OBVIOUS
            <4>1. resident[h] \subseteq Handle /\ staged[h] \in Seq(Handle) /\ todo[h] \in Nat
                BY SoundNow
            <4>2. todo[h] <= MaxStaged
                BY SoundNow DEF Fits
            <4> QED
                BY SMT, <4>1, <4>2, SessionAssumption
        <3>5. /\ link \in [Hosts -> {"none", "open", "cut", "closed"}] /\ doing \in [Hosts -> Steps]
              /\ staged \in [Hosts -> Seq(Result)] /\ todo \in [Hosts -> Nat]
            BY FunctionTypes
        <3>6. staged \in [Hosts -> Seq(Handle)] /\ todo \in [Hosts -> 0 .. MaxStaged]
            BY <3>4, <3>5
        <3> QED
            BY <3>1, <3>2, <3>3, <3>4, <3>5, <3>6 DEF TypeOK, Steps
    <2>2. ASSUME NEW h \in Hosts, link[h] = "open", NEW x \in resident[h] \cup Range(staged[h])
          PROVE  vx_remote_resolve(x.handle) # 0 /\ regions[vx_remote_resolve(x.handle)].remote = x.buffer
        <3>1. x \in Sites
            BY <2>2, HeldAreSites
        <3>2. PICK i \in DOMAIN regions : regions[i].remote = x.buffer /\ vx_remote_resolve(x.handle) = i
            BY <3>1, SitesAre DEF OwnerInv, SessionInv
        <3>3. i # 0
            BY SMT DEF OwnerInv, SessionInv, TableInv, Types
        <3> QED
            BY <3>2, <3>3
    <2> QED
        BY <2>1, <2>2 DEF HandlesFindTheirBuffers
<1> QED
    BY <1>1, OwnerHolds, PTL

(* The device holds the buffers of the live regions and no other, after    *)
(* whatever failed, was refused or died.                                   *)
THEOREM SessionLeaks == Spec => []NoBufferLeaks
<1>1. OwnerInv => NoBufferLeaks
    <2> SUFFICES ASSUME OwnerInv PROVE NoBufferLeaks
        OBVIOUS
    <2>1. device = Left
        BY LeftAre DEF OwnerInv, Stocked
    <2> QED
        BY <2>1 DEF NoBufferLeaks, Left
<1> QED
    BY <1>1, OwnerHolds, PTL

(* Between two calls of a host the worker holds what the program placed,   *)
(* and nothing that a dispatch staged.                                     *)
THEOREM SessionDispatch == Spec => []DispatchLeavesNothing
<1>1. OwnerInv => DispatchLeavesNothing
    <2> SUFFICES ASSUME OwnerInv, NEW h \in Hosts, link[h] = "open", doing[h] = "none", serving = h
                 PROVE  {regions[i].base : i \in {j \in DOMAIN regions : regions[j].live}}
                          = Handles(resident[h])
        BY DEF DispatchLeavesNothing, Ready
    <2>1. /\ InTurn(link[h], doing[h], requests[h], replies[h]) /\ Fits(doing[h], staged[h], todo[h])
          /\ Ledger(resident[h], staged[h], Coming(replies[h]), Going(requests[h]), Mine(h))
        BY SoundNow
    <2>2. requests[h] = <<>> /\ replies[h] = <<>> /\ staged[h] = <<>>
        BY <2>1 DEF InTurn, Fits, Calls
    <2>3. Coming(<<>>) = {} /\ Going(<<>>) = {} /\ Range(<<>>) = {} /\ Mine(h) = Sites
        BY SMT DEF Coming, Going, Range, Mine
    <2>4. resident[h] = Sites
        BY <2>1, <2>2, <2>3 DEF Ledger
    <2>5. Handles(Sites) = {regions[i].base : i \in {j \in DOMAIN regions : regions[j].live}}
        <3> DEFINE live == {j \in DOMAIN regions : regions[j].live}
                   site(i) == [handle |-> regions[i].base, buffer |-> regions[i].remote]
        <3>1. \A i : site(i).handle = regions[i].base
            OBVIOUS
        <3>2. Sites = {site(i) : i \in live}
            BY DEF Sites
        <3> HIDE DEF site
        <3> QED
            BY SMT, <3>1, <3>2 DEF Handles
    <2> QED
        BY <2>4, <2>5
<1> QED
    BY <1>1, OwnerHolds, PTL
=============================================================================
