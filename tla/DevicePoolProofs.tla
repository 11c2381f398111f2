-------------------------- MODULE DevicePoolProofs --------------------------
(***************************************************************************)
(* For any number of threads, addresses and sizes, any memory and any      *)
(* capacity: an allocated buffer of the device pool is in one place, and   *)
(* the pool's records are true.                                            *)
(***************************************************************************)
EXTENDS DevicePool, FiniteSetTheorems, TLAPS

\* The first-order prover is the one to try, unless a leaf names another.
USE Zenon

Lists == [Sizes -> Seq(Addrs)]

\* The address p is in the list of the size s, and no list repeats an address.
In(lists, s, p) == \E i \in DOMAIN lists[s] : lists[s][i] = p
Distinct(lists) == \A s \in Sizes : \A i, j \in DOMAIN lists[s] : lists[s][i] = lists[s][j] => i = j

\* push_back, pop_back, the last, the rest after the first, and one buffer alone.
Pushed(lists, l, p) == [lists EXCEPT ![l] = Append(@, p)]
Popped(lists, l) == [lists EXCEPT ![l] = SubSeq(lists[l], 1, Len(lists[l]) - 1)]
Newest(lists, l) == lists[l][Len(lists[l])]
Rest(lists, l) == [lists EXCEPT ![l] = Tail(@)]
Single(l, p) == [Nothing EXCEPT ![l] = <<p>>]

-----------------------------------------------------------------------------
(* What the operations do to a list *)

\* The empty lists of a new pool and of a drained one.
LEMMA NothingIn ==
  /\ Nothing \in Lists
  /\ Distinct(Nothing)
  /\ \A s \in Sizes, p \in Addrs : ~In(Nothing, s, p)
BY SMT DEF Nothing, Lists, Distinct, In

\* Lists with no entry are the empty lists.
LEMMA NothingOnly ==
  ASSUME NEW lists \in Lists, \A s \in Sizes : lists[s] = <<>>
  PROVE  lists = Nothing
BY SMT DEF Lists, Nothing

\* push_back of an address that is not in the list.
LEMMA AppendIn ==
  ASSUME NEW lists \in Lists, NEW l \in Sizes, NEW p \in Addrs, Distinct(lists), ~In(lists, l, p)
  PROVE  /\ Pushed(lists, l, p) \in Lists
         /\ Distinct(Pushed(lists, l, p))
         /\ \A s \in Sizes, q \in Addrs :
              In(Pushed(lists, l, p), s, q) <=> In(lists, s, q) \/ (s = l /\ q = p)
<1>0. PICK new : new = Pushed(lists, l, p)
  OBVIOUS
<1>1. /\ new \in Lists
      /\ Len(new[l]) = Len(lists[l]) + 1
      /\ \A i \in 1..Len(lists[l]) : new[l][i] = lists[l][i]
      /\ new[l][Len(lists[l]) + 1] = p
      /\ \A s \in Sizes : s # l => new[s] = lists[s]
      /\ \A s \in Sizes : lists[s] \in Seq(Addrs) /\ new[s] \in Seq(Addrs)
  BY SMT, <1>0 DEF Lists, Pushed
<1>2. \A s \in Sizes : DOMAIN lists[s] = 1..Len(lists[s]) /\ DOMAIN new[s] = 1..Len(new[s])
  BY SMT, <1>1
<1>3. Len(lists[l]) \in Nat
  BY SMT, <1>1
<1>4. ASSUME NEW s \in Sizes, NEW q \in Addrs
      PROVE  In(new, s, q) <=> In(lists, s, q) \/ (s = l /\ q = p)
  <2>1. CASE s # l
    BY <1>1, <2>1 DEF In
  <2>2. CASE s = l
    <3>1. ASSUME NEW i \in DOMAIN new[l]
          PROVE  (i \in DOMAIN lists[l] /\ new[l][i] = lists[l][i]) \/ new[l][i] = p
      BY SMT, <1>0, <1>1, <1>2, <1>3 DEF Pushed
    <3>2. ASSUME NEW i \in DOMAIN lists[l] PROVE i \in DOMAIN new[l] /\ new[l][i] = lists[l][i]
      BY SMTT(30), <1>1, <1>2, <1>3
    <3>3. \E i \in DOMAIN new[l] : new[l][i] = p
      BY SMT, <1>1, <1>2, <1>3
    <3>4. In(new, l, q) => In(lists, l, q) \/ q = p
      BY <3>1 DEF In
    <3>5. In(lists, l, q) => In(new, l, q)
      BY <3>2 DEF In
    <3> QED
      BY <2>2, <3>3, <3>4, <3>5 DEF In
  <2> QED
    BY <2>1, <2>2
<1>5. ASSUME NEW s \in Sizes, NEW i \in DOMAIN new[s], NEW j \in DOMAIN new[s], new[s][i] = new[s][j]
      PROVE  i = j
  <2>1. CASE s # l
    BY <1>1, <1>5, <2>1 DEF Distinct
  <2>2. CASE s = l
    BY SMT, <1>0, <1>1, <1>2, <1>3, <1>5, <2>2 DEF Distinct, In, Pushed
  <2> QED
    BY <2>1, <2>2
<1> QED
  BY <1>0, <1>1, <1>4, <1>5 DEF Distinct

\* pop_back.
LEMMA FrontIn ==
  ASSUME NEW lists \in Lists, NEW l \in Sizes, Distinct(lists), lists[l] # <<>>
  PROVE  /\ Popped(lists, l) \in Lists /\ Newest(lists, l) \in Addrs
         /\ Distinct(Popped(lists, l))
         /\ In(lists, l, Newest(lists, l))
         /\ \A s \in Sizes, q \in Addrs :
              In(Popped(lists, l), s, q) <=> In(lists, s, q) /\ ~(s = l /\ q = Newest(lists, l))
<1>0. PICK new, p : new = Popped(lists, l) /\ p = Newest(lists, l)
  OBVIOUS
<1>1. /\ new \in Lists
      /\ Len(lists[l]) \in Nat \ {0}
      /\ Len(new[l]) = Len(lists[l]) - 1
      /\ \A i \in 1..(Len(lists[l]) - 1) : new[l][i] = lists[l][i]
      /\ \A s \in Sizes : s # l => new[s] = lists[s]
      /\ \A s \in Sizes : lists[s] \in Seq(Addrs) /\ new[s] \in Seq(Addrs)
      /\ p \in Addrs
  <2>1. lists[l] \in Seq(Addrs) /\ Len(lists[l]) \in Nat \ {0}
    BY SMT DEF Lists
  <2>2. SubSeq(lists[l], 1, Len(lists[l]) - 1) \in Seq(Addrs)
    BY SMT, <2>1
  <2>3. new \in Lists /\ new[l] = SubSeq(lists[l], 1, Len(lists[l]) - 1)
    BY <1>0, <2>2 DEF Lists, Popped
  <2>4. \A s \in Sizes : s # l => new[s] = lists[s]
    BY <1>0 DEF Lists, Popped
  <2>5. Len(new[l]) = Len(lists[l]) - 1 /\ \A i \in 1..(Len(lists[l]) - 1) : new[l][i] = lists[l][i]
    BY SMT, <2>1, <2>3
  <2>6. \A s \in Sizes : lists[s] \in Seq(Addrs) /\ new[s] \in Seq(Addrs)
    BY <2>3 DEF Lists
  <2>7. p \in Addrs
    BY SMT, <1>0, <2>1 DEF Newest
  <2> QED
    BY <2>1, <2>3, <2>4, <2>5, <2>6, <2>7
<1>2. \A s \in Sizes : DOMAIN lists[s] = 1..Len(lists[s]) /\ DOMAIN new[s] = 1..Len(new[s])
  BY SMT, <1>1
<1>3. In(lists, l, p)
  BY SMT, <1>0, <1>1, <1>2 DEF In, Newest
<1>4. ASSUME NEW s \in Sizes, NEW q \in Addrs
      PROVE  In(new, s, q) <=> In(lists, s, q) /\ ~(s = l /\ q = p)
  <2>1. CASE s # l
    BY <1>1, <2>1 DEF In
  <2>2. CASE s = l
    <3>1. ASSUME NEW i \in DOMAIN new[l]
          PROVE  new[l][i] # p /\ i \in DOMAIN lists[l] /\ new[l][i] = lists[l][i]
      BY SMT, <1>0, <1>1, <1>2 DEF Distinct, Newest
    <3>2. ASSUME NEW i \in DOMAIN lists[l], lists[l][i] # p PROVE i \in DOMAIN new[l]
      BY SMT, <1>0, <1>1, <1>2, <3>2 DEF Newest
    <3>3. In(new, l, q) => In(lists, l, q) /\ q # p
      BY <3>1 DEF In
    <3>4. In(lists, l, q) /\ q # p => In(new, l, q)
      <4>1. SUFFICES ASSUME NEW i \in DOMAIN lists[l], lists[l][i] = q, q # p PROVE In(new, l, q)
        BY DEF In
      <4>2. i \in DOMAIN new[l] /\ new[l][i] = lists[l][i]
        BY <3>1, <3>2, <4>1
      <4> QED
        BY <4>1, <4>2 DEF In
    <3> QED
      BY <2>2, <3>3, <3>4
  <2> QED
    BY <2>1, <2>2
<1>5. ASSUME NEW s \in Sizes, NEW i \in DOMAIN new[s], NEW j \in DOMAIN new[s], new[s][i] = new[s][j]
      PROVE  i = j
  <2>1. CASE s # l
    BY <1>1, <1>5, <2>1 DEF Distinct
  <2>2. CASE s = l
    BY SMT, <1>0, <1>1, <1>2, <1>5, <2>2 DEF Distinct, Popped
  <2> QED
    BY <2>1, <2>2
<1> QED
  BY <1>0, <1>1, <1>3, <1>4, <1>5 DEF Distinct

\* The first of a list goes to the driver.
LEMMA TailIn ==
  ASSUME NEW lists \in Lists, NEW l \in Sizes, Distinct(lists), lists[l] # <<>>
  PROVE  /\ Rest(lists, l) \in Lists /\ Head(lists[l]) \in Addrs
         /\ Distinct(Rest(lists, l))
         /\ In(lists, l, Head(lists[l]))
         /\ \A s \in Sizes, q \in Addrs :
              In(Rest(lists, l), s, q) <=> In(lists, s, q) /\ ~(s = l /\ q = Head(lists[l]))
<1>0. PICK new, p : new = Rest(lists, l) /\ p = Head(lists[l])
  OBVIOUS
<1>1. /\ new \in Lists
      /\ Len(lists[l]) \in Nat \ {0}
      /\ Len(new[l]) = Len(lists[l]) - 1
      /\ \A i \in 1..(Len(lists[l]) - 1) : new[l][i] = lists[l][i + 1]
      /\ \A s \in Sizes : s # l => new[s] = lists[s]
      /\ \A s \in Sizes : lists[s] \in Seq(Addrs) /\ new[s] \in Seq(Addrs)
      /\ p \in Addrs
      /\ p = lists[l][1]
  BY SMT, <1>0 DEF Lists, Rest
<1>2. \A s \in Sizes : DOMAIN lists[s] = 1..Len(lists[s]) /\ DOMAIN new[s] = 1..Len(new[s])
  BY SMT, <1>1
<1>3. In(lists, l, p)
  BY SMT, <1>1, <1>2 DEF In
<1>4. ASSUME NEW s \in Sizes, NEW q \in Addrs
      PROVE  In(new, s, q) <=> In(lists, s, q) /\ ~(s = l /\ q = p)
  <2>1. CASE s # l
    BY <1>1, <2>1 DEF In
  <2>2. CASE s = l
    <3>1. ASSUME NEW i \in DOMAIN new[l]
          PROVE  new[l][i] # p /\ i + 1 \in DOMAIN lists[l] /\ new[l][i] = lists[l][i + 1]
      BY SMT, <1>0, <1>1, <1>2 DEF Distinct, Rest
    <3>2. ASSUME NEW i \in DOMAIN lists[l], lists[l][i] # p
          PROVE  i - 1 \in DOMAIN new[l] /\ new[l][i - 1] = lists[l][i]
      BY SMT, <1>0, <1>1, <1>2, <3>2 DEF Rest
    <3>3. In(new, l, q) => In(lists, l, q) /\ q # p
      BY <3>1 DEF In
    <3>4. In(lists, l, q) /\ q # p => In(new, l, q)
      <4>1. SUFFICES ASSUME NEW i \in DOMAIN lists[l], lists[l][i] = q, q # p PROVE In(new, l, q)
        BY DEF In
      <4> QED
        BY <3>2, <4>1 DEF In
    <3> QED
      BY <2>2, <3>3, <3>4
  <2> QED
    BY <2>1, <2>2
<1>5. ASSUME NEW s \in Sizes, NEW i \in DOMAIN new[s], NEW j \in DOMAIN new[s], new[s][i] = new[s][j]
      PROVE  i = j
  <2>1. CASE s # l
    BY <1>1, <1>5, <2>1 DEF Distinct
  <2>2. CASE s = l
    BY SMT, <1>0, <1>1, <1>2, <1>5, <2>2 DEF Distinct, Rest
  <2> QED
    BY <2>1, <2>2
<1> QED
  BY ZenonT(40), <1>0, <1>1, <1>3, <1>4, <1>5 DEF Distinct

\* A single buffer, in lists that are empty.
LEMMA SingleIn ==
  ASSUME NEW l \in Sizes, NEW p \in Addrs
  PROVE  /\ Single(l, p) \in Lists
         /\ Distinct(Single(l, p))
         /\ Head(Single(l, p)[l]) = p
         /\ \A s \in Sizes, q \in Addrs : In(Single(l, p), s, q) <=> s = l /\ q = p
<1>0. PICK new : new = Single(l, p)
  OBVIOUS
<1>1. /\ new \in Lists
      /\ new[l] = <<p>> /\ Head(new[l]) = p
      /\ \A s \in Sizes : s # l => new[s] = <<>>
  <2>1. new = [s \in Sizes |-> IF s = l THEN <<p>> ELSE <<>>]
    BY <1>0 DEF Nothing, Single
  <2>2. <<p>> \in Seq(Addrs) /\ <<>> \in Seq(Addrs) /\ Head(<<p>>) = p
    BY SMT
  <2> QED
    BY <2>1, <2>2 DEF Lists
<1> QED
  <2>1. Distinct(new) /\ \A s \in Sizes, q \in Addrs : In(new, s, q) <=> s = l /\ q = p
    BY SMT, <1>1 DEF Distinct, In
  <2> QED
    BY <1>0, <1>1, <2>1

-----------------------------------------------------------------------------
(* Where an address is *)

Cached(s, p) == In(free_lists_, s, p)
Leaving(t, s, p) == In(taken[t], s, p)
Holds(t, s, p) == Buffer(p, s) \in held[t]

\* The four ways for an address to be: not allocated and nowhere, or allocated
\* with a size and nowhere but in the list, in the hands of the thread that will
\* free it or counts it, or in a DeviceBuffer, of that size.
IsFree(p) ==
  /\ driver[p] = 0
  /\ \A s \in Sizes : ~Cached(s, p) /\ \A t \in Threads : ~Leaving(t, s, p) /\ ~Holds(t, s, p)

IsCached(l, p) ==
  /\ driver[p] = l
  /\ \A s \in Sizes : (Cached(s, p) <=> s = l) /\ \A t \in Threads : ~Leaving(t, s, p) /\ ~Holds(t, s, p)

IsLeaving(u, l, p) ==
  /\ driver[p] = l
  /\ \A s \in Sizes : ~Cached(s, p) /\ \A t \in Threads : (Leaving(t, s, p) <=> t = u /\ s = l)
       /\ ~Holds(t, s, p)

IsHeld(u, l, p) ==
  /\ driver[p] = l
  /\ \A s \in Sizes : ~Cached(s, p) /\ \A t \in Threads : ~Leaving(t, s, p)
       /\ (Holds(t, s, p) <=> t = u /\ s = l)

Placed(p) ==
  \/ IsFree(p)
  \/ \E l \in Sizes : IsCached(l, p)
  \/ \E u \in Threads, l \in Sizes : IsLeaving(u, l, p) \/ IsHeld(u, l, p)

NoRepeats == Distinct(free_lists_) /\ \A t \in Threads : Distinct(taken[t])

\* A thread has buffers to free, or the one that it took from the driver, only
\* at the places of the code where it has.
InHand ==
  \A t \in Threads :
    /\ pc[t] \in {"idle", "alloc", "retry", "drain", "ended", "null"} => taken[t] = Nothing
    /\ pc[t] \in {"alloc", "retry", "count", "drain", "drained"} => bytes[t] \in Sizes
    /\ pc[t] = "count" => \E p \in Addrs : taken[t] = Single(bytes[t], p)

\* The types, without the two counts.
Shapes ==
  /\ free_lists_ \in Lists
  /\ driver \in [Addrs -> Sizes \cup {0}]
  /\ pc \in [Threads -> {"idle", "alloc", "retry", "count", "drain", "drained",
                         "give back", "exit", "ended", "null"}]
  /\ bytes \in [Threads -> Sizes \cup {0}]
  /\ taken \in [Threads -> Lists]
  /\ held \in [Threads -> SUBSET [ptr : Addrs, bytes : Sizes]]

PlaceInv == Shapes /\ NoRepeats /\ InHand /\ \A p \in Addrs : Placed(p)

\* A step leaves the address p where it is.
Same(p) == /\ driver'[p] = driver[p]
           /\ \A s \in Sizes : /\ Cached(s, p)' <=> Cached(s, p)
                               /\ \A t \in Threads : /\ Leaving(t, s, p)' <=> Leaving(t, s, p)
                                                     /\ Holds(t, s, p)' <=> Holds(t, s, p)

\* An address that a step does not touch stays in its one place.
LEMMA SamePlace ==
  ASSUME NEW p \in Addrs, Placed(p), Same(p)
  PROVE  Placed(p)'
<1>1. CASE IsFree(p)
  BY <1>1 DEF Placed, Same, IsFree
<1>2. ASSUME NEW l \in Sizes, IsCached(l, p) PROVE IsCached(l, p)'
  BY <1>2 DEF Same, IsCached
<1>3. ASSUME NEW u \in Threads, NEW l \in Sizes, IsLeaving(u, l, p) PROVE IsLeaving(u, l, p)'
  BY <1>3 DEF Same, IsLeaving
<1>4. ASSUME NEW u \in Threads, NEW l \in Sizes, IsHeld(u, l, p) PROVE IsHeld(u, l, p)'
  BY <1>4 DEF Same, IsHeld
<1> QED
  BY <1>1, <1>2, <1>3, <1>4 DEF Placed

\* An address that is seen in a place is in no other.
LEMMA ThePlace ==
  ASSUME NEW p \in Addrs, NEW t \in Threads, NEW s \in Sizes, Placed(p)
  PROVE  /\ Cached(s, p) => IsCached(s, p)
         /\ Leaving(t, s, p) => IsLeaving(t, s, p)
         /\ Holds(t, s, p) => IsHeld(t, s, p)
         /\ driver[p] = 0 => IsFree(p)
<1>1. CASE IsFree(p)
  BY <1>1 DEF IsFree
<1>2. ASSUME NEW l \in Sizes, IsCached(l, p)
      PROVE  Cached(s, p) => IsCached(s, p)
  BY <1>2 DEF IsCached
<1>3. ASSUME NEW l \in Sizes, IsCached(l, p)
      PROVE  ~Leaving(t, s, p) /\ ~Holds(t, s, p) /\ driver[p] # 0
  BY SMT, <1>3, PoolAssumption DEF IsCached
<1>4. ASSUME NEW u \in Threads, NEW l \in Sizes, IsLeaving(u, l, p)
      PROVE  ~Cached(s, p) /\ ~Holds(t, s, p) /\ (Leaving(t, s, p) => IsLeaving(t, s, p)) /\ driver[p] # 0
  <2>1. l # 0
    BY SMT, PoolAssumption
  <2>2. Leaving(t, s, p) => t = u /\ s = l
    BY <1>4 DEF IsLeaving
  <2> QED
    BY <1>4, <2>1, <2>2 DEF IsLeaving
<1>5. ASSUME NEW u \in Threads, NEW l \in Sizes, IsHeld(u, l, p)
      PROVE  ~Cached(s, p) /\ ~Leaving(t, s, p) /\ (Holds(t, s, p) => IsHeld(t, s, p)) /\ driver[p] # 0
  <2>1. l # 0
    BY SMT, PoolAssumption
  <2>2. Holds(t, s, p) => t = u /\ s = l
    BY <1>5 DEF IsHeld
  <2> QED
    BY <1>5, <2>1, <2>2 DEF IsHeld
<1> QED
  BY <1>1, <1>2, <1>3, <1>4, <1>5 DEF Placed, IsFree

\* The parts of the state that decide where the addresses are.
LEMMA SameRecords ==
  ASSUME free_lists_' = free_lists_, taken' = taken, held' = held, driver' = driver,
         NEW p \in Addrs
  PROVE  Same(p)
BY DEF Same, Cached, Leaving, Holds

-----------------------------------------------------------------------------
(* Each step keeps every address in one place *)

\* A DeviceBuffer is its address and its size.
LEMMA Buffers ==
  /\ \A p \in Addrs, s \in Sizes : /\ Buffer(p, s) \in [ptr : Addrs, bytes : Sizes]
                                  /\ Buffer(p, s).ptr = p /\ Buffer(p, s).bytes = s
  /\ \A b \in [ptr : Addrs, bytes : Sizes] : b = Buffer(b.ptr, b.bytes) /\ b.ptr \in Addrs
       /\ b.bytes \in Sizes
BY SMT DEF Buffer

\* A DeviceBuffer is its address and its size.
LEMMA SameBuffer ==
  ASSUME NEW p \in Addrs, NEW q \in Addrs, NEW s \in Sizes, NEW l \in Sizes
  PROVE  Buffer(q, l) = Buffer(p, s) <=> l = s /\ q = p
BY SMT DEF Buffer

\* A function changed at one argument.
LEMMA Updated ==
  ASSUME NEW A, NEW B, NEW f \in [A -> B], NEW a \in A, NEW v \in B, NEW g, g = [f EXCEPT ![a] = v]
  PROVE  g \in [A -> B] /\ g[a] = v /\ \A c \in A : c # a => g[c] = f[c]
OBVIOUS

\* A step of one thread that leaves its lists alone, to a place where they may be
\* what they are, keeps them right.
LEMMA HandKept ==
  ASSUME Shapes, InHand, NEW t \in Threads, NEW place,
         taken' = taken, pc' = [pc EXCEPT ![t] = place], bytes' = bytes,
         place \in {"idle", "drain", "null", "retry"}, taken[t] = Nothing,
         place \in {"drain", "retry"} => bytes[t] \in Sizes
  PROVE  InHand'
<1>1. pc'[t] = place /\ \A u \in Threads : u # t => pc'[u] = pc[u]
  BY DEF Shapes
<1>2. place # "count" /\ place # "alloc" /\ place # "drained"
  BY SMT
<1> QED
  BY <1>1, <1>2 DEF InHand

\* A step that only moves a thread whose lists are empty.
LEMMA MoveStep ==
  ASSUME PlaceInv, NEW t \in Threads, NEW place, pc' = [pc EXCEPT ![t] = place],
         free_lists_' = free_lists_, taken' = taken, held' = held, driver' = driver, bytes' = bytes,
         place \in {"idle", "drain", "null", "retry"}, taken[t] = Nothing,
         place \in {"drain", "retry"} => bytes[t] \in Sizes
  PROVE  PlaceInv'
<1>1. Shapes /\ NoRepeats /\ InHand /\ \A p \in Addrs : Placed(p)
  BY DEF PlaceInv
<1>2. Shapes'
  <2>1. pc' \in [Threads -> {"idle", "alloc", "retry", "count", "drain", "drained",
                            "give back", "exit", "ended", "null"}]
    BY <1>1, Updated DEF Shapes
  <2> QED
    BY <1>1, <2>1 DEF Shapes
<1>3. InHand'
  BY <1>1, HandKept
<1>4. NoRepeats'
  BY <1>1 DEF NoRepeats
<1>5. \A p \in Addrs : Placed(p)'
  BY <1>1, SamePlace, SameRecords
<1> QED
  BY <1>2, <1>3, <1>4, <1>5 DEF PlaceInv

\* acquire takes the newest buffer of the size.
LEMMA HitStep ==
  ASSUME PlaceInv, NEW t \in Threads, NEW s \in Sizes, Hit(t, s)
  PROVE  PlaceInv'
<1>0. Shapes /\ NoRepeats /\ InHand /\ \A p \in Addrs : Placed(p)
  BY DEF PlaceInv
<1>1. PICK p : p = Newest(free_lists_, s)
  OBVIOUS
<1>2. /\ free_lists_[s] # <<>>
      /\ held' = [held EXCEPT ![t] = held[t] \cup {Buffer(p, s)}]
      /\ free_lists_' = Popped(free_lists_, s)
      /\ driver' = driver /\ pc' = pc /\ bytes' = bytes /\ taken' = taken
  BY <1>1 DEF Hit, Fits, Newest, Popped
<1>3. /\ free_lists_' \in Lists /\ p \in Addrs /\ Distinct(free_lists_') /\ In(free_lists_, s, p)
      /\ \A l \in Sizes, q \in Addrs : In(free_lists_', l, q) <=> In(free_lists_, l, q) /\ ~(l = s /\ q = p)
  BY <1>0, <1>1, <1>2, FrontIn DEF Shapes, NoRepeats
<1>4. /\ held' \in [Threads -> SUBSET [ptr : Addrs, bytes : Sizes]]
      /\ held'[t] = held[t] \cup {Buffer(p, s)}
      /\ \A u \in Threads : u # t => held'[u] = held[u]
  <2>1. held[t] \cup {Buffer(p, s)} \in SUBSET [ptr : Addrs, bytes : Sizes]
    <3>1. Buffer(p, s) \in [ptr : Addrs, bytes : Sizes] /\ held[t] \in SUBSET [ptr : Addrs, bytes : Sizes]
      BY <1>0, <1>3, Buffers DEF Shapes
    <3> QED
      BY <3>1
  <2> QED
    BY <1>0, <1>2, <2>1, Updated DEF Shapes
<1>5. \A u \in Threads, l \in Sizes, q \in Addrs : Holds(u, l, q)' <=>
        Holds(u, l, q) \/ (u = t /\ l = s /\ q = p)
  <2>1. ASSUME NEW l \in Sizes, NEW q \in Addrs PROVE Buffer(q, l) = Buffer(p, s) <=> l = s /\ q = p
    BY <1>3, SameBuffer
  <2> QED
    BY <1>4, <2>1 DEF Holds
<1>6. \A u \in Threads, l \in Sizes, q \in Addrs : Leaving(u, l, q)' <=> Leaving(u, l, q)
  BY <1>2 DEF Leaving
<1>7. ASSUME NEW q \in Addrs PROVE Placed(q)'
  <2>1. CASE q # p
    BY <1>0, <1>2, <1>3, <1>5, <1>6, <2>1, SamePlace DEF Same, Cached
  <2>2. CASE q = p
    <3>1. IsCached(s, p)
      BY <1>0, <1>3, ThePlace DEF Cached
    <3>2. IsHeld(t, s, p)'
      BY <1>2, <1>3, <1>5, <1>6, <3>1 DEF IsCached, IsHeld, Cached
    <3> QED
      BY <1>3, <2>2, <3>2 DEF Placed
  <2> QED
    BY <2>1, <2>2
<1>8. Shapes'
  BY <1>0, <1>2, <1>3, <1>4 DEF Shapes
<1>9. NoRepeats' /\ InHand'
  BY <1>0, <1>2, <1>3 DEF NoRepeats, InHand
<1> QED
  BY <1>7, <1>8, <1>9 DEF PlaceInv

\* acquire finds no buffer and goes to the driver.
LEMMA MissStep ==
  ASSUME PlaceInv, NEW t \in Threads, NEW s \in Sizes, pc[t] = "idle", Miss(t, s)
  PROVE  PlaceInv'
<1>0. Shapes /\ NoRepeats /\ InHand /\ \A p \in Addrs : Placed(p)
  BY DEF PlaceInv
<1>1. /\ bytes' = [bytes EXCEPT ![t] = s] /\ pc' = [pc EXCEPT ![t] = "alloc"]
      /\ free_lists_' = free_lists_ /\ taken' = taken /\ held' = held /\ driver' = driver
  BY DEF Miss, Goto, records
<1>2. Shapes'
  <2>1. bytes' \in [Threads -> Sizes \cup {0}]
    BY <1>0, <1>1, Updated DEF Shapes
  <2>2. pc' \in [Threads -> {"idle", "alloc", "retry", "count", "drain", "drained",
                            "give back", "exit", "ended", "null"}]
    BY <1>0, <1>1, Updated DEF Shapes
  <2> QED
    BY <1>0, <1>1, <2>1, <2>2 DEF Shapes
<1>3. pc'[t] = "alloc" /\ bytes'[t] = s /\ \A u \in Threads : u # t => pc'[u] = pc[u] /\ bytes'[u] = bytes[u]
  BY <1>0, <1>1 DEF Shapes
<1>4. InHand'
  <2>1. taken[t] = Nothing
    BY <1>0 DEF InHand
  <2>2. "alloc" # "count"
    OBVIOUS
  <2> QED
    BY <1>0, <1>1, <1>3, <2>1, <2>2 DEF InHand
<1>5. NoRepeats'
  BY <1>0, <1>1 DEF NoRepeats
<1>6. \A p \in Addrs : Placed(p)'
  BY <1>0, <1>1, SamePlace, SameRecords
<1> QED
  BY <1>2, <1>4, <1>5, <1>6 DEF PlaceInv

\* The driver gives a free address.
LEMMA AllocStep ==
  ASSUME PlaceInv, NEW t \in Threads, alloc(t)
  PROVE  PlaceInv'
<1>0. Shapes /\ NoRepeats /\ InHand /\ \A p \in Addrs : Placed(p)
  BY DEF PlaceInv
<1>1. PICK p \in Addrs : /\ driver[p] = 0
                         /\ driver' = [driver EXCEPT ![p] = bytes[t]]
                         /\ taken' = [taken EXCEPT ![t][bytes[t]] = <<p>>]
  BY DEF alloc
<1>2. /\ pc[t] \in {"alloc", "retry"} /\ pc' = [pc EXCEPT ![t] = "count"]
      /\ free_lists_' = free_lists_ /\ bytes' = bytes /\ held' = held
  BY DEF alloc, Goto, records
<1>3. taken[t] = Nothing /\ bytes[t] \in Sizes
  BY <1>0, <1>2 DEF InHand
<1>4. PICK s \in Sizes : s = bytes[t]
  BY <1>3
<1>5. /\ taken' \in [Threads -> Lists] /\ taken'[t] = Single(s, p)
      /\ \A u \in Threads : u # t => taken'[u] = taken[u]
  <2>1. taken' = [taken EXCEPT ![t] = Single(s, p)]
    BY <1>1, <1>3, <1>4 DEF Single
  <2>2. Single(s, p) \in Lists
    BY SingleIn
  <2> QED
    BY <1>0, <2>1, <2>2, Updated DEF Shapes
<1>6. /\ driver' \in [Addrs -> Sizes \cup {0}] /\ driver'[p] = s
      /\ \A q \in Addrs : q # p => driver'[q] = driver[q]
  BY <1>0, <1>1, <1>4, Updated DEF Shapes
<1>7. /\ pc' \in [Threads -> {"idle", "alloc", "retry", "count", "drain", "drained",
                              "give back", "exit", "ended", "null"}]
      /\ pc'[t] = "count"
      /\ \A u \in Threads : u # t => pc'[u] = pc[u]
  BY <1>0, <1>2, Updated DEF Shapes
<1>8. \A u \in Threads, l \in Sizes, q \in Addrs : Leaving(u, l, q)' <=>
        Leaving(u, l, q) \/ (u = t /\ l = s /\ q = p)
  <2>1. \A l \in Sizes, q \in Addrs : In(Single(s, p), l, q) <=> l = s /\ q = p
    BY SingleIn
  <2>2. \A l \in Sizes, q \in Addrs : ~In(taken[t], l, q)
    BY <1>3, NothingIn
  <2> QED
    BY <1>5, <2>1, <2>2 DEF Leaving
<1>9. \A l \in Sizes, q \in Addrs : /\ Cached(l, q)' <=> Cached(l, q)
                                    /\ \A u \in Threads : Holds(u, l, q)' <=> Holds(u, l, q)
  BY <1>2 DEF Cached, Holds
<1>10. ASSUME NEW q \in Addrs PROVE Placed(q)'
  <2>1. CASE q # p
    BY <1>0, <1>6, <1>8, <1>9, <2>1, SamePlace DEF Same
  <2>2. CASE q = p
    <3>1. IsFree(p)
      BY <1>0, <1>1, <1>4, ThePlace
    <3>2. IsLeaving(t, s, p)'
      BY <1>6, <1>8, <1>9, <3>1 DEF IsFree, IsLeaving
    <3> QED
      BY <2>2, <3>2 DEF Placed
  <2> QED
    BY <2>1, <2>2
<1>11. Shapes'
  BY <1>0, <1>2, <1>5, <1>6, <1>7 DEF Shapes
<1>12. NoRepeats'
  <2>1. Distinct(taken'[t])
    BY ZenonT(40), <1>5, SingleIn
  <2> QED
    BY <1>0, <1>2, <1>5, <2>1 DEF NoRepeats
<1>13. InHand'
  <2>1. ASSUME NEW u \in Threads, u # t
        PROVE  taken'[u] = taken[u] /\ pc'[u] = pc[u] /\ bytes'[u] = bytes[u]
    BY <1>2, <1>5, <1>7, <2>1
  <2>2. \E q \in Addrs : taken'[t] = Single(bytes'[t], q)
    BY <1>2, <1>4, <1>5
  <2>3. "count" # "idle" /\ "count" # "alloc" /\ "count" # "retry" /\ "count" # "drain"
          /\ "count" # "ended" /\ "count" # "null"
    OBVIOUS
  <2> QED
    BY ZenonT(40), <1>0, <1>2, <1>3, <1>7, <2>1, <2>2, <2>3 DEF InHand
<1> QED
  BY <1>10, <1>11, <1>12, <1>13 DEF PlaceInv

\* The driver has no room.
LEMMA NoRoomStep ==
  ASSUME PlaceInv, NEW t \in Threads, no_room(t)
  PROVE  PlaceInv'
<1>1. /\ pc[t] \in {"alloc", "retry"} /\ pc' = [pc EXCEPT ![t] = AfterFailure(pc[t])]
      /\ free_lists_' = free_lists_ /\ taken' = taken /\ held' = held /\ driver' = driver /\ bytes' = bytes
  BY DEF no_room, Goto, records
<1>2. AfterFailure(pc[t]) \in {"idle", "drain", "null", "retry"}
  BY DEF AfterFailure
<1>3. taken[t] = Nothing /\ bytes[t] \in Sizes
  BY <1>1 DEF PlaceInv, InHand
<1> QED
  BY <1>1, <1>2, <1>3, MoveStep

\* The lists of a thread are empty.
LEMMA FreedStep ==
  ASSUME PlaceInv, NEW t \in Threads, freed(t)
  PROVE  PlaceInv'
<1>1. PICK place : place = IF pc[t] = "drained" THEN "retry" ELSE "idle"
  OBVIOUS
<1>2. /\ taken[t] = Nothing /\ pc' = [pc EXCEPT ![t] = place]
      /\ free_lists_' = free_lists_ /\ taken' = taken /\ held' = held /\ driver' = driver /\ bytes' = bytes
  BY <1>1 DEF freed, Goto, records
<1>3. place \in {"idle", "drain", "null", "retry"}
  BY <1>1
<1>4. place \in {"drain", "retry"} => bytes[t] \in Sizes
  <2>1. place \in {"drain", "retry"} => pc[t] = "drained"
    BY <1>1
  <2> QED
    BY <2>1 DEF PlaceInv, InHand
<1> QED
  BY <1>2, <1>3, <1>4, MoveStep

\* The new buffer is the caller's.
LEMMA CountStep ==
  ASSUME PlaceInv, NEW t \in Threads, pc[t] = "count", CallerHas(t), Goto(t, "idle"),
         free_lists_' = free_lists_, driver' = driver, bytes' = bytes
  PROVE  PlaceInv'
<1>0. Shapes /\ NoRepeats /\ InHand /\ \A p \in Addrs : Placed(p)
  BY DEF PlaceInv
<1>1. PICK s \in Sizes : s = bytes[t]
  BY <1>0 DEF InHand
<1>2. PICK p \in Addrs : taken[t] = Single(s, p)
  BY <1>0, <1>1 DEF InHand
<1>3. /\ held' = [held EXCEPT ![t] = held[t] \cup {Buffer(p, s)}]
      /\ taken' = [taken EXCEPT ![t] = Nothing]
      /\ pc' = [pc EXCEPT ![t] = "idle"]
  <2>1. Head(taken[t][bytes[t]]) = p
    <3>1. Head(Single(s, p)[s]) = p
      BY SingleIn
    <3> QED
      BY <1>1, <1>2, <3>1
  <2> QED
    BY <1>1, <2>1 DEF CallerHas, Goto
<1>4. /\ held' \in [Threads -> SUBSET [ptr : Addrs, bytes : Sizes]]
      /\ held'[t] = held[t] \cup {Buffer(p, s)}
      /\ \A u \in Threads : u # t => held'[u] = held[u]
  <2>1. held[t] \cup {Buffer(p, s)} \in SUBSET [ptr : Addrs, bytes : Sizes]
    <3>1. Buffer(p, s) \in [ptr : Addrs, bytes : Sizes] /\ held[t] \in SUBSET [ptr : Addrs, bytes : Sizes]
      BY <1>0, Buffers DEF Shapes
    <3> QED
      BY <3>1
  <2> QED
    BY <1>0, <1>3, <2>1, Updated DEF Shapes
<1>5. /\ taken' \in [Threads -> Lists] /\ taken'[t] = Nothing
      /\ \A u \in Threads : u # t => taken'[u] = taken[u]
  BY <1>0, <1>3, NothingIn, Updated DEF Shapes
<1>6. /\ pc' \in [Threads -> {"idle", "alloc", "retry", "count", "drain", "drained",
                              "give back", "exit", "ended", "null"}]
      /\ pc'[t] = "idle"
      /\ \A u \in Threads : u # t => pc'[u] = pc[u]
  BY <1>0, <1>3, Updated DEF Shapes
<1>7. \A u \in Threads, l \in Sizes, q \in Addrs : Holds(u, l, q)' <=>
        Holds(u, l, q) \/ (u = t /\ l = s /\ q = p)
  <2>1. ASSUME NEW l \in Sizes, NEW q \in Addrs PROVE Buffer(q, l) = Buffer(p, s) <=> l = s /\ q = p
    BY SameBuffer
  <2> QED
    BY <1>4, <2>1 DEF Holds
<1>8. \A u \in Threads, l \in Sizes, q \in Addrs :
        /\ u # t => (Leaving(u, l, q)' <=> Leaving(u, l, q))
        /\ ~Leaving(t, l, q)'
        /\ Leaving(t, l, q) <=> l = s /\ q = p
  <2>1. \A l \in Sizes, q \in Addrs : In(Single(s, p), l, q) <=> l = s /\ q = p
    BY SingleIn
  <2> QED
    BY <1>2, <1>5, <2>1, NothingIn DEF Leaving
<1>9. \A l \in Sizes, q \in Addrs : Cached(l, q)' <=> Cached(l, q)
  BY DEF Cached
<1>10. ASSUME NEW q \in Addrs PROVE Placed(q)'
  <2>1. CASE q # p
    BY <1>0, <1>7, <1>8, <1>9, <2>1, SamePlace DEF Same
  <2>2. CASE q = p
    <3>1. IsLeaving(t, s, p)
      BY <1>0, <1>8, ThePlace
    <3>2. IsHeld(t, s, p)'
      BY ZenonT(40), <1>7, <1>8, <1>9, <3>1 DEF IsHeld, IsLeaving
    <3> QED
      BY <2>2, <3>2 DEF Placed
  <2> QED
    BY <2>1, <2>2
<1>11. Shapes'
  BY <1>0, <1>4, <1>5, <1>6 DEF Shapes
<1>12. NoRepeats'
  BY <1>0, <1>5, NothingIn DEF NoRepeats
<1>13. InHand'
  <2>1. "idle" # "alloc" /\ "idle" # "retry" /\ "idle" # "count" /\ "idle" # "drain" /\ "idle" # "drained"
    OBVIOUS
  <2> QED
    BY <1>0, <1>5, <1>6, <2>1 DEF InHand
<1> QED
  BY <1>10, <1>11, <1>12, <1>13 DEF PlaceInv

\* The end of a DeviceBuffer: what both ways to leave it have in common.
LEMMA LetGo ==
  ASSUME Shapes, NEW t \in Threads, NEW b \in held[t], held' = [held EXCEPT ![t] = @ \ {b}]
  PROVE  /\ b \in [ptr : Addrs, bytes : Sizes] /\ b.ptr \in Addrs /\ b.bytes \in Sizes
         /\ Holds(t, b.bytes, b.ptr)
         /\ held' \in [Threads -> SUBSET [ptr : Addrs, bytes : Sizes]]
         /\ \A u \in Threads, l \in Sizes, q \in Addrs :
              Holds(u, l, q)' <=> Holds(u, l, q) /\ ~(u = t /\ l = b.bytes /\ q = b.ptr)
<1>1. b \in [ptr : Addrs, bytes : Sizes]
  BY DEF Shapes
<1>2. b = Buffer(b.ptr, b.bytes) /\ b.ptr \in Addrs /\ b.bytes \in Sizes
  BY <1>1, Buffers
<1>3. PICK p \in Addrs, s \in Sizes : p = b.ptr /\ s = b.bytes /\ b = Buffer(p, s)
  BY <1>2
<1>4. /\ held' \in [Threads -> SUBSET [ptr : Addrs, bytes : Sizes]]
      /\ held'[t] = held[t] \ {b}
      /\ \A u \in Threads : u # t => held'[u] = held[u]
  <2>1. held[t] \ {b} \in SUBSET [ptr : Addrs, bytes : Sizes]
    BY DEF Shapes
  <2> QED
    BY <2>1, Updated DEF Shapes
<1>5. ASSUME NEW l \in Sizes, NEW q \in Addrs PROVE Buffer(q, l) = b <=> l = s /\ q = p
  <2>1. b = Buffer(p, s)
    BY <1>3
  <2>2. Buffer(q, l) = Buffer(p, s) <=> l = s /\ q = p
    BY SameBuffer
  <2> QED
    BY <2>1, <2>2
<1>6. \A u \in Threads, l \in Sizes, q \in Addrs : Holds(u, l, q)' <=>
        Holds(u, l, q) /\ ~(u = t /\ l = s /\ q = p)
  BY <1>4, <1>5 DEF Holds
<1> QED
  BY <1>1, <1>2, <1>3, <1>4, <1>6 DEF Holds

\* release keeps the buffer.
LEMMA KeepStep ==
  ASSUME PlaceInv, NEW t \in Threads, NEW b \in held[t], held' = [held EXCEPT ![t] = @ \ {b}],
         free_lists_' = [free_lists_ EXCEPT ![b.bytes] = Append(@, b.ptr)],
         pc' = pc, taken' = taken, driver' = driver, bytes' = bytes
  PROVE  PlaceInv'
<1>0. Shapes /\ NoRepeats /\ InHand /\ \A p \in Addrs : Placed(p)
  BY DEF PlaceInv
<1>1. PICK p \in Addrs, s \in Sizes :
        /\ Holds(t, s, p)
        /\ \A u \in Threads, l \in Sizes, q \in Addrs : Holds(u, l, q)' <=>
             Holds(u, l, q) /\ ~(u = t /\ l = s /\ q = p)
        /\ free_lists_' = Pushed(free_lists_, s, p)
  <2>1. free_lists_' = Pushed(free_lists_, b.bytes, b.ptr)
    BY DEF Pushed
  <2> QED
    BY <1>0, <2>1, LetGo
<1>2. held' \in [Threads -> SUBSET [ptr : Addrs, bytes : Sizes]]
  BY <1>0, LetGo
<1>3. IsHeld(t, s, p)
  BY <1>0, <1>1, ThePlace
<1>4. free_lists_ \in Lists /\ Distinct(free_lists_) /\ ~In(free_lists_, s, p)
  BY <1>0, <1>3 DEF Shapes, NoRepeats, IsHeld, Cached
<1>5. /\ free_lists_' \in Lists /\ Distinct(free_lists_')
      /\ \A l \in Sizes, q \in Addrs : In(free_lists_', l, q) <=> In(free_lists_, l, q) \/ (l = s /\ q = p)
  <2>1. /\ Pushed(free_lists_, s, p) \in Lists /\ Distinct(Pushed(free_lists_, s, p))
        /\ \A l \in Sizes, q \in Addrs :
             In(Pushed(free_lists_, s, p), l, q) <=> In(free_lists_, l, q) \/ (l = s /\ q = p)
    BY <1>4, AppendIn
  <2> QED
    BY <1>1, <2>1
<1>6. \A u \in Threads, l \in Sizes, q \in Addrs : Leaving(u, l, q)' <=> Leaving(u, l, q)
  BY DEF Leaving
<1>7. ASSUME NEW q \in Addrs PROVE Placed(q)'
  <2>1. CASE q # p
    BY <1>0, <1>1, <1>5, <1>6, <2>1, SamePlace DEF Same, Cached
  <2>2. CASE q = p
    <3>1. IsCached(s, p)'
      BY <1>1, <1>3, <1>5, <1>6 DEF IsCached, IsHeld, Cached
    <3> QED
      BY <2>2, <3>1 DEF Placed
  <2> QED
    BY <2>1, <2>2
<1>8. Shapes'
  BY <1>0, <1>2, <1>5 DEF Shapes
<1>9. NoRepeats' /\ InHand'
  BY <1>0, <1>5 DEF NoRepeats, InHand
<1> QED
  BY <1>7, <1>8, <1>9 DEF PlaceInv

\* release does not keep it, and will free it.
LEMMA GiveBackStep ==
  ASSUME PlaceInv, NEW t \in Threads, pc[t] = "idle", NEW b \in held[t], held' = [held EXCEPT ![t] = @ \ {b}],
         taken' = [taken EXCEPT ![t][b.bytes] = <<b.ptr>>], Goto(t, "give back"),
         free_lists_' = free_lists_, driver' = driver, bytes' = bytes
  PROVE  PlaceInv'
<1>0. Shapes /\ NoRepeats /\ InHand /\ \A p \in Addrs : Placed(p)
  BY DEF PlaceInv
<1>1. taken[t] = Nothing
  BY <1>0 DEF InHand
<1>2. PICK p \in Addrs, s \in Sizes :
        /\ Holds(t, s, p)
        /\ \A u \in Threads, l \in Sizes, q \in Addrs : Holds(u, l, q)' <=>
             Holds(u, l, q) /\ ~(u = t /\ l = s /\ q = p)
        /\ taken' = [taken EXCEPT ![t] = Single(s, p)]
  <2>1. taken' = [taken EXCEPT ![t] = Single(b.bytes, b.ptr)]
    BY <1>1 DEF Single
  <2> QED
    BY <1>0, <2>1, LetGo
<1>3. held' \in [Threads -> SUBSET [ptr : Addrs, bytes : Sizes]]
  BY <1>0, LetGo
<1>4. IsHeld(t, s, p)
  BY <1>0, <1>2, ThePlace
<1>5. /\ taken' \in [Threads -> Lists] /\ taken'[t] = Single(s, p)
      /\ \A u \in Threads : u # t => taken'[u] = taken[u]
  <2>1. Single(s, p) \in Lists
    BY SingleIn
  <2>2. taken' = [taken EXCEPT ![t] = Single(s, p)] /\ taken \in [Threads -> Lists]
    BY <1>0, <1>2 DEF Shapes
  <2>3. ASSUME NEW f, f = [taken EXCEPT ![t] = Single(s, p)]
        PROVE  /\ f \in [Threads -> Lists] /\ f[t] = Single(s, p)
               /\ \A u \in Threads : u # t => f[u] = taken[u]
    BY <2>1, <2>2, <2>3, Updated
  <2> QED
    BY <2>2, <2>3
<1>6. /\ pc' \in [Threads -> {"idle", "alloc", "retry", "count", "drain", "drained",
                              "give back", "exit", "ended", "null"}]
      /\ pc'[t] = "give back"
      /\ \A u \in Threads : u # t => pc'[u] = pc[u]
  BY <1>0, Updated DEF Shapes, Goto
<1>7. \A u \in Threads, l \in Sizes, q \in Addrs : Leaving(u, l, q)' <=>
        Leaving(u, l, q) \/ (u = t /\ l = s /\ q = p)
  <2>1. \A l \in Sizes, q \in Addrs : In(Single(s, p), l, q) <=> l = s /\ q = p
    BY SingleIn
  <2>2. \A l \in Sizes, q \in Addrs : ~In(taken[t], l, q)
    BY <1>1, NothingIn
  <2> QED
    BY ZenonT(40), <1>5, <2>1, <2>2 DEF Leaving
<1>8. \A l \in Sizes, q \in Addrs : Cached(l, q)' <=> Cached(l, q)
  BY DEF Cached
<1>9. ASSUME NEW q \in Addrs PROVE Placed(q)'
  <2>1. CASE q # p
    BY <1>0, <1>2, <1>7, <1>8, <2>1, SamePlace DEF Same
  <2>2. CASE q = p
    <3>1. IsLeaving(t, s, p)'
      BY ZenonT(40), <1>2, <1>4, <1>7, <1>8 DEF IsHeld, IsLeaving
    <3> QED
      BY <2>2, <3>1 DEF Placed
  <2> QED
    BY <2>1, <2>2
<1>10. Shapes'
  BY <1>0, <1>3, <1>5, <1>6 DEF Shapes
<1>11. NoRepeats'
  <2>1. Distinct(Single(s, p))
    BY SingleIn
  <2> QED
    BY <1>0, <1>5, <2>1 DEF NoRepeats
<1>12. InHand'
  <2>1. "give back" \notin {"idle", "alloc", "retry", "drain", "ended", "null", "count", "drained"}
    OBVIOUS
  <2> QED
    BY <1>0, <1>5, <1>6, <2>1 DEF InHand
<1> QED
  BY <1>9, <1>10, <1>11, <1>12 DEF PlaceInv

\* What a drain does, by the thread t.
LEMMA DrainPlaces ==
  ASSUME PlaceInv, NEW t \in Threads, taken[t] = Nothing, Drain(t)
  PROVE  /\ free_lists_' \in Lists /\ Distinct(free_lists_')
         /\ taken' \in [Threads -> Lists] /\ \A u \in Threads : Distinct(taken'[u])
         /\ \A u \in Threads : u # t => taken'[u] = taken[u]
         /\ \A q \in Addrs : Placed(q)'
<1>0. Shapes /\ NoRepeats /\ \A p \in Addrs : Placed(p)
  BY DEF PlaceInv
<1>1. /\ taken' = [taken EXCEPT ![t] = free_lists_] /\ free_lists_' = Nothing
      /\ driver' = driver /\ held' = held
  BY DEF Drain
<1>2. free_lists_ \in Lists /\ Distinct(free_lists_) /\ taken \in [Threads -> Lists]
  BY <1>0 DEF Shapes, NoRepeats
<1>3. /\ taken' \in [Threads -> Lists] /\ taken'[t] = free_lists_
      /\ \A u \in Threads : u # t => taken'[u] = taken[u]
  BY <1>1, <1>2, Updated
<1>4. \A l \in Sizes, q \in Addrs :
        /\ ~Cached(l, q)' /\ ~Leaving(t, l, q) /\ (Leaving(t, l, q)' <=> Cached(l, q))
        /\ \A u \in Threads : /\ u # t => (Leaving(u, l, q)' <=> Leaving(u, l, q))
                              /\ Holds(u, l, q)' <=> Holds(u, l, q)
  BY <1>1, <1>3, NothingIn DEF Cached, Leaving, Holds
<1>5. ASSUME NEW q \in Addrs PROVE Placed(q)'
  <2>1. ASSUME NEW l \in Sizes, Cached(l, q) PROVE Placed(q)'
    <3>1. IsCached(l, q)
      BY <1>0, <2>1, ThePlace
    <3>2. IsLeaving(t, l, q)'
      BY <1>1, <1>4, <3>1 DEF IsCached, IsLeaving
    <3> QED
      BY <3>2 DEF Placed
  <2>2. CASE \A l \in Sizes : ~Cached(l, q)
    <3>1. Same(q)
      BY <1>1, <1>4, <2>2 DEF Same
    <3> QED
      BY <1>0, <3>1, SamePlace
  <2> QED
    BY <2>1, <2>2
<1>6. \A u \in Threads : Distinct(taken'[u])
  BY <1>0, <1>2, <1>3 DEF NoRepeats
<1> QED
  BY <1>1, <1>3, <1>5, <1>6, NothingIn

\* acquire drains the pool after a failure.
LEMMA DrainStep ==
  ASSUME PlaceInv, NEW t \in Threads, drain(t)
  PROVE  PlaceInv'
<1>1. Shapes /\ InHand
  BY DEF PlaceInv
<1>2. /\ pc[t] = "drain" /\ Drain(t) /\ pc' = [pc EXCEPT ![t] = "drained"]
      /\ driver' = driver /\ held' = held /\ bytes' = bytes
  BY DEF drain, Drain, Goto
<1>3. taken[t] = Nothing /\ bytes[t] \in Sizes
  BY <1>1, <1>2 DEF InHand
<1>4. /\ free_lists_' \in Lists /\ Distinct(free_lists_')
      /\ taken' \in [Threads -> Lists] /\ \A u \in Threads : Distinct(taken'[u])
      /\ \A u \in Threads : u # t => taken'[u] = taken[u]
      /\ \A q \in Addrs : Placed(q)'
  BY <1>2, <1>3, DrainPlaces
<1>5. /\ pc' \in [Threads -> {"idle", "alloc", "retry", "count", "drain", "drained",
                              "give back", "exit", "ended", "null"}]
      /\ pc'[t] = "drained"
      /\ \A u \in Threads : u # t => pc'[u] = pc[u]
  BY <1>1, <1>2, Updated DEF Shapes
<1>6. Shapes'
  BY <1>1, <1>2, <1>4, <1>5 DEF Shapes
<1>7. InHand'
  <2>1. "drained" \notin {"idle", "alloc", "retry", "drain", "ended", "null", "count"}
    OBVIOUS
  <2> QED
    <3>1. \A u \in Threads : u # t => taken'[u] = taken[u] /\ pc'[u] = pc[u]
      BY <1>4, <1>5
    <3>2. pc'[t] = "drained" /\ bytes' = bytes
      BY <1>2, <1>5
    <3> QED
      BY <1>1, <1>3, <2>1, <3>1, <3>2 DEF InHand
<1> QED
  BY <1>4, <1>6, <1>7 DEF PlaceInv, NoRepeats

\* The destructor does so too.
LEMMA ExitStep ==
  ASSUME PlaceInv, NEW t \in Threads, exit(t)
  PROVE  PlaceInv'
<1>1. Shapes /\ InHand
  BY DEF PlaceInv
<1>2. /\ \A u \in Threads : pc[u] = "idle"
      /\ Drain(t) /\ pc' = [u \in Threads |-> IF u = t THEN "exit" ELSE "ended"]
      /\ driver' = driver /\ held' = held /\ bytes' = bytes
  BY DEF exit, Drain
<1>3. \A u \in Threads : taken[u] = Nothing
  BY <1>1, <1>2 DEF InHand
<1>4. /\ free_lists_' \in Lists /\ Distinct(free_lists_')
      /\ taken' \in [Threads -> Lists] /\ \A u \in Threads : Distinct(taken'[u])
      /\ \A u \in Threads : u # t => taken'[u] = taken[u]
      /\ \A q \in Addrs : Placed(q)'
  BY <1>2, <1>3, DrainPlaces
<1>5. /\ pc' \in [Threads -> {"idle", "alloc", "retry", "count", "drain", "drained",
                              "give back", "exit", "ended", "null"}]
      /\ pc'[t] = "exit"
      /\ \A u \in Threads : u # t => pc'[u] = "ended"
  BY <1>2
<1>6. Shapes'
  BY <1>1, <1>2, <1>4, <1>5 DEF Shapes
<1>7. InHand'
  <2>1. /\ "exit" \notin {"idle", "alloc", "retry", "drain", "ended", "null", "count", "drained"}
        /\ "ended" \notin {"alloc", "retry", "drain", "count", "drained"}
    OBVIOUS
  <2> QED
    BY <1>3, <1>4, <1>5, <2>1 DEF InHand
<1> QED
  BY <1>4, <1>6, <1>7 DEF PlaceInv, NoRepeats

\* The next buffer to free goes to the driver.
LEMMA FreeStep ==
  ASSUME PlaceInv, NEW t \in Threads, free(t)
  PROVE  PlaceInv'
<1>0. Shapes /\ NoRepeats /\ InHand /\ \A p \in Addrs : Placed(p)
  BY DEF PlaceInv
<1>1. PICK s \in Sizes : /\ taken[t][s] # <<>>
                         /\ driver' = [driver EXCEPT ![Head(taken[t][s])] = 0]
                         /\ taken' = [taken EXCEPT ![t][s] = Tail(@)]
  BY DEF free, NextSize
<1>2. /\ pc[t] \in {"drained", "give back", "exit"}
      /\ free_lists_' = free_lists_ /\ held' = held /\ pc' = pc /\ bytes' = bytes
  BY DEF free, records
<1>3. taken[t] \in Lists /\ Distinct(taken[t])
  BY <1>0 DEF Shapes, NoRepeats
<1>4. PICK p : p = Head(taken[t][s])
  OBVIOUS
<1>5. /\ Rest(taken[t], s) \in Lists /\ p \in Addrs /\ Distinct(Rest(taken[t], s)) /\ In(taken[t], s, p)
      /\ \A l \in Sizes, q \in Addrs : In(Rest(taken[t], s), l, q) <=> In(taken[t], l, q) /\ ~(l = s /\ q = p)
  <2>1. taken[t][s] # <<>>
    BY <1>1
  <2> QED
    BY <1>3, <1>4, <2>1, TailIn
<1>6. /\ taken' \in [Threads -> Lists] /\ taken'[t] = Rest(taken[t], s)
      /\ \A u \in Threads : u # t => taken'[u] = taken[u]
  <2>1. taken' = [taken EXCEPT ![t] = Rest(taken[t], s)]
    BY <1>1 DEF Rest
  <2> QED
    BY <1>0, <1>5, <2>1, Updated DEF Shapes
<1>7. /\ driver' \in [Addrs -> Sizes \cup {0}] /\ driver'[p] = 0
      /\ \A q \in Addrs : q # p => driver'[q] = driver[q]
  <2>1. driver' = [driver EXCEPT ![p] = 0]
    BY <1>1, <1>4
  <2> QED
    BY <1>0, <1>5, <2>1, Updated DEF Shapes
<1>8. \A l \in Sizes, q \in Addrs :
        /\ Leaving(t, l, q)' <=> Leaving(t, l, q) /\ ~(l = s /\ q = p)
        /\ Cached(l, q)' <=> Cached(l, q)
        /\ \A u \in Threads : /\ u # t => (Leaving(u, l, q)' <=> Leaving(u, l, q))
                              /\ Holds(u, l, q)' <=> Holds(u, l, q)
  BY <1>2, <1>5, <1>6 DEF Cached, Leaving, Holds
<1>9. ASSUME NEW q \in Addrs PROVE Placed(q)'
  <2>1. CASE q # p
    BY <1>0, <1>7, <1>8, <2>1, SamePlace DEF Same
  <2>2. CASE q = p
    <3>1. IsLeaving(t, s, p)
      BY <1>0, <1>5, ThePlace DEF Leaving
    <3>2. IsFree(p)'
      BY ZenonT(40), <1>5, <1>7, <1>8, <3>1 DEF IsFree, IsLeaving
    <3> QED
      BY <2>2, <3>2 DEF Placed
  <2> QED
    BY <2>1, <2>2
<1>10. Shapes'
  BY <1>0, <1>2, <1>6, <1>7 DEF Shapes
<1>11. NoRepeats'
  BY <1>0, <1>2, <1>5, <1>6 DEF NoRepeats
<1>12. InHand'
  <2>1. pc[t] \notin {"idle", "alloc", "retry", "drain", "ended", "null", "count"}
    BY <1>2
  <2> QED
    BY <1>0, <1>2, <1>6, <2>1 DEF InHand
<1> QED
  BY <1>9, <1>10, <1>11, <1>12 DEF PlaceInv

-----------------------------------------------------------------------------
(* The counts *)

BytesOf(lists) == UNION {{s} \X ((1..Len(lists[s])) \X (1..s)) : s \in Sizes}
Layer(s, i) == {s} \X ({i} \X (1..s))

CacheInv == /\ IsFiniteSet(CachedBytes)
            /\ pooled_bytes_ = Cardinality(CachedBytes)
            /\ pooled_bytes_ <= Capacity

LiveInv == IsFiniteSet(HandedOut) /\ live_ = Cardinality(HandedOut)

\* The bytes of one buffer.
LEMMA LayerSize ==
  ASSUME NEW s \in Sizes, NEW i
  PROVE  IsFiniteSet(Layer(s, i)) /\ Cardinality(Layer(s, i)) = s
<1>1. s \in Nat \ {0}
  BY PoolAssumption
<1>2. IsFiniteSet(1..s) /\ Cardinality(1..s) = s
  BY SMT, <1>1, FS_Interval
<1>3. IsFiniteSet({i}) /\ Cardinality({i}) = 1 /\ IsFiniteSet({s}) /\ Cardinality({s}) = 1
  BY FS_Singleton
<1>4. IsFiniteSet({i} \X (1..s)) /\ Cardinality({i} \X (1..s)) = 1 * s
  <2>1. /\ IsFiniteSet({i} \X (1..s))
        /\ Cardinality({i} \X (1..s)) = Cardinality({i}) * Cardinality(1..s)
    BY <1>2, <1>3, FS_Product
  <2> QED
    BY <1>2, <1>3, <2>1
<1>5. IsFiniteSet({s} \X ({i} \X (1..s))) /\ Cardinality({s} \X ({i} \X (1..s))) = 1 * (1 * s)
  <2>1. /\ IsFiniteSet({s} \X ({i} \X (1..s)))
        /\ Cardinality({s} \X ({i} \X (1..s))) = Cardinality({s}) * Cardinality({i} \X (1..s))
    BY <1>3, <1>4, FS_Product
  <2> QED
    BY <1>3, <1>4, <2>1
<1>6. 1 * (1 * s) = s
  BY SMT, <1>1
<1> QED
  BY <1>5, <1>6 DEF Layer

\* Two disjoint finite sets.
LEMMA Disjoint ==
  ASSUME NEW S, NEW T, IsFiniteSet(S), IsFiniteSet(T), S \cap T = {}
  PROVE  /\ IsFiniteSet(S \cup T)
         /\ Cardinality(S \cup T) = Cardinality(S) + Cardinality(T)
         /\ Cardinality(S) \in Nat /\ Cardinality(T) \in Nat
<1>1. /\ IsFiniteSet(S \cup T)
      /\ Cardinality(S \cup T) = Cardinality(S) + Cardinality(T) - Cardinality(S \cap T)
  BY FS_Union
<1>2. Cardinality(S \cap T) = 0
  BY FS_EmptySet
<1>3. Cardinality(S) \in Nat /\ Cardinality(T) \in Nat
  BY FS_CardinalityType
<1> QED
  BY SMT, <1>1, <1>2, <1>3

\* A list that gets longer by one has the bytes of one more buffer.
LEMMA OneMore ==
  ASSUME NEW lists \in Lists, NEW new \in Lists, NEW l \in Sizes,
         Len(new[l]) = Len(lists[l]) + 1, \A s \in Sizes : s # l => new[s] = lists[s]
  PROVE  /\ BytesOf(new) = BytesOf(lists) \cup Layer(l, Len(lists[l]) + 1)
         /\ BytesOf(lists) \cap Layer(l, Len(lists[l]) + 1) = {}
<1> DEFINE n == Len(lists[l])
           B(s, m) == {s} \X ((1..m) \X (1..s))
<1>1. n \in Nat
  BY SMT DEF Lists
<1>2. 1..(n + 1) = (1..n) \cup {n + 1} /\ n + 1 \notin 1..n
  BY SMT, <1>1
<1>3. B(l, n + 1) = B(l, n) \cup Layer(l, n + 1)
  BY <1>2 DEF Layer
<1>4. B(l, n) \cap Layer(l, n + 1) = {}
  BY <1>2 DEF Layer
<1>5. \A s \in Sizes : s # l => B(s, Len(lists[s])) \cap Layer(l, n + 1) = {}
  BY DEF Layer
<1>6. /\ BytesOf(new) = UNION {B(s, Len(new[s])) : s \in Sizes}
      /\ BytesOf(lists) = UNION {B(s, Len(lists[s])) : s \in Sizes}
  BY DEF BytesOf
<1>7. B(l, Len(new[l])) = B(l, Len(lists[l])) \cup Layer(l, n + 1)
  BY <1>3
<1>8. \A s \in Sizes : s # l => B(s, Len(new[s])) = B(s, Len(lists[s]))
  OBVIOUS
<1> HIDE DEF B, n
<1> QED
  <2>1. B(l, Len(lists[l])) \cap Layer(l, n + 1) = {}
    BY <1>4 DEF n
  <2>2. BytesOf(new) = BytesOf(lists) \cup Layer(l, n + 1)
    BY <1>6, <1>7, <1>8
  <2>3. BytesOf(lists) \cap Layer(l, n + 1) = {}
    BY <1>5, <1>6, <2>1
  <2> QED
    BY <2>2, <2>3 DEF n

\* What a longer or a shorter list does to pooled_bytes_.
LEMMA Grown ==
  ASSUME CacheInv, NEW s \in Sizes, NEW new \in Lists, free_lists_ \in Lists, free_lists_' = new,
         Len(new[s]) = Len(free_lists_[s]) + 1, \A l \in Sizes : l # s => new[l] = free_lists_[l],
         pooled_bytes_' = pooled_bytes_ + s, pooled_bytes_ + s <= Capacity
  PROVE  CacheInv'
<1>1. CachedBytes = BytesOf(free_lists_) /\ CachedBytes' = BytesOf(new)
  BY DEF CachedBytes, BytesOf
<1>2. PICK L : L = Layer(s, Len(free_lists_[s]) + 1)
  OBVIOUS
<1>3. CachedBytes' = CachedBytes \cup L /\ CachedBytes \cap L = {}
  BY ZenonT(40), <1>1, <1>2, OneMore
<1>4. IsFiniteSet(L) /\ Cardinality(L) = s
  BY <1>2, LayerSize
<1>5. IsFiniteSet(CachedBytes') /\ Cardinality(CachedBytes') = Cardinality(CachedBytes) + s
  BY <1>3, <1>4, Disjoint DEF CacheInv
<1> QED
  BY <1>5 DEF CacheInv

\* A hit takes one entry off a list, and its bytes off pooled_bytes_.
LEMMA Shrunk ==
  ASSUME CacheInv, NEW s \in Sizes, NEW new \in Lists, free_lists_ \in Lists, free_lists_' = new,
         Len(free_lists_[s]) = Len(new[s]) + 1, \A l \in Sizes : l # s => new[l] = free_lists_[l],
         pooled_bytes_' = pooled_bytes_ - s
  PROVE  CacheInv'
<1>1. CachedBytes = BytesOf(free_lists_) /\ CachedBytes' = BytesOf(new)
  BY DEF CachedBytes, BytesOf
<1>2. PICK L : L = Layer(s, Len(new[s]) + 1)
  OBVIOUS
<1>3. CachedBytes = CachedBytes' \cup L /\ CachedBytes' \cap L = {}
  <2>1. \A l \in Sizes : l # s => free_lists_[l] = new[l]
    OBVIOUS
  <2>2. BytesOf(free_lists_) = BytesOf(new) \cup L /\ BytesOf(new) \cap L = {}
    BY ZenonT(40), <1>2, <2>1, OneMore
  <2> QED
    BY <1>1, <2>2
<1>4. IsFiniteSet(L) /\ Cardinality(L) = s
  BY <1>2, LayerSize
<1>5. IsFiniteSet(CachedBytes')
  <2>1. CachedBytes' \in SUBSET CachedBytes /\ IsFiniteSet(CachedBytes)
    BY <1>3 DEF CacheInv
  <2> QED
    BY <2>1, FS_Subset
<1>6. Cardinality(CachedBytes) = Cardinality(CachedBytes') + s /\ Cardinality(CachedBytes') \in Nat
  BY <1>3, <1>4, <1>5, Disjoint
<1>7. Capacity \in Nat /\ s \in Nat
  BY PoolAssumption
<1> QED
  BY SMT, <1>5, <1>6, <1>7 DEF CacheInv

\* A drained pool has no bytes.
LEMMA Emptied ==
  ASSUME free_lists_' = Nothing, pooled_bytes_' = 0
  PROVE  CacheInv'
<1>1. CachedBytes' = {}
  <2>1. \A s \in Sizes : Len(Nothing[s]) = 0
    BY SMT DEF Nothing
  <2>2. 1..0 = {}
    BY SMT
  <2> QED
    BY <2>1, <2>2 DEF CachedBytes
<1>2. 0 <= Capacity
  BY SMT, PoolAssumption
<1> QED
  BY <1>1, <1>2, FS_EmptySet DEF CacheInv

\* A buffer more, and a buffer less, in the hands of a thread.
LEMMA OneHandedOut ==
  ASSUME LiveInv, NEW t \in Threads, NEW b, b \notin held[t], held'[t] = held[t] \cup {b},
         \A u \in Threads : u # t => held'[u] = held[u], live_' = live_ + 1
  PROVE  LiveInv'
<1>1. HandedOut' = HandedOut \cup {<<t, b>>} /\ <<t, b>> \notin HandedOut
  BY SMT DEF HandedOut
<1>2. IsFiniteSet(HandedOut') /\ Cardinality(HandedOut') = Cardinality(HandedOut) + 1
  BY <1>1, FS_AddElement DEF LiveInv
<1> QED
  BY <1>2 DEF LiveInv

\* A release takes one buffer from the ones handed out, and one from live_.
LEMMA OneBack ==
  ASSUME LiveInv, NEW t \in Threads, NEW b \in held[t], held'[t] = held[t] \ {b},
         \A u \in Threads : u # t => held'[u] = held[u],
         live_' = IF live_ > 0 THEN live_ - 1 ELSE live_
  PROVE  LiveInv'
<1>1. HandedOut' = HandedOut \ {<<t, b>>} /\ <<t, b>> \in HandedOut
  BY SMT DEF HandedOut
<1>2. IsFiniteSet(HandedOut') /\ Cardinality(HandedOut') = Cardinality(HandedOut) - 1
  BY <1>1, FS_RemoveElement DEF LiveInv
<1>3. Cardinality(HandedOut) \in Nat /\ Cardinality(HandedOut) # 0
  BY <1>1, FS_CardinalityType, FS_EmptySet DEF LiveInv
<1>4. live_' = live_ - 1
  BY SMT, <1>3 DEF LiveInv
<1> QED
  BY <1>2, <1>4 DEF LiveInv

\* Nothing of a count changed.
LEMMA CacheSame ==
  ASSUME CacheInv, free_lists_' = free_lists_, pooled_bytes_' = pooled_bytes_
  PROVE  CacheInv'
BY DEF CacheInv, CachedBytes

\* A step that hands out nothing and takes nothing back keeps live_ true.
LEMMA LiveSame ==
  ASSUME LiveInv, held' = held, live_' = live_
  PROVE  LiveInv'
BY DEF LiveInv, HandedOut

-----------------------------------------------------------------------------
(* The invariant *)

PoolInv == PlaceInv /\ CacheInv /\ LiveInv

\* A new pool has the invariant.
LEMMA PoolInit == Init => PoolInv
<1> SUFFICES ASSUME Init PROVE PoolInv
  OBVIOUS
<1>1. /\ free_lists_ = Nothing /\ taken = [t \in Threads |-> Nothing] /\ held = [t \in Threads |-> {}]
      /\ driver = [p \in Addrs |-> 0] /\ pc = [t \in Threads |-> "idle"] /\ bytes = [t \in Threads |-> 0]
      /\ pooled_bytes_ = 0 /\ live_ = 0
  BY DEF Init
<1>2. Nothing \in Lists /\ Distinct(Nothing)
  BY NothingIn
<1>3. Shapes
  BY <1>1, <1>2 DEF Shapes
<1>4. NoRepeats
  BY <1>1, <1>2 DEF NoRepeats
<1>5. InHand
  <2>1. "idle" # "alloc" /\ "idle" # "retry" /\ "idle" # "count" /\ "idle" # "drain" /\ "idle" # "drained"
    OBVIOUS
  <2> QED
    BY <1>1, <2>1 DEF InHand
<1>6. \A p \in Addrs : IsFree(p)
  BY <1>1, NothingIn DEF IsFree, Cached, Leaving, Holds
<1>7. CachedBytes = {}
  <2>1. \A s \in Sizes : Len(Nothing[s]) = 0
    BY SMT DEF Nothing
  <2>2. 1..0 = {}
    BY SMT
  <2> QED
    BY <1>1, <2>1, <2>2 DEF CachedBytes
<1>8. HandedOut = {}
  BY SMT, <1>1 DEF HandedOut
<1>9. 0 <= Capacity
  BY SMT, PoolAssumption
<1> QED
  BY <1>1, <1>3, <1>4, <1>5, <1>6, <1>7, <1>8, <1>9, FS_EmptySet
     DEF PoolInv, PlaceInv, Placed, CacheInv, LiveInv

\* A list of a pool has the length of a list.
LEMMA PoppedLength ==
  ASSUME NEW lists \in Lists, NEW l \in Sizes, lists[l] # <<>>
  PROVE  /\ Len(lists[l]) = Len(Popped(lists, l)[l]) + 1
         /\ \A s \in Sizes : s # l => Popped(lists, l)[s] = lists[s]
<1>1. lists[l] \in Seq(Addrs) /\ Len(lists[l]) \in Nat \ {0}
  BY SMT DEF Lists
<1>2. Popped(lists, l)[l] = SubSeq(lists[l], 1, Len(lists[l]) - 1)
  BY DEF Popped, Lists
<1>3. Len(SubSeq(lists[l], 1, Len(lists[l]) - 1)) = Len(lists[l]) - 1
  BY SMT, <1>1
<1>4. Len(lists[l]) = Len(Popped(lists, l)[l]) + 1
  BY SMT, <1>1, <1>2, <1>3
<1>5. \A s \in Sizes : s # l => Popped(lists, l)[s] = lists[s]
  BY DEF Popped, Lists
<1> QED
  BY <1>4, <1>5

\* push_back makes one list longer by one, and leaves the others alone.
LEMMA PushedLength ==
  ASSUME NEW lists \in Lists, NEW l \in Sizes, NEW p \in Addrs
  PROVE  /\ Pushed(lists, l, p) \in Lists
         /\ Len(Pushed(lists, l, p)[l]) = Len(lists[l]) + 1
         /\ \A s \in Sizes : s # l => Pushed(lists, l, p)[s] = lists[s]
BY SMT DEF Pushed, Lists

\* acquire, with the counts that it keeps.
LEMMA AcquireStep ==
  ASSUME PoolInv, NEW t \in Threads, acquire(t)
  PROVE  PoolInv'
<1>0. PlaceInv /\ CacheInv /\ LiveInv
  BY DEF PoolInv
<1>1. PICK s \in Sizes : Hit(t, s) \/ Miss(t, s)
  BY DEF acquire
<1>2. CASE Hit(t, s)
  <2>1. free_lists_ \in Lists /\ free_lists_[s] # <<>> /\ free_lists_' = Popped(free_lists_, s)
    BY <1>0, <1>2 DEF PlaceInv, Shapes, Hit, Fits, Popped
  <2>2. pooled_bytes_' = pooled_bytes_ - s /\ live_' = live_ + 1
    BY <1>2 DEF Hit, Fits
  <2>3. PlaceInv'
    BY <1>0, <1>2, HitStep
  <2>4. CacheInv'
    <3>1. Popped(free_lists_, s) \in Lists
      BY <2>1, <2>3 DEF PlaceInv, Shapes
    <3> QED
      BY <1>0, <2>1, <2>2, <3>1, PoppedLength, Shrunk
  <2>5. LiveInv'
    <3>1. PICK p : p = Newest(free_lists_, s)
      OBVIOUS
    <3>2. held' = [held EXCEPT ![t] = held[t] \cup {Buffer(p, s)}]
      BY <1>2, <3>1 DEF Hit, Fits, Newest
    <3>3. held'[t] = held[t] \cup {Buffer(p, s)} /\ \A u \in Threads : u # t => held'[u] = held[u]
      BY <1>0, <3>2 DEF PlaceInv, Shapes
    <3>4. Distinct(free_lists_)
      BY <1>0 DEF PlaceInv, NoRepeats
    <3>5. p \in Addrs /\ In(free_lists_, s, p)
      BY <2>1, <3>1, <3>4, FrontIn
    <3>6. IsCached(s, p)
      BY <1>0, <3>5, ThePlace DEF PlaceInv, Cached
    <3>7. Buffer(p, s) \notin held[t]
      BY <3>6 DEF IsCached, Holds
    <3> QED
      BY <1>0, <2>2, <3>3, <3>7, OneHandedOut
  <2> QED
    BY <2>3, <2>4, <2>5 DEF PoolInv
<1>3. CASE Miss(t, s)
  <2>1. PlaceInv'
    BY <1>0, <1>3, MissStep DEF acquire
  <2>2. free_lists_' = free_lists_ /\ pooled_bytes_' = pooled_bytes_ /\ live_' = live_ /\ held' = held
    BY <1>3 DEF Miss, records
  <2> QED
    BY <1>0, <2>1, <2>2, CacheSame, LiveSame DEF PoolInv
<1> QED
  BY <1>1, <1>2, <1>3

\* count: a DeviceBuffer that was not there.
LEMMA CountedStep ==
  ASSUME PoolInv, NEW t \in Threads, count(t)
  PROVE  PoolInv'
<1>0. PlaceInv /\ CacheInv /\ LiveInv
  BY DEF PoolInv
<1>1. /\ pc[t] = "count" /\ CallerHas(t) /\ Goto(t, "idle") /\ live_' = live_ + 1
      /\ free_lists_' = free_lists_ /\ pooled_bytes_' = pooled_bytes_ /\ driver' = driver /\ bytes' = bytes
  BY DEF count
<1>2. PlaceInv'
  BY <1>0, <1>1, CountStep
<1>3. PICK s \in Sizes, p \in Addrs : s = bytes[t] /\ taken[t] = Single(s, p)
  BY <1>0, <1>1 DEF PlaceInv, InHand
<1>4. Head(Single(s, p)[s]) = p /\ In(Single(s, p), s, p)
  BY SingleIn
<1>5. held' = [held EXCEPT ![t] = held[t] \cup {Buffer(p, s)}]
  BY <1>1, <1>3, <1>4 DEF CallerHas
<1>6. held'[t] = held[t] \cup {Buffer(p, s)} /\ \A u \in Threads : u # t => held'[u] = held[u]
  BY <1>0, <1>5 DEF PlaceInv, Shapes
<1>7. Buffer(p, s) \notin held[t]
  <2>1. Leaving(t, s, p)
    BY <1>3, <1>4 DEF Leaving
  <2>2. IsLeaving(t, s, p)
    BY <1>0, <2>1, ThePlace DEF PlaceInv
  <2> QED
    BY <2>2 DEF IsLeaving, Holds
<1>8. LiveInv'
  BY <1>0, <1>1, <1>6, <1>7, OneHandedOut
<1> QED
  BY <1>0, <1>1, <1>2, <1>8, CacheSame DEF PoolInv

\* release: a DeviceBuffer less, and its bytes are the cache's or on their way to the driver.
LEMMA ReleaseStep ==
  ASSUME PoolInv, NEW t \in Threads, release(t)
  PROVE  PoolInv'
<1>0. PlaceInv /\ CacheInv /\ LiveInv
  BY DEF PoolInv
<1>1. PICK b \in held[t] :
        /\ held' = [held EXCEPT ![t] = @ \ {b}]
        /\ live_' = IF live_ > 0 THEN live_ - 1 ELSE live_
        /\ \/ /\ Keeps(b)
              /\ free_lists_' = [free_lists_ EXCEPT ![b.bytes] = Append(@, b.ptr)]
              /\ pooled_bytes_' = pooled_bytes_ + b.bytes
              /\ UNCHANGED <<pc, taken>>
           \/ /\ ~Keeps(b)
              /\ taken' = [taken EXCEPT ![t][b.bytes] = <<b.ptr>>]
              /\ Goto(t, "give back")
              /\ UNCHANGED <<free_lists_, pooled_bytes_>>
  BY DEF release
<1>2. pc[t] = "idle" /\ driver' = driver /\ bytes' = bytes
  BY DEF release
<1>3. LiveInv'
  <2>1. held'[t] = held[t] \ {b} /\ \A u \in Threads : u # t => held'[u] = held[u]
    BY <1>0, <1>1 DEF PlaceInv, Shapes
  <2> QED
    BY <1>0, <1>1, <2>1, OneBack
<1>4. CASE /\ Keeps(b)
           /\ free_lists_' = [free_lists_ EXCEPT ![b.bytes] = Append(@, b.ptr)]
           /\ pooled_bytes_' = pooled_bytes_ + b.bytes
           /\ UNCHANGED <<pc, taken>>
  <2>1. PlaceInv'
    BY <1>0, <1>1, <1>2, <1>4, KeepStep
  <2>2. b \in [ptr : Addrs, bytes : Sizes]
    BY <1>0 DEF PlaceInv, Shapes
  <2>3. b.ptr \in Addrs /\ b.bytes \in Sizes
    BY <2>2, Buffers
  <2>4. free_lists_ \in Lists /\ free_lists_' = Pushed(free_lists_, b.bytes, b.ptr)
    BY <1>0, <1>4 DEF PlaceInv, Shapes, Pushed
  <2>5. pooled_bytes_' = pooled_bytes_ + b.bytes /\ pooled_bytes_ + b.bytes <= Capacity
    BY <1>4 DEF Keeps
  <2>6. CacheInv'
    <3>1. PICK s \in Sizes, p \in Addrs : s = b.bytes /\ p = b.ptr
      BY <2>3
    <3>2. /\ Pushed(free_lists_, s, p) \in Lists
          /\ Len(Pushed(free_lists_, s, p)[s]) = Len(free_lists_[s]) + 1
          /\ \A l \in Sizes : l # s => Pushed(free_lists_, s, p)[l] = free_lists_[l]
      BY <2>4, PushedLength
    <3> QED
      BY <1>0, <2>4, <2>5, <3>1, <3>2, Grown
  <2> QED
    BY <1>3, <2>1, <2>6 DEF PoolInv
<1>5. CASE /\ ~Keeps(b)
           /\ taken' = [taken EXCEPT ![t][b.bytes] = <<b.ptr>>]
           /\ Goto(t, "give back")
           /\ UNCHANGED <<free_lists_, pooled_bytes_>>
  <2>1. PlaceInv'
    BY <1>0, <1>1, <1>2, <1>5, GiveBackStep
  <2>2. CacheInv'
    BY <1>0, <1>5, CacheSame
  <2> QED
    BY <1>3, <2>1, <2>2 DEF PoolInv
<1> QED
  BY <1>1, <1>4, <1>5

\* Every step of the pool keeps the invariant.
LEMMA PoolStep == ASSUME PoolInv, [Next]_vars PROVE PoolInv'
<1>0. PlaceInv /\ CacheInv /\ LiveInv
  BY DEF PoolInv
<1>1. ASSUME NEW t \in Threads, alloc(t) \/ no_room(t) \/ free(t) \/ freed(t) PROVE PoolInv'
  <2>1. PlaceInv'
    BY <1>0, <1>1, AllocStep, NoRoomStep, FreeStep, FreedStep
  <2>2. free_lists_' = free_lists_ /\ pooled_bytes_' = pooled_bytes_ /\ live_' = live_ /\ held' = held
    BY <1>1 DEF alloc, no_room, free, freed, records
  <2> QED
    BY <1>0, <2>1, <2>2, CacheSame, LiveSame DEF PoolInv
<1>2. ASSUME NEW t \in Threads, drain(t) \/ exit(t) PROVE PoolInv'
  <2>1. PlaceInv'
    BY <1>0, <1>2, DrainStep, ExitStep
  <2>2. free_lists_' = Nothing /\ pooled_bytes_' = 0 /\ live_' = live_ /\ held' = held
    BY <1>2 DEF drain, exit, Drain
  <2> QED
    BY <1>0, <2>1, <2>2, Emptied, LiveSame DEF PoolInv
<1>3. CASE UNCHANGED vars
  <2>1. /\ free_lists_' = free_lists_ /\ pooled_bytes_' = pooled_bytes_ /\ live_' = live_ /\ held' = held
        /\ taken' = taken /\ driver' = driver /\ pc' = pc /\ bytes' = bytes
    BY <1>3 DEF vars
  <2>2. \A p \in Addrs : Placed(p)'
    BY <1>0, <2>1, SamePlace, SameRecords DEF PlaceInv
  <2>3. PlaceInv'
    BY <1>0, <2>1, <2>2 DEF PlaceInv, Shapes, NoRepeats, InHand
  <2> QED
    BY <1>0, <2>1, <2>3, CacheSame, LiveSame DEF PoolInv
<1>4. Finished => UNCHANGED vars
  BY DEF Finished
<1> QED
  BY <1>1, <1>2, <1>3, <1>4, AcquireStep, CountedStep, ReleaseStep DEF Next

\* The invariant is true in every state.
LEMMA PoolHolds == Spec => []PoolInv
<1>1. PoolInv /\ [Next]_vars => PoolInv'
  BY PoolStep
<1> QED
  BY <1>1, PoolInit, PTL DEF Spec

-----------------------------------------------------------------------------
(* The properties *)

\* The entries of an address in lists that do not have it, and in lists that have it once.
LEMMA NoEntries ==
  ASSUME NEW lists, NEW p \in Addrs, \A s \in Sizes : ~In(lists, s, p)
  PROVE  Entries(lists, p) = {}
BY DEF Entries, In

\* An address in the list of one size, in lists with no repeats, has one entry.
LEMMA OneEntry ==
  ASSUME NEW lists, Distinct(lists), NEW p \in Addrs, NEW l \in Sizes, \A s \in Sizes : In(lists, s, p) <=>
           s = l
  PROVE  \E e : Entries(lists, p) = {e}
<1>1. PICK i \in DOMAIN lists[l] : lists[l][i] = p
  BY DEF In
<1>2. \A s \in Sizes : \A j \in DOMAIN lists[s] : lists[s][j] = p => s = l /\ j = i
  BY <1>1 DEF In, Distinct
<1>3. \A e : e \in Entries(lists, p) => e = <<l, i>>
  BY <1>2 DEF Entries
<1>4. <<l, i>> \in Entries(lists, p)
  <2>1. <<l, i>> \in {<<l, j>> : j \in {k \in DOMAIN lists[l] : lists[l][k] = p}}
    BY <1>1
  <2> QED
    BY <2>1 DEF Entries
<1>5. Entries(lists, p) = {<<l, i>>}
  BY <1>3, <1>4
<1> QED
  BY <1>5

\* An address that is placed has no place or one.
LEMMA PlacesAre ==
  ASSUME PlaceInv, NEW p \in Addrs
  PROVE  Cardinality(PlacesOf(p)) = (IF driver[p] = 0 THEN 0 ELSE 1)
<1> DEFINE A == {<<"cached", e>> : e \in Entries(free_lists_, p)}
           B == UNION {{<<"leaving", e, t>> : e \in Entries(taken[t], p)} : t \in Threads}
           H(t) == {c \in held[t] : c.ptr = p}
           C == UNION {{<<"held", b, t>> : b \in H(t)} : t \in Threads}
<1>0. Placed(p) /\ Distinct(free_lists_) /\ \A t \in Threads : Distinct(taken[t])
  BY DEF PlaceInv, NoRepeats
<1>1. PlacesOf(p) = A \cup B \cup C
  BY DEF PlacesOf
<1>2. ASSUME NEW t \in Threads, NEW c \in H(t)
      PROVE  c.bytes \in Sizes /\ c = Buffer(p, c.bytes) /\ Holds(t, c.bytes, p)
  <2>1. c \in [ptr : Addrs, bytes : Sizes] /\ c.ptr = p /\ c \in held[t]
    BY DEF PlaceInv, Shapes
  <2>2. c = Buffer(c.ptr, c.bytes) /\ c.bytes \in Sizes
    BY <2>1, Buffers
  <2> QED
    BY <2>1, <2>2 DEF Holds
<1>3. (\A s \in Sizes : ~Cached(s, p)) => A = {}
  BY NoEntries DEF Cached
<1>4. (\A t \in Threads, s \in Sizes : ~Leaving(t, s, p)) => B = {}
  BY NoEntries DEF Leaving
<1>5. (\A t \in Threads, s \in Sizes : ~Holds(t, s, p)) => C = {}
  BY <1>2
<1>6. ASSUME NEW x, PlacesOf(p) = {x} PROVE Cardinality(PlacesOf(p)) = 1
  BY <1>6, FS_Singleton
<1>7. \A l \in Sizes : l # 0
  BY SMT, PoolAssumption
<1>8. CASE IsFree(p)
  <2>1. A = {} /\ B = {} /\ C = {} /\ driver[p] = 0
    BY <1>3, <1>4, <1>5, <1>8 DEF IsFree
  <2> QED
    BY <1>1, <2>1, FS_EmptySet
<1>9. ASSUME NEW l \in Sizes, IsCached(l, p) PROVE Cardinality(PlacesOf(p)) = 1 /\ driver[p] # 0
  <2>1. B = {} /\ C = {} /\ driver[p] # 0
    BY <1>4, <1>5, <1>7, <1>9 DEF IsCached
  <2>2. PICK e : Entries(free_lists_, p) = {e}
    BY <1>0, <1>9, OneEntry DEF IsCached, Cached
  <2>3. A = {<<"cached", e>>}
    BY <2>2
  <2> QED
    BY <1>1, <1>6, <2>1, <2>3
<1>10. ASSUME NEW u \in Threads, NEW l \in Sizes, IsLeaving(u, l, p)
       PROVE  Cardinality(PlacesOf(p)) = 1 /\ driver[p] # 0
  <2>1. A = {} /\ C = {} /\ driver[p] # 0
    BY <1>3, <1>5, <1>7, <1>10 DEF IsLeaving
  <2>2. \A s \in Sizes : In(taken[u], s, p) <=> s = l
    BY <1>10 DEF IsLeaving, Leaving
  <2>3. PICK e : Entries(taken[u], p) = {e}
    BY <1>0, <2>2, OneEntry
  <2>4. \A t \in Threads : t # u => Entries(taken[t], p) = {}
    BY <1>10, NoEntries DEF IsLeaving, Leaving
  <2>5. \A x : x \in B <=> x = <<"leaving", e, u>>
    <3>1. ASSUME NEW x \in B PROVE x = <<"leaving", e, u>>
      <4>1. PICK t \in Threads : \E d \in Entries(taken[t], p) : x = <<"leaving", d, t>>
        OBVIOUS
      <4> QED
        BY <2>3, <2>4, <4>1
    <3>2. <<"leaving", e, u>> \in B
      BY <2>3
    <3> QED
      BY <3>1, <3>2
  <2>6. B = {<<"leaving", e, u>>}
    BY <2>5
  <2> QED
    BY <1>1, <1>6, <2>1, <2>6
<1>11. ASSUME NEW u \in Threads, NEW l \in Sizes, IsHeld(u, l, p)
       PROVE  Cardinality(PlacesOf(p)) = 1 /\ driver[p] # 0
  <2>1. A = {} /\ B = {} /\ driver[p] # 0
    BY <1>3, <1>4, <1>7, <1>11 DEF IsHeld
  <2>2. \A t \in Threads : \A c \in H(t) : t = u /\ c = Buffer(p, l)
    BY <1>2, <1>11 DEF IsHeld
  <2>3. Buffer(p, l) \in H(u)
    BY <1>11, Buffers DEF IsHeld, Holds
  <2>4. \A x : x \in C <=> x = <<"held", Buffer(p, l), u>>
    <3>1. ASSUME NEW x \in C PROVE x = <<"held", Buffer(p, l), u>>
      <4>1. PICK t \in Threads : \E c \in H(t) : x = <<"held", c, t>>
        OBVIOUS
      <4> QED
        BY <2>2, <4>1
    <3>2. <<"held", Buffer(p, l), u>> \in C
      <4>1. <<"held", Buffer(p, l), u>> \in {<<"held", b, u>> : b \in H(u)}
        BY <2>3
      <4> QED
        BY <4>1
    <3> QED
      BY <3>1, <3>2
  <2>5. C = {<<"held", Buffer(p, l), u>>}
    BY <2>4
  <2> QED
    BY <1>1, <1>6, <2>1, <2>5
<1> QED
  BY <1>0, <1>8, <1>9, <1>10, <1>11 DEF Placed, IsFree

\* No buffer of the device is in two places, and none that is allocated is in none:
\* whatever the interleaving of the dispatches, the drains and the frees.
THEOREM BuffersAreInOnePlace == Spec => []OnePlace
<1>1. PoolInv => OnePlace
  BY PlacesAre DEF PoolInv, OnePlace
<1> QED
  BY <1>1, PoolHolds, PTL

\* A buffer is in the list of the size it has, pooled_bytes_ is what the lists hold, within
\* the capacity, and live_ counts the buffers handed out.
THEOREM ThePoolsRecordsAreTrue == Spec => []RecordsAreTrue
<1>1. PoolInv => RecordsAreTrue
  <2> SUFFICES ASSUME PoolInv PROVE RecordsAreTrue
    OBVIOUS
  <2>0. Shapes /\ CacheInv /\ LiveInv /\ \A p \in Addrs : Placed(p)
    BY DEF PoolInv, PlaceInv
  <2>1. TypeOK
    BY <2>0, FS_CardinalityType DEF Shapes, Lists, TypeOK, CacheInv, LiveInv
  <2>2. ASSUME NEW s \in Sizes, NEW i \in DOMAIN free_lists_[s] PROVE driver[free_lists_[s][i]] = s
    <3>1. free_lists_[s][i] \in Addrs
      <4>1. free_lists_[s] \in Seq(Addrs)
        BY <2>0 DEF Shapes, Lists
      <4> QED
        BY SMT, <4>1
    <3>2. Cached(s, free_lists_[s][i])
      BY DEF Cached, In
    <3>3. ASSUME NEW p \in Addrs, Cached(s, p) PROVE driver[p] = s
      BY <2>0, <3>3, ThePlace DEF IsCached, IsFree, Placed, IsLeaving, IsHeld
    <3> QED
      BY <3>1, <3>2, <3>3
  <2>3. ASSUME NEW t \in Threads, NEW b \in held[t] PROVE driver[b.ptr] = b.bytes
    <3>1. b \in [ptr : Addrs, bytes : Sizes]
      BY <2>0 DEF Shapes
    <3>2. b = Buffer(b.ptr, b.bytes) /\ b.ptr \in Addrs /\ b.bytes \in Sizes
      BY <3>1, Buffers
    <3>3. IsHeld(t, b.bytes, b.ptr)
      BY <2>0, <3>2, ThePlace DEF Holds
    <3> QED
      BY <3>3 DEF IsHeld
  <2> QED
    BY <2>0, <2>1, <2>2, <2>3 DEF RecordsAreTrue, CacheInv, LiveInv
<1> QED
  BY <1>1, PoolHolds, PTL
=============================================================================
