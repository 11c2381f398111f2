---------------------------- MODULE RemoteSession ----------------------------
(***************************************************************************)
(* A worker of the fleet and the hosts that use it: the serve loop of      *)
(* vx_worker_main.cpp, the calls of vx_remote_client.h and the decisions   *)
(* of vx_remote_routing.h around them.  Every message is a request that    *)
(* waits for its reply.  The worker serves one host until its connection   *)
(* ends, and then frees what the host left.  A host may die between any    *)
(* two steps, and so may the worker, which starts again with a new table.  *)
(*                                                                         *)
(* Payloads, views and element types are left out: a kernel that the       *)
(* worker cannot route is a choice.  So are results published through an   *)
(* empty slot, which try_dispatch never sends.                             *)
(***************************************************************************)
EXTENDS RemoteRegion, Functions

CONSTANTS Hosts, NoHost,
          Me,          \* the worker's id
          MaxStaged,   \* the operands in host memory a dispatch may have
          MaxRestarts  \* how often the worker may die

ASSUME SessionAssumption == /\ Workers = {Me}
                            /\ NoHost \notin Hosts
                            /\ MaxStaged \in Nat /\ MaxRestarts \in Nat

VARIABLES device,      \* the buffers allocated on the worker's device
          serving,     \* the host being served
          restarts,
          link,        \* of each host: "none", "open", "cut" or "closed"
          requests, replies,             \* what is on its way
          doing,       \* the call a host is in
          resident,    \* what a host placed: [handle, buffer]
          staged,      \* what the current dispatch staged
          todo         \* what it has still to stage, or to read back

worker == <<table, device, serving, restarts>>
wires == <<link, requests, replies>>
host == <<doing, resident, staged, todo>>
vars == <<worker, wires, host>>

Init == /\ TableInit
        /\ device = {}
        /\ serving = NoHost
        /\ restarts = 0
        /\ link = [h \in Hosts |-> "none"]
        /\ requests = [h \in Hosts |-> <<>>]
        /\ replies = [h \in Hosts |-> <<>>]
        /\ doing = [h \in Hosts |-> "none"]
        /\ resident = [h \in Hosts |-> {}]
        /\ staged = [h \in Hosts |-> <<>>]
        /\ todo = [h \in Hosts |-> 0]

Handles(s) == {x.handle : x \in s}
Ended(h) == doing[h] \in {"ended", "aborted"}
-----------------------------------------------------------------------------
(* The host.  A call sends its request and waits for the reply.            *)
Ask(h, call, msg) == /\ link[h] = "open"
                     /\ doing' = [doing EXCEPT ![h] = call]
                     /\ requests' = [requests EXCEPT ![h] = Append(@, msg)]
                     /\ UNCHANGED <<worker, link, replies>>

Request(type, handles) == [type |-> type, handles |-> handles]
Transfer(size) == [type |-> "TRANSFER", size |-> size]

(* A FATAL message and abort, or another end of the process, and with it   *)
(* of its connection.                                                      *)
End(h, how) == /\ doing' = [doing EXCEPT ![h] = how]
               /\ link' = [link EXCEPT ![h] = IF @ = "open" THEN "cut" ELSE "closed"]
               /\ replies' = [replies EXCEPT ![h] = <<>>]
               /\ resident' = [resident EXCEPT ![h] = {}]
               /\ staged' = [staged EXCEPT ![h] = <<>>]
               /\ todo' = [todo EXCEPT ![h] = 0]
               /\ UNCHANGED <<worker, requests>>

vx_remote_connect(h) == /\ link[h] = "none" /\ doing[h] = "none"
                        /\ link' = [link EXCEPT ![h] = "open"]
                        /\ UNCHANGED <<worker, requests, replies, host>>

Ready(h) == link[h] = "open" /\ doing[h] = "none"

try_alloc(h) == /\ Ready(h)
                /\ \E size \in Sizes : Ask(h, "alloc", Transfer(size))
                /\ UNCHANGED <<resident, staged, todo>>

try_fetch(h) == /\ Ready(h)
                /\ \E x \in resident[h] : Ask(h, "fetch", Request("FETCH", {x.handle}))
                /\ UNCHANGED <<resident, staged, todo>>

try_free(h) == /\ doing[h] = "none"
               /\ \E x \in resident[h] :
                    /\ \/ Ask(h, "free", Request("FREE", {x.handle}))
                       \/ link[h] = "closed" /\ UNCHANGED <<worker, wires, doing>>
                    /\ resident' = [resident EXCEPT ![h] = @ \ {x}]
               /\ UNCHANGED <<staged, todo>>

(* encode_args stages each operand in host memory, then the dispatch goes  *)
(* out with those handles and some the program placed before.              *)
try_dispatch(h) == /\ Ready(h)
                   /\ \E n \in 0 .. MaxStaged : todo' = [todo EXCEPT ![h] = n]
                   /\ doing' = [doing EXCEPT ![h] = "encode"]
                   /\ UNCHANGED <<worker, wires, resident, staged>>

(* Declined before the wire, since its results cannot cross: it runs here, *)
(* and nothing changes, unless an operand was placed on the worker.        *)
cannot_cross(h) == Ready(h) /\ resident[h] # {} /\ End(h, "aborted")

encode_args(h) ==
  /\ doing[h] = "encode"
  /\ \/ /\ todo[h] > 0
        /\ todo' = [todo EXCEPT ![h] = @ - 1]
        /\ \E size \in Sizes : Ask(h, "stage", Transfer(size))
     \/ /\ todo[h] = 0
        /\ \E placed \in SUBSET Handles(resident[h]) :
             Ask(h, "dispatch", Request("DISPATCH", placed \cup Handles(Range(staged[h]))))
        /\ UNCHANGED todo
  /\ UNCHANGED <<resident, staged>>

(* The read-back of the buffers the kernel may have written: all that were *)
(* staged, or the one that is the output.                                  *)
fetch_staged(h) ==
  /\ doing[h] = "collect" /\ todo[h] > 0
  /\ todo' = [todo EXCEPT ![h] = @ - 1]
  /\ Ask(h, "read back", Request("FETCH", {staged[h][todo[h]].handle}))
  /\ UNCHANGED <<resident, staged>>

(* The last loop of the dispatch frees what it staged.                     *)
ToFree_mutant(h) == IF Len(staged[h]) > 1 THEN <<Head(staged[h])>> ELSE staged[h]
ToFree(h) == staged[h]

free_staged_mutant(h) ==
  /\ doing[h] = "collect" /\ todo[h] = 0
  /\ \/ /\ staged[h] # <<>>
        /\ Ask(h, "collect", Request("FREE", {Head(staged[h]).handle}))
        /\ staged' = [staged EXCEPT ![h] = Tail(ToFree(h))]
     \/ /\ staged[h] = <<>>
        /\ doing' = [doing EXCEPT ![h] = "none"]
        /\ UNCHANGED <<worker, wires, staged>>
  /\ UNCHANGED <<resident, todo>>

free_staged(h) ==
  /\ doing[h] = "collect" /\ todo[h] = 0
  /\ \/ /\ staged[h] # <<>>
        /\ Ask(h, "release", Request("FREE", {Head(staged[h]).handle}))
        /\ staged' = [staged EXCEPT ![h] = Tail(ToFree(h))]
     \/ /\ staged[h] = <<>>
        /\ doing' = [doing EXCEPT ![h] = "none"]
        /\ UNCHANGED <<worker, wires, staged>>
  /\ UNCHANGED <<resident, todo>>

Calls == {"alloc", "fetch", "free", "stage", "dispatch", "read back", "release"}
After(call) == CASE call \in {"alloc", "fetch", "free"} -> "none"
                 [] call = "stage" -> "encode"
                 [] OTHER -> "collect"

(* A reply came.  FREE takes any reply as its acknowledgement.             *)
Receive(h) ==
  /\ link[h] = "open" /\ replies[h] # <<>>
  /\ replies' = [replies EXCEPT ![h] = Tail(@)]
  /\ UNCHANGED <<worker, requests, link>>

Got(h) == Head(replies[h])

Served(h) == Got(h).ok \/ doing[h] \in {"free", "release"}

reply_ok(h) ==
  /\ doing[h] \in Calls
  /\ Receive(h)
  /\ Served(h)
  /\ doing' = [doing EXCEPT ![h] = After(@)]
  /\ resident' = [resident EXCEPT ![h] =
                    IF doing[h] = "alloc" THEN @ \cup {Got(h).result} ELSE @]
  /\ staged' = [staged EXCEPT ![h] =
                  IF doing[h] = "stage" THEN Append(@, Got(h).result) ELSE @]
  /\ IF doing[h] = "dispatch"
     THEN \E n \in {0, Len(staged[h])} : todo' = [todo EXCEPT ![h] = n]
     ELSE UNCHANGED todo

(* A refusal is fatal, for a dispatch as for the others.                   *)
reply_refused(h) == /\ doing[h] \in Calls
                    /\ link[h] = "open" /\ replies[h] # <<>> /\ ~Served(h)
                    /\ End(h, "aborted")

(* The connection broke: fatal for the call that is out or comes next,     *)
(* except for a free, whose result nobody reads.                           *)
Frees(h) == doing[h] \in {"free", "release"} \/ (doing[h] = "collect" /\ todo[h] = 0)

wire_failed(h) ==
  /\ link[h] = "closed" /\ ~Ended(h)
  /\ \/ ~Frees(h) /\ End(h, "aborted")
     \/ /\ Frees(h)
        /\ doing' = [doing EXCEPT ![h] = "none"]
        /\ staged' = [staged EXCEPT ![h] = <<>>]
        /\ UNCHANGED <<worker, wires, resident, todo>>

dies(h) == /\ link[h] \in {"open", "closed"} /\ ~Ended(h)
           /\ End(h, "ended")
-----------------------------------------------------------------------------
(* The worker.  It answers a request in one step: it alone reads its table *)
(* and its device.                                                         *)
Answer(h, ok, result) ==
  /\ requests' = [requests EXCEPT ![h] = Tail(@)]
  /\ replies' = [replies EXCEPT ![h] =
                   IF link[h] = "cut" THEN @
                   ELSE Append(@, [type |-> Head(requests[h]).type,
                                   ok |-> ok, result |-> result])]
  /\ UNCHANGED <<link, serving, restarts, host>>

Nothing == [handle |-> 0, buffer |-> NoHost]
Asked(h, type) == /\ serving = h
                  /\ requests[h] # <<>>
                  /\ Head(requests[h]).type = type
TheHandle(h) == CHOOSE x \in Head(requests[h]).handles : TRUE
Size(h) == Head(requests[h]).size

accept_mutant(h) == /\ serving # h
                    /\ link[h] \in {"open", "cut"}
                    /\ serving' = h
                    /\ UNCHANGED <<table, device, restarts, wires, host>>

accept(h) == /\ serving = NoHost
             /\ link[h] \in {"open", "cut"}
             /\ serving' = h
             /\ UNCHANGED <<table, device, restarts, wires, host>>

(* The buffer is allocated first, and given back if the table is full.     *)
serve_transfer_mutant(h) ==
  /\ Asked(h, "TRANSFER")
  /\ \E b \in Buffers \ device :
       /\ device' = device \cup {b}
       /\ \/ /\ vx_remote_table_alloc(Me, Size(h), b)
             /\ Answer(h, TRUE, [handle |-> vx_remote_addr(Me, next_offset[Me]), buffer |-> b])
          \/ /\ ~HasRoom(Me, Size(h))
             /\ Answer(h, FALSE, Nothing)
             /\ UNCHANGED table

serve_transfer(h) ==
  /\ Asked(h, "TRANSFER")
  /\ \/ /\ \E b \in Buffers \ device :
             /\ vx_remote_table_alloc(Me, Size(h), b)
             /\ device' = device \cup {b}
             /\ Answer(h, TRUE, [handle |-> vx_remote_addr(Me, next_offset[Me]), buffer |-> b])
     \/ /\ Buffers \subseteq device \/ ~HasRoom(Me, Size(h))
        /\ Answer(h, FALSE, Nothing)
        /\ UNCHANGED <<table, device>>

(* Served if every handle names a live region, and then if the kernel is   *)
(* one the worker can route.                                               *)
Resolves(h) == \A x \in Head(requests[h]).handles : vx_remote_resolve(x) # 0

serve_dispatch(h) == /\ Asked(h, "DISPATCH")
                     /\ \E ok \in {Resolves(h), FALSE} : Answer(h, ok, Nothing)
                     /\ UNCHANGED <<table, device>>

serve_fetch(h) == /\ Asked(h, "FETCH")
                  /\ Answer(h, Resolves(h), Nothing)
                  /\ UNCHANGED <<table, device>>

serve_free(h) ==
  /\ Asked(h, "FREE")
  /\ LET i == vx_remote_resolve(TheHandle(h))
     IN  IF i # 0
         THEN /\ device' = device \ {regions[i].remote}
              /\ vx_remote_table_free(i)
         ELSE UNCHANGED <<table, device>>
  /\ Answer(h, TRUE, Nothing)

(* The host's connection ended, perhaps with a request still unread: the   *)
(* buffers it left are freed.                                              *)
Left_mutant == {}
Left == {regions[i].remote : i \in {j \in DOMAIN regions : regions[j].live}}

hang_up(h) == /\ serving = h /\ link[h] = "cut"
              /\ device' = device \ Left
              /\ vx_remote_table_free_all
              /\ link' = [link EXCEPT ![h] = "closed"]
              /\ serving' = NoHost
              /\ requests' = [requests EXCEPT ![h] = <<>>]
              /\ UNCHANGED <<restarts, replies, host>>

(* The worker dies and is started again: the table and the device are new, *)
(* and every connection is broken.                                         *)
restart == /\ restarts < MaxRestarts
           /\ restarts' = restarts + 1
           /\ regions' = <<>> /\ next_offset' = [w \in Workers |-> MinGap] /\ minted' = <<>>
           /\ device' = {}
           /\ serving' = NoHost
           /\ link' = [h \in Hosts |-> IF link[h] = "none" THEN "none" ELSE "closed"]
           /\ requests' = [h \in Hosts |-> <<>>]
           /\ replies' = [h \in Hosts |-> <<>>]
           /\ UNCHANGED host
-----------------------------------------------------------------------------
Serve(h) == \/ accept(h) \/ serve_transfer(h) \/ serve_dispatch(h)
            \/ serve_fetch(h) \/ serve_free(h) \/ hang_up(h)

Continues(h) == \/ encode_args(h) \/ fetch_staged(h) \/ free_staged(h)
                \/ reply_ok(h) \/ reply_refused(h) \/ wire_failed(h)

Starts(h) == \/ vx_remote_connect(h) \/ try_alloc(h) \/ try_fetch(h)
             \/ try_free(h) \/ try_dispatch(h) \/ cannot_cross(h)

Finished == (\A h \in Hosts : Ended(h)) /\ UNCHANGED vars

Next == \/ \E h \in Hosts : Starts(h) \/ Continues(h) \/ dies(h) \/ Serve(h)
        \/ restart
        \/ Finished

Spec == Init /\ [][Next]_vars

(* The worker's loop runs, and a host that is in a call goes on with it.   *)
FairSpec == /\ Spec
            /\ \A h \in Hosts : /\ WF_vars(Serve(h))
                                /\ WF_vars(doing[h] # "none" /\ Continues(h))
-----------------------------------------------------------------------------
Handle == [handle : Nat, buffer : Buffers]

(* The state of the worker, the wires and the hosts has its type.          *)
TypeOK ==
  /\ TableTypeOK
  /\ device \subseteq Buffers
  /\ serving \in Hosts \cup {NoHost}
  /\ restarts \in 0 .. MaxRestarts
  /\ link \in [Hosts -> {"none", "open", "cut", "closed"}]
  /\ doing \in [Hosts -> Calls \cup {"none", "encode", "collect", "ended", "aborted"}]
  /\ \A h \in Hosts : resident[h] \subseteq Handle
  /\ staged \in [Hosts -> Seq(Handle)]
  /\ todo \in [Hosts -> 0 .. MaxStaged]

TypeOfCall(call) == CASE call \in {"alloc", "stage"} -> "TRANSFER"
                      [] call = "dispatch" -> "DISPATCH"
                      [] call \in {"fetch", "read back"} -> "FETCH"
                      [] OTHER -> "FREE"

(* A host reads the reply to the request it waits for, never one an        *)
(* earlier call left in the stream: the client does not look at the type.  *)
InStep == \A h \in Hosts :
            (doing[h] \in Calls /\ link[h] = "open" /\ replies[h] # <<>>)
              => /\ Len(replies[h]) = 1
                 /\ Got(h).type = TypeOfCall(doing[h])

(* The state has its type.  While its connection lasts, each handle a host *)
(* keeps finds the buffer that was allocated for it, whatever earlier      *)
(* hosts left or the table holds in its slots.                             *)
HandlesFindTheirBuffers ==
  /\ TypeOK
  /\ \A h \in Hosts : link[h] = "open" =>
       \A x \in resident[h] \cup Range(staged[h]) :
         LET i == vx_remote_resolve(x.handle)
         IN  i # 0 /\ regions[i].remote = x.buffer

(* The device holds exactly the buffers of live regions: no failed call,   *)
(* no death of a host leaks one, and none is freed under a live handle.    *)
NoBufferLeaks == device = {regions[i].remote : i \in {j \in DOMAIN regions : regions[j].live}}

(* Between two calls the worker holds exactly what the program placed: a   *)
(* dispatch frees everything that it staged.                               *)
DispatchLeavesNothing ==
  \A h \in Hosts : (Ready(h) /\ serving = h) =>
    {regions[i].base : i \in {j \in DOMAIN regions : regions[j].live}}
      = Handles(resident[h])

(* Once every host is gone, the device is free for the next.               *)
MemoryComesBack == (\A h \in Hosts : Ended(h)) ~> (device = {})
=============================================================================
