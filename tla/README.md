# A TLA+ verification of the EOS packet path

EOS runs chains of small, isolated network functions (NFs) on the Composite
component kernel.  A packet enters through a DPDK receive thread, is *copied*
from the memory of one function to that of the next by a trusted memory-copy
agent (MCA), and leaves through a transmit thread.  No two parties share a lock:
they poll the `state` field of the nodes of shared rings, and they block and wake
each other through requests that cross cores.  This directory models that path, and
what it stands on: how chains come up and flows are linked to them, the lists of
connections, the scheduling library with its critical section, timeouts and heap, and
the kernel's retype table.  TLC checks the models on small instances; TLAPS proves the
central invariants of the path for chains, rings, bursts and pools of every size.

All paths below are relative to the repository; `fwp/` stands for
`src/src/components/implementation/no_interface/fwp_manager/`, where EOS lives.

## 1. Inventory

### 1.1 Shared rings (`fwp/eos_ring.h`, `fwp/eos_pkt.h`)

*State.*  Each function owns a shared segment with an input ring, an output ring
and the packet buffers.  A ring is an array of `EOS_RING_SIZE` (128) nodes and three
cursors of different owners: on an input ring `free_head` (the MCA fills here),
`tail` (the function receives here) and `head` (collected up to here); on an
output ring `tail` (the function flushes here), `mca_head` (the MCA or the transmit
thread takes here) and `head`.  A node has up to `EOS_PKT_PER_ENTRY` (8) packet
pointers, a count, a deadline and a state; `cached` is a private copy in which a
function gathers packets before one `memcpy` publishes them; `pkt_cnt` is an
atomic counter that the MCA uses as "how much is waiting".

*Operations.*  `eos_pkt_allocate`, `eos_pkt_send`, `eos_pkt_send_test`,
`eos_pkt_send_flush[_force]`, `eos_pkt_recv`, `eos_pkt_collect`; `eos_pkt_free` is an
empty stub.

*Correct when.*  The cursors keep their order although nobody reads all of them;
the state of a node says truly who owns it; a buffer never changes segments, is never
written while somebody reads it, and returns to the node it came from; a flush never
fails where its error is ignored; `pkt_cnt` counts what it should once all pending
adds are made.

### 1.2 MCA (`fwp/eos_mca.c`, `fwp/eos_mca.h`)

*State.*  A list of connections (source ring, destination ring, thread to wake), an
`mca_info` for each function (deadline, `empty_flag`), a request ring `mca_xcpu`
that functions write to.

*Operations.*  `mca_scan` goes round the list; `mca_process` moves up to
`MCA_BURST_CNT` nodes of a connection: it snapshots both nodes, handles the waiting
reset requests, tests deadlines, copies, hands the source node back, publishes the
destination node, adjusts both counters and wakes the destination.
`mca_conn_create/free` pop and push connections on two linked lists by compare-and-swap,
while the scan unlinks those given up by a plain store; `mca_xcpu_thd_dl_reset`.

*Correct when.*  The snapshots are still true when they are used; no packet is
lost, duplicated or reordered between two functions; every packet handed over has a
wakeup; a packet held back for its deadline is let through in the end; a connection is on
one list, is set up before it is scanned and gets back when it is given up.

### 1.3 Receive thread (`fwp/ninf_rx.c`, `fwp/ninf_ft.*`)

*State.*  The DPDK mbuf pool and its own estimate of it, `tot_free_mbuf`; one output
ring per flow, whose nodes point at mbufs; the flow table.

*Operations.*  `ninf_rx_loop`: reclaim mbufs when the estimate is low, receive a
burst, for each IPv4 packet find the flow's ring, collect, send, retry or drop;
send others back to the NIC.

*Correct when.*  Each mbuf has one owner and is freed once, after its copy; none
leaks; a packet that waits in the cache after a failed flush still goes out, in order.

### 1.4 Transmit thread (`fwp/ninf_tx.c`, `cos_tx_cb` in `fwp/ninf.c`)

*State.*  The list of last rings, one batch per port, a local copy of the node in
hand, the transmit mbuf pool.

*Operations.*  `ninf_tx_process` (copy a node, add its packets to batches, mark it
`TXING`), `ninf_tx_nf_send_burst`, `ninf_tx_flush`; the NIC's callback `cos_tx_cb`
drops one reference and hands the node back at the last.

*Correct when.*  A node is handed back exactly when the NIC has sent its last
packet, the batches do not outlive the frame they point into, and what goes out is
described by its own meta data.

### 1.5 Network functions (`udp_microben`, `memcached-nf`, `SSL_nf`, `mqtt_broker`, `armnn_nf`, `echoserver_nf`)

Their `*_server_run` loops have one shape: collect, receive, on "block" call
`nf_hyp_block`, else process the packet in place, send, flush.  A server replaces
a packet by its answers, possibly none.  Protocol stacks behind the loop are vendored.

### 1.6 Blocking, wakeup, scheduling (`fwp/fwp_sinv.c`, `fwp/eos_sched.c`, `components/lib/sl/`)

*State.*  For each thread its scheduling state, `wakeup_cnt` and its deadline; for each
core a request ring and a heap ordered by deadline.

*Operations.*  `NF_BLOCK` (ask the MCA to reset the deadline, then `sl_thd_block`),
`sl_xcpu_process_no_cs` and its handlers, `sl_thd_wakeup_no_cs_rm`, `sl_mod_schedule`.

*Correct when.*  No wakeup is lost between a receive that found nothing and the
block after it; no thread is woken with "no deadline"; the request ring does not
overflow; the shared core makes progress.

### 1.7 Set-up and substrate

**Start and chains** (`llbooter.c`, `fwp_manager.c`, `fwp_chain_cache.c`, `ninf_rx.c`).  *State:* a
count of the cores that are up, the manager's ids, a cache of forked chains for each core,
the links a flow needs (transmit ring, connections, `mca_info` entries, the addresses of
threads).  *Operations:* start of each core, fork of the chains, `fwp_chain_put/get`,
`ninf_setup_new_chain`.  *Correct when* the barrier keeps the manager behind the lists it
uses, a chain has one owner, a packet never reaches a ring whose links are half made, the
fixed tables are not overrun.

**Heap** (`components/lib/heap.c`), the run queue and timeout queue of a core.  *Correct when* the root has
the least key and every entry knows its index, since it is removed by it.

**Critical section of sl** (`sl.h`, `sl_sched.c`, and of the kernel `capinv.c`).  *State:* one word of owner
and contention bit, the scheduler's token, the events of the receive end-point.  *Operations:*
`sl_cs_enter/exit` with their contended paths, the switch after them, the loop of the
scheduler.  *Correct when* it excludes although preempted anywhere, an outdated
switch is refused, no event is dropped and the scheduler is not shut out.

**Threads and timeouts of sl** (`sl_sched.c`, `sl_mod_fprr.c`).  *State:* state, `wakeup_cnt`, place in the
run queue and in the timeout heap, the timer.  *Operations:* block, sleep, sleep until the next
period, wake, yield, free, the round of the scheduler.  *Correct when* the four places agree and
a sleeper returns neither early without a wakeup nor never.

**Retype table of the kernel** (`kernel/retype_tbl.c`, `pgtbl.h`, `pgtbl.c`).  *State:* for each memory set a global
type, and for each core a word of type and signed reference count; last unmap and last flush of
each core.  *Operations:* map and unmap, retype to memory and to frame, flush.  *Correct when*
memory becomes untyped only when nothing maps it, nobody is about to and no translation cache holds it (the code asks all caches but the last core's, 3.3).

The rest of the kernel (capability tables, temporal capabilities, invocation, boot), Composite's
other components, and vendored libraries: PROJECT.json lists each with what is left out and why.

### 1.8 How they interact

```
 NIC --mbufs--> ninf_rx --out ring 0--> MCA --in ring 1--> NF 1 --out ring 1--> MCA --> ...
                                                               NF L --out ring L--> ninf_tx --> NIC
 MCA --wakeup requests (sl_xcpu)--> core of the NFs      NF --reset requests (mca_xcpu)--> MCA
 NIC --cos_tx_cb--> node of out ring L                   NF --collect--> its own in ring
```

The MCA runs on core 1, the receive thread on 2, the transmit thread on 3, chains
from core 4 on; all functions of a chain share one core (`fwp_allocate_chain`
passes one core id for all of them).

### 1.9 What is hard here

* The MCA reads two nodes, tests, copies and only then writes; it hands the source
  node back *before* it publishes the destination, and reads the source node's count
  again afterwards, when its owner may have collected it.
* `eos_pkt_collect` pairs heads of two rings which two other threads advance.
* Errors that are swallowed: the second flush of `eos_pkt_send_test`, the flush of the
  servers.
* Counters whose adds trail the change they count, in three different units.
* A batch that points into the frame and the reused local of its caller.
* Block against wakeup, across cores; a reset request that is handled much later than
  it was made; a function that spins at a deadline which keeps its consumer off the core.
* Full rings, an empty pool, an empty node.
* A node is copied word by word while the other side polls one word of it.
* Pops and pushes by compare-and-swap beside a plain store to the same word; a list that is filled by
  one core and emptied by another while it starts.
* Everything read before a preemption and used after it: the word of the lock, the thread chosen to run,
  a token.
* One count spread over the words of several cores and summed while they move.

PROJECT.json ("hazards") gives each with its line and the properties that cover it.

## 2. Modules

| module | what it is | models |
|---|---|---|
| `EosChain` | the whole packet path, node by node | 1.1, 1.2 without deadlines, 1.3, 1.5, 1.4 coarsely |
| `PktFifo` | abstract specification of a chain | what the network sees |
| `EosChainProofs` | TLAPS proofs about `EosChain` | |
| `NodeCopy` | the nodes of a ring word by word | 1.1, below the steps of `EosChain` |
| `NinfTx` | the transmit thread in full | 1.4 |
| `NinfTxProofs` | TLAPS proofs about `NinfTx` | |
| `EosEdf` | deadlines, blocking, wakeups | 1.2's deadline tests, 1.6 |
| `EosEdfProofs` | TLAPS proofs about `EosEdf` | |
| `McaConn` | the connection lists of the MCA | 1.2's lists, 1.4's list of rings |
| `McaProofs` | TLAPS proofs about `NodeCopy` and `McaConn` | |
| `EosSetup` | start of the cores, chains, flows | 1.7, and 1.2-1.4 as far as they start and link |
| `EosSetupProofs` | TLAPS proofs about `EosSetup` | |
| `SlCs` | the critical section of a core | 1.7 |
| `SlThd` | threads, timeouts, wakeups of a core | 1.7, the part of 1.6 below `EosEdf` |
| `SlThdProofs` | TLAPS proofs about `SlThd` | |
| `Heap` | the binary heap | 1.7 |
| `PrioQueue` | abstract specification of the heap | what `heap.h` promises |
| `SlProofs` | TLAPS proofs about `SlCs` and `Heap` | |
| `RetypeTbl` | types and references of memory | 1.7 |
| `RetypeTblProofs` | TLAPS proofs about `RetypeTbl` | |
| `MCEosChain`, `MCHeap` | symmetry sets for TLC | |

The layers meet in three places.  `NodeCopy` says what the one-step node accesses of `EosChain` rest on (2.5);
`EosEdf` keeps of the rings what `EosChain` proves of them; `SlThd` takes operations as steps because
`SlCs` shows the section around them to be exclusive, and its timeout queue as a set because `Heap`
is one.

A definition whose name starts with `Mutant` is a plausible bug in the definition that
follows it.  No specification uses it; it exists to show that the properties can fail.

### 2.1 `EosChain`

*State.*  Every ring, cursor and counter of the code has its variable, with the same
meaning: `inNode`, `inHead`, `inTail`, `freeHead`, `inCnt` (input rings),
`outNode`, `outHead`, `outTail`, `mcaHead`, `outCnt` (output rings; ring 0 is the receive
thread's), `inCache`/`outCache` (`cached`), `mem` and `rxMem` (what is in the buffers),
`mca` (the locals of `mca_process`), `rxPc`, `rxMbuf`, `mbufFree`, `mbufNic`, `totFree`
(receive thread), `txRet` (transmit thread).  Three are history: `accepted` and `wire`, the
packets accepted and the packet in each node the transmit thread took, and `brought`, how many packets the
MCA has given a function in its first nodes.  `mbufLost` are the mbufs of packets that are not IPv4 and that
the NIC refused to send back: the receive thread does not look at the result (`fwp/ninf_rx.c:283`), and nobody frees them.

*Actions* carry the names of the functions: `eos_pkt_collect`, `eos_pkt_recv`,
`nf_process`, `eos_pkt_send_flush`, `mca_look`, `mca_transfer`, `mca_publish`,
`ninf_pkt_collect`, `rx_send`, `ninf_tx_take`, `cos_tx_cb`.  A loop is one action per
round.  Steps are split where another thread can see the difference: at every
atomic add of `pkt_cnt` (`recv_faa`, `flush_faa`, `mca_faa_src`, `mca_faa_dst`, `rx_faa`,
`ninf_tx_faa`) and between the two node writes of the MCA.

*Abstractions.*
* The write of a node is one step.  In the code it is a `memcpy` of a struct whose last
  field is `state`; readers test `state` first.  This is the same if the word with the state is
  the last that becomes visible, on which the code relies and which it does not enforce (2.5).
* A packet is its number and the last function that wrote it.  The eight
  pointers of a node always move together and are one buffer.
* Indices are not masked until they are used, as in the code; their `int` overflow (after
  2^31 nodes of one chain) is not modelled.
* `mca_decline` may happen in any state: it over-approximates the deadline tests, so
  the safety properties hold whatever the deadlines are.  `nf_hyp_block` likewise
  returns at any time.
* The receive burst brings one packet at a time; between two packets of a burst the code
  does nothing but what `ninf_rx_loop` does between two bursts, less the reclaim.
* Any functions of a chain may be servers, which answer the packets of a node by 0 to `K` of their own; `fwp_test` builds a
  chain of three with the MQTT broker in the middle.  Such a node of no packets meets `assert(0)` of the MCA
  (`eos_mca.c:175`), which stops it: `mca.pc` is then `"abort"`.

### 2.2 `PktFifo`

Two variables: how many packets were accepted, and what was delivered.  Deliver appends
the next packet, processed by the last function; nothing else is allowed.  `EosChain`
implements it (`FifoSpec`) with `accepted` and `wire` as they are and `Hops <- L`:
twenty-five other variables are hidden.

### 2.3 `NinfTx`

The output ring of the last function with the port of each entry, the batches, the burst
in progress and the mbufs that the NIC holds.  The NIC may take any part of a burst and may
call back in any order, also for a node whose later packets are still being added.
An entry of a batch has the address of an element of the local `scache` and
the physical address of its packet, as `struct tx_pkt_batch` does; the meta data is read
through that address when the batch is sent.

### 2.4 `EosEdf`

`EosChain` proves that the state of a node follows from the cursors, so `EosEdf` keeps only
cursors: packet `k` is in node `k` of every ring.  What it adds: the deadline of each packet,
the deadline and `empty_flag` of each `mca_info`, threads (`thd`, `wakeup`, `prio`), the
request ring to the MCA (`opq`, bounded by `OpSize`, the assertion on a full ring is the
step to `"abort"`) and the requests to the core (`xq`).  `mca_xcpu_process`, the two reads of
the flag test, the gate, the copy and the wakeup are separate steps.  A function steps
only when `Runs(i)`: runnable and of the earliest deadline.  Two things are coarser than in
`EosChain`: the copy with both counter updates is one step, and a transmitted node
is handed back at once.  The assertions that relate a deadline to the time-stamp counter
are left out: there is no clock.

### 2.5 `NodeCopy`

`EosChain` writes a node in one step.  In the code a node is published by one `memcpy` of 128 bytes
while the other core polls its state.  `NodeCopy` has a step for every word, and takes the words of a copy in any order:
`memcpy` is musl's `rep movsl` (`components/lib/musl-1.1.11/src/string/i386/memcpy.s:19-24`), whose stores x86 does not order
for other cores, and `*rn = rcache` of the MCA is laid out by the compiler.  In the 32 bit
build the state shares its last meaningful word with the end of the last packet's metadata.  What holds for any order is `OneLap`: the
producer, which waits for the state of a node the consumer is done with, gets its batch back whole; the consumer, which may look when the
state is there and other words are not, never has a word of a *later* batch: what is wrong is of the batch a ring before.  That it
has all words of one batch (`Whole`), which is what `EosChain` assumes, holds when the word with the state is stored last and not otherwise (3.3).

### 2.6 `McaConn`

The free list `fl` and the live list `lh`, linked through `next`; one step per load, store and swap.  The
creator (the receive thread) pops `fl` and pushes to `lh`; the scan of the MCA walks `lh`, processes what it meets,
unlinks a connection with a cleared `used` by a plain store, and pushes it to `fl`.  Only one thread pops, which is why
a swap that succeeds has read a link that is still good.  `dropped` is a history of what a plain store to `lh` cuts off when
a push came in between: `Kept` says that a held connection is scanned *unless* this happened.  EOS as it stands
never gives a connection up.  What is on a list is `Between`, the least set that holds its head and is closed under `next`.  `ninf_tx.c` has the same code for its rings.

### 2.7 `EosSetup`

Four cores start in any order and count themselves in; the manager waits for them, makes a template and forks
`PerCore` chains for each core in turn into a cache (`put_load`, `put_cas`).  The cores of the functions start at their own pace (`nf_start`),
and nobody waits for them.  The fork of a function asks the core of its chain for a thread (`sl_xcpu_initaep_alloc`, which enters a request in a ring),
goes on at once and reads through `initaep` (`_fwp_fork_cont`); the core answers when its scheduler gets to it (`sl_xcpu_process_no_cs`).  If it has
not, the manager reads through NULL and is taken to stop there (`"null"`).  The request itself is never refused after the barrier: `sl_init` of the first
core sets the bits of *all* cores in `cpu_bmp` (`sl_sched.c:586-590`), so that `-EINVAL` does not come back and `assert(!r)` (`fwp_manager.c:240`) holds.
The ids of functions, chains and segments run against the sizes of their tables; where one is used up the manager stops (`"assert"`, `"no_segment"`).

A packet of a new flow makes the receive thread choose a
core (`ninf_flow2_core`), take a chain from its cache (`get_test`, `get_load`, `get_cas`), add the last ring to the transmit list,
connect the functions, give each input ring its address, connect its own ring, and
only then enter the chain in its table.  The MCA, the functions and the transmit thread move packets along what is linked
by then.  Packets may arrive from the very first poll on.  Every assertion on the way, and every read through an `initaep`, is a step to
`"assert"` if it fails; the one of an empty cache, which does fail, is `"no_chain"`, after which the thread stops.  What is in a cache (`Cached`) is the least set closed
under the links, as in `McaConn`.

### 2.8 `Heap` and `PrioQueue`

`heap_add`, `heap_adjust`, `heap_remove`, `heap_highest` and `heap_peek` with the two loops `swap_up` and `swap_down` round by
round, as many rounds as the array can need; `pos` is the index that an entry remembers.  `QueueSpec` hides array and indices.

### 2.9 `SlCs`

The threads of one core, preempted between any two steps: load of the lock word, compare-and-swap, token, switch.  The
kernel's part is `Switch`: it refuses a switch with an outdated token (-EAGAIN) and one by the scheduler while events are
pending (-EBUSY), and the timer runs the scheduler.  An event goes from the end-point to the scheduler's list and from there, in the
critical section, to `handled`, which counts them.  `toks` keeps, instead of a counter, the order of the
tokens that are not outdated: a set of pairs, in which a token is valid if it is paired with itself.

### 2.10 `SlThd`

What each call does to the four places in which a thread is kept: its state, `wakeup_cnt`, run queue, timeout heap; with
time in steps, `tick`.  `sl_cs_exit_schedule` is one operator because the code ends every operation in it, expiry of
timeouts included.  A timeout of 0 is `sl_thd_block`, as in the code.  The constants say which thread makes which calls.  The threads of a chain block and are woken from another core; the
others sleep and wake each other.  The properties are about threads in these roles; section 3.3 tells what happens to a thread that does both.

### 2.11 `RetypeTbl`

One memory set (sets share nothing), a word per core, page-table entries that map it, and the translation caches.  Each
core runs one kernel operation at a time; each shared access of it is a step.  `flushed` abstracts the two time
stamps of each core by whether a flush is newer than the last unmap.  A failed release, whose error the code hands
to nobody, is counted in `lost`: `RefAccount` is the exact value of the count, `Sum(Counts, n)` being the sum over the first `n` cores.

## 3. Runs

### 3.1 Instances

| run | instance | shows |
|---|---|---|
| `chain_server` | 1 function (a server), rings of 2, 4 mbufs, 4 packets | every invariant of `EosChain`, and `FifoSpec` |
| `chain_long` | 3 functions, the second a server, 3 connections, rings of 1, bursts of 2, nodes of 0 to 2, 2 mbufs, 2 packets | counters before and behind a server, and the FIFO across copies between functions |
| `ninf_tx` | 2 ports, batches of 2, rings of 2 nodes of 2, 3 nodes | references, frames, pool, every node handed back |
| `ninf_tx_meta` | 1 port, batches of 2, nodes of 1 | **violation**: meta data of another packet |
| `edf_chain` | 2 functions, rings of 1, 2 packets of deadlines 1..3, bursts of 2, request ring of 4 | wakeups, deadline assertions, the bound on requests, every packet is delivered unless a function hogs the core |
| `setup` | 2 cores with 2 chains of 3 functions, tables that hold three of the chains, flows 0 and 17, where 17 is the entry of a thread too | one owner of a chain, assertions, links, every packet leaves |
| `mca_conn` | 3 connections | lists, what the scan sees, collection |
| `node_copy` | 2 nodes of 4 words, 5 publications, words in any order | what a side can have copied |
| `slcs` | a worker, the idle thread, the scheduler, 2 events | exclusion, no outdated switch, every event is processed, the scheduler enters |
| `slthd` | 3 threads of 2 priorities and the idle thread, 4 instants, counts up to 3 | bookkeeping, results of timed calls, `sl_thd_block`, sleepers wake |
| `heap` | 7 entries for a heap of 6, 3 keys | heap order, indices, a priority queue |
| `retype` | 2 cores, 2 page-table entries, counts of 4 bits | words agree, what is freed is unmapped and flushed where the code asks, never left locked |

Some properties are conjunctions of named parts.  In `EosChain`: `RingDiscipline` is `RingOrder` and `NodeStates`;
`PacketsInPlace` is `Buffers`, `Contents` and `WireInOrder`; `AssertsHold` is `TypeOK`, `Counts`, `Caches` and `Snapshots`;
`RxOwnership` is `RxBacklog`, `RxContents` and `MbufOwner`.  `Wakeups` of `EosEdf` is `WakeupCnt` and `NoLostWakeup`; `Pointers` of `NinfTx`
adds `FrameLive` and `NicReads` to the types; `Bookkeeping` of `SlThd`, `WordsAgree` of `RetypeTbl`, `HeapSound`, `ListsSound` and
`Asserts` likewise.

*Why the bounds are enough to be interesting.*  With rings of one or two nodes every cursor
wraps within the packets offered; the ring is full, empty and half full; the MCA holds a
snapshot while its neighbours lap it; the receive thread meets the full ring with an
empty and with an occupied cache; `LowWater` makes it reclaim and not reclaim; bursts of
one and of two leave the loop of `mca_process` by both exits.  In `ninf_tx` batches and nodes are
of equal size, so that a batch spans nodes and a node spans batches.  In `edf_chain`
deadlines differ by less and by more than `Offset`.  In `setup` the caches are used up, the second chain of a core is
pushed while the first is popped, and the manager stops for want of ids or of a thread.  Three connections are what it takes to unlink at the head, in the middle and at the end.  A node is
published three times in `node_copy`.  Two events let one arrive while the scheduler handles the other.  Six entries make a heap of three levels whose last
parent has one child.  Two cores in `retype` map on one and unmap on the other, which makes counts negative, and race each pair of operations.
Between them the passing runs take every action and every disjunct.  Mbufs are compared for equality only, entries
of the heap by key and index, so both are symmetric.

`edf_chain` offers two rings of packets, which is what it takes for the one known way in which a chain stops: the first function fills the
ring between the two, finds its own ring full of
sent nodes and spins on `-ECOLLET` without blocking; on a shared core, at an earlier or
equal deadline, the second never runs (`Hogs`).  This happens within the bounds, and `fwp_test` builds chains of three functions on one core; so
`AllDelivered` is false (3.3) and `Delivered` says that the chain stops in no other way.  The run was also made once with three packets
(N 1, MaxPkt 3, MaxDl 2, Offset 0, OpSize 6), where one more packet arrives behind those that are stuck.

The bounds of `setup` are small tables, not small chains: `MaxChainLen` 1 and `ChainLen` 3 stand in the same relation as in the repository, so that the manager
stops at the fourth chain.  `ConnMax` is as small as `ConnAssumption` allows, which the repository's 2048 satisfies.

`node_copy` and only it may stop: all batches are published and nothing is left to do.

### 3.2 Fairness

`EosChain` has none: its properties are safety.  `NinfTx`: weak fairness of the transmit
thread, which has its core to itself and never blocks, and of the NIC, which sends what it was
given; none for the function.  The latter supposes that the driver frees sent mbufs, which is when `cos_tx_cb` runs, in the
end; drivers that free them only in a later burst need the traffic to go on.  `EosEdf`: weak fairness of the MCA and of the transmit thread (cores
of their own, polling loops), of the NF core as a whole (its scheduler always runs *some*
thread with the earliest deadline) and of its scheduler on requests (a timer interrupts the
running thread).  There is none for a single function: which of two equal deadlines runs is open.
None for the wire: packets need not come.

`NodeCopy` has none.  `McaConn`: weak fairness of the scan, and of a create that has begun; nobody has to create or give up.
`EosSetup`: of each of the four system cores, and of each chain, whose core runs nothing else in the model; none for the start of the cores of the functions and their answers to the manager.
`SlCs`: strong fairness of every thread's steps (a thread that runs again and again gets something done) and of the timer
while the lock is free: the timer does not follow what threads do, so it does not always find one in its critical section.  `SlThd`: weak
fairness of time and of the scheduler, which `SlCs` justifies (`SchedEnters`).  `RetypeTbl`: of a core inside the kernel, which is not
preempted there; none for entering it.

### 3.3 Where code and its own words disagree

**Checked as a run.**  `ninf_tx_meta`: entries of a batch point into the local `scache`, which the next
node overwrites before the batch is sent: an mbuf gets the length and virtual address of
another node's packet beside the physical address of its own (`fwp/ninf_tx.c:189-192`, read at 113-117).

**Stated in the modules, and known to fail.**  Each of these is what a comment or an assertion of the code says.  The modules keep the statement
with a remark; to see the counterexample, make a configuration with the constants given and the statement as its invariant or property.

| statement | constants | what the code does |
|---|---|---|
| `DropGoesOn` (`MCEosChain`) | L, N, K, Burst 1, no servers, 3 mbufs, LowWater 2, MaxPkt 3 | the branch marked "drop pkts" (`fwp/ninf_rx.c:314`) frees the mbuf, counts the drop and ends in `assert(0)` (line 328): a full ring stops the receive thread |
| `CountsNodes` (`EosChain`) | those of `chain_long` | a flush adds 1 to `pkt_cnt` for a node of any size (`fwp/eos_pkt.h:65,88`), the MCA takes off the node's packets (`fwp/eos_mca.c:227`): behind a server that answers with two packets the count of its output ring, which `mca_process` takes for what is waiting (line 191), is one short for ever.  `PktCnt` is what it is |
| `NoEmptyNode` (`EosChain`) | those of `chain_long` | a server in the middle that answers with nothing flushes a node of no packets, and `assert(0)` at `fwp/eos_mca.c:175` stops the MCA and with it every chain |
| `OpRingFits` (`EosEdf`) | L 1, N 2, Burst 2, Offset 1, OpSize 2, MaxDl 1, MaxPkt 3 | each packet handed to a busy function is a wakeup it later spends on one `NF_BLOCK` with one reset request; the MCA takes requests off only when it has a node to copy.  After more packets than the ring has entries and a pause, `assert(0)` at `fwp/fwp_sinv.c:117` is reached.  `OpsBounded` is the bound that does hold |
| `OnlyFromNever` (`EosEdf`) | L 3, N 3, Burst 2, Offset 1, OpSize 6, MaxDl 2, MaxPkt 3, deadlines 1, 2, 2; or L 2, N 8, Burst 3, Offset 1, OpSize 6, MaxDl 2, MaxPkt 8, the first four 1, the others 2 | `assert(dst_info->deadline == EOS_MAX_DEADLINE)` (`fwp/eos_mca.c:236`).  With three functions: the second one's reset request, posted while the MCA is about to copy to it, is handled when it has sent that packet and not yet been counted; its deadline becomes "none", the `hack` restores it from the *next* packet, later than the first function's, and so does the third one get it; the packet after that meets a destination whose deadline is neither earlier nor "none".  With two, a flag read before and a gate that refuses after the flag was used leave the first function without a deadline while it has an older packet outstanding.  Both schedules are some forty steps deep, beyond a breadth-first search; they were found by restricting `Next`.  `fwp_test` builds chains of three |
| `AllDelivered` (`EosEdf`) | those of `edf_chain` | a function whose nodes are all sent and not taken spins on `-ECOLLET` and keeps the next one, which shares its core and is not more urgent, from running (`udp_microben.c:149-174`, `sl_mod_edf.c:62-111`): packets stay in the chain for ever.  `Delivered` is what remains |
| `Whole` (`NodeCopy`) | those of `node_copy` | readers take a node whose state is right for a whole node.  Its stores have no order for other cores (2.5): one that sees the state early copies words of the batch a ring before.  With the state stored last it holds |
| `ChainFound` (`EosSetup`) | those of `setup` | the receive thread polls the NIC before the manager has forked a chain (`llbooter.c:509-513`, `fwp_manager.c:492-511`): `assert(0)` of `fwp_chain_get` (`fwp_chain_cache.c:24-28`) |
| `TablesFit` (`EosSetup`) | those of the repository: NCore 12, PerCore 1, ChainTypes 3, NfTypes 5, MaxChainLen 1, ChainLen 3, ConnMax 2048, Cid {0} | the chain of `fwp_create_click_mqtt_chain` has three functions, the tables are sized for one (`eos_utils.h:17`): the assertion at `fwp_manager.c:397` fails at the fifth chain, for which there is no segment either (335).  It fails with those of `setup` at the fourth |
| `ThreadsInTime` (`EosSetup`) | those of `setup` | the manager reads `initaep->state` (`fwp_manager.c:239`) right after it asked another core to make the thread: if that core has not started or has not got to the request, `initaep` is NULL |
| `InfoOwn` (`EosSetup`) | those of `setup` | flow ids up to 2048 are accepted (`ninf_rx.c:204`), from `EOS_MAX_CHAIN_NUM` on the entries of `global_info` belong to threads: a flow and a thread share a deadline |
| `InArray` (`Heap`) | those of `heap` | "max allocated size" (`heap.h:10`): a full heap uses the index `max_sz`, one past the array of the timeout heap (`sl_sched.c:72`) and of `heap_alloc` |
| `ContendedExit` (`SlCs`) | those of `slcs` | "switch to the scheduler thread if there is pending contention" (`sl.h:208`): the token is taken before the word is read, an -EAGAIN of the kernel is ignored, and the thread runs on until the next timer interrupt |
| `BlockCount` (`SlThd`) | Low {a, b}, Waiting {a}, Blocker {a}, Waker {b}, others empty | `assert(cnt >= 1)` (`sl_sched.c:254`): `sl_thd_wakeup_no_cs` marks a thread WOKEN without counting, the block that follows counts down all the same.  Wakeups from other cores count, and those of a chain are |
| `JustBlock` (`SlThd`) | those of `slthd` with a blocker in Sleeper | the end of a sleep adds to `wakeup_cnt` and the sleep takes none: the next `sl_thd_block` returns at once |
| `NotInHeap` (`SlThd`) | a in Sleeper and in Remote | `assert(t->timeout_idx == -1)` (`sl_sched.c:84`): a wakeup from another core leaves a sleeper in the heap (`sl_xcpu.c:250`) |
| `ExactPeriod` (`SlThd`) | a in Periodic | "1 if it wokeup exactly at timeout" (`sl.h:256`): the code returns 0, as for an external wakeup (`sl_sched.c:324`) |
| `ReturnsZero` (`RetypeTbl`) | 1 entry, RefBits 4, MaxRef 1, MaxLost 1 | `return ret` with the 0 of a failed swap (`retype_tbl.c:160`) tells the caller that the set was freed |
| `RefIsMappings` (`RetypeTbl`) | the same | "the # of mappings" (`retype_tbl.h:35`): unmap replaces the entry first and releases afterwards; a release that fails beside a retype is never made up for, and the set can never be freed |
| `FlushedOnAllCores` (`RetypeTbl`) | the same | "on all cores?" (`pgtbl.c:63`): the loop leaves out the last core, on which EOS runs functions: memory can be used again while that core has an old translation of it.  `AskedFlushed` is about the others |
| `CountNeverWraps` (`RetypeTbl`) | RefBits 2, MaxRef 4 | the overflow test compares a signed field with the maximum of an unsigned one (`retype_tbl.c:40`) |

Smaller observations: `tot_free_mbuf` loses one for every passed-through packet,
so that the reclaim runs on every round after enough of them, and the mbuf of one that the NIC refuses is lost (`PoolAccount` states the exact values);
functions that use `eos_pkt_send` never stamp a deadline on the node; after one failed trailing
flush the receive thread stays one packet behind until the ring is idle (`RxBacklog`); the removal of a connection at the head
of the MCA's list cuts off one that is pushed meanwhile (`Kept`).

## 4. Proofs

A theorem about a module holds for every value of its constants; where it takes a hypothesis, that is named.

### 4.1 `EosChainProofs`

For every `L`, `N`, `K`, `Burst`, pool and water mark allowed by `ChainAssumption` and
`PoolAssumption` (positive sizes, a finite pool, servers anywhere in the chain), and without a bound on
the number of packets other than `MaxPkt`, which is any natural number.

The invariant `IInv` is the conjunction of thirteen parts, and each needs others:

* `RingOrder` is about cursors only, but a thread moves its cursor on the evidence of a node's state, so
  it needs `NodeStates`; `NodeStates` is preserved because two live indices never share a slot
  (`SlotInj`), which needs `RingOrder`'s "no more than a ring apart".
* The cursor of the MCA lags behind the node it has handed back: `Taken` adds the node in
  flight, and `Snapshots` says what the MCA's locals are worth between its two writes.
* `Buffers` needs that collect pairs equal indices (`RingOrder`) and `Contents` needs `Buffers`: a write
  into a buffer disturbs no other node because buffer and slot are the same number.
* `Counts` says which nodes have packets, and which have just one (those no server comes before, `OneEach`); `Caches` is needed for the
  flush condition `idx >= cnt`.
* `Recount`, a part of `Snapshots`, is the deferred `sn->cnt` read of the MCA: the node was handed back, may have been collected and
  be free, and still has its count, since the one that could take its place has yet to come through the MCA.
* `RxBacklog`, `RxContents`, `MbufOwner` do for ring 0 what `Caches`, `Contents`, `Buffers` do for
  the others; `MbufOwner` has to exclude that the mbuf just received is in the ring.
* `WireInOrder` follows from `Contents` at the moment the transmit thread takes a node.

The argument goes action by action (`Inductive` has one step for each thread).  For functions,
`SegmentOf(i)` collects the parts that speak of one segment: a step of function `i` preserves it
and leaves the rest alone, which `nf_run`'s frame lemma turns into `IInv'`.

Theorems: `Invariance` (`Spec => []IInv`) and from it `TypeCorrect`, `RingSafety` (`RingDiscipline`), `BufferSafety`
(`PacketsInPlace`), `Assertions` (`AssertsHold`), `InOrderDelivery` (`WireInOrder`), `ReceiveSafety` (`RxOwnership`), and `FlushNeverFails`
(`FlushSucceeds`), which is the most useful one to a
reader of the code: the `*_server_run` of `SSL_nf`, `armnn_nf` and `echoserver_nf` ignore the error of their flush, `eos_pkt_send_test` swallows it,
`mc_server_run` asserts it away, and this says there is none.

Three more stand on `IInv` and are not parts of it:

* `ChainIsFifo` (`FifoSpec`).  A step of the receive thread that accepts a packet counts one up; `ninf_tx_take` extends
  `wire`, and `WireInOrder` says by what; all others stutter.  That the packet delivered was accepted before is an argument along the chain (`TailsFall`: no
  function is ahead of the receive thread), by the first function for which it fails.
* `PktCntRight` (`PktCnt`), inductive relative to `IInv`.  Nodes behind a server have any number of packets, so the packets between two cursors are a sum over nodes;
  `brought` keeps its partial sums, which turns the sum into a difference (`BroughtOf`; `BroughtLen` in `IInv` makes it as long as `freeHead`).  Every step then changes one side of
  the equation by what it changes the other, but for steps of the MCA on a ring that is both source of one copy and neighbour of another, which are
  told apart by `Dst`.
* `PoolBalance` (`PoolAccount`), likewise, with the cardinality theorems of the library: `MbufOwner` makes the sets between which an mbuf moves disjoint, those of refused mbufs included.

### 4.2 `EosEdfProofs`

For every chain length, ring size, burst, offset, request ring and set of deadlines.  `WakeupCnt` and
`NoLostWakeup` speak of blocked threads, but what goes wrong in a lost wakeup is decided earlier: a function finds
its ring empty, the MCA copies a packet and requests a wakeup, the scheduler counts it, and only then does the function
call `sl_thd_block`.  The invariant therefore has `Blocking`:

* a function between that receive and the end of the block, which has a packet waiting, has a wakeup count of at least
  two or a wakeup coming (the MCA about to request it, or a request in the ring), so the block that follows only counts down;
* a blocked thread is in none of those steps.

`Cursors` (each cursor behind the one before it on the path; the node the MCA is about to copy is there) is needed
only to type the deadlines.

`OpsBounded` is inductive relative to that invariant: a copy adds one packet handed on and one wakeup owed, the request turns what is owed into a request, the
scheduler turns the request into a count, and `NF_BLOCK` turns a count into a reset request; no step adds on the left without adding on the right.

`DeadlineAsserts` needs `DInv` on top.  Its core is that packets arrive in the order of their deadlines (`Sorted`; the receive thread stamps them from a clock) and that
the first function's deadline, if it has one, is no later than that of *some* packet it was given (`FirstDl`): a deadline is set from the packet being copied when it is earlier, and taken back to "none" by a reset.  So when
the MCA copies a later packet and finds a deadline after the packet's, there is none.  For the functions behind it the corresponding statement is false: their source is a function, whose own deadline may have been reset and
restored from a newer packet (3.3, `OnlyFromNever`).  `SrcHasDl` carries "the source has a deadline" from the gate to the wakeup although reset requests are handled in between for others; the last request of a
function, which gives a thread its priority, is a maximum of a set of numbers, found as the least counterexample (`LastOne`).

Theorems: `EdfInvariance`, `WakeupsCounted` (`WakeupCnt`), `NoWakeupIsLost` (`Wakeups`), `ResetsBounded` (`OpsBounded`), `DeadlinesInvariant`, `DeadlinesAsserted` (`DeadlineAsserts`).

### 4.3 `SlProofs`

*The critical section*, for any set of workers and any number of events.  `CsInv` is `Exclusion` with `Copies`: the copy a thread swaps from was a word
without an owner on the way in.  That the thread was preempted between load and swap needs no more, since a swap that succeeds says the word is the same *now*.  It also has
`Bounded`, the conservation of events: those to come, at the end-point, in the scheduler's list, in the request ring and handled add up to all of them.  That
they *are* handled (`EventsProcessed`) is left to TLC.

`SwitchTo` needs another invariant, `TokInv`, about what a thread remembers *while its token is not outdated* (`Vouched`): an owner that was read
still owns the word, a thread that was chosen is still runnable.  Both can become untrue only by steps of another thread, and another thread runs only by an accepted switch, which
outdates all tokens up to its own, or because the timer ran the scheduler.  So the tokens that the kernel would accept are those of the thread that runs and of threads the
scheduler preempted, and those of the scheduler are newer (`TokOrder`): its own switch outdates them.  `TokPlace` says at which steps a thread can have such a token at all.

Theorems: `CsInvariance`, `MutualExclusion` (`Exclusion`), `TokInvariance`, `SwitchesCurrent` (`SwitchTo`).

*The heap*, for any set of entries, any greatest key and any capacity above zero (`HeapAssumption`).  `HeapSound` is inductive as it stands; the work is in the loops.  A loop is a function over the number of rounds, and what is needed of it is stated once, for any round function on any set of
states (`RoundsExist`, `RoundsEnd`): the rounds exist, and if each stays in the set and comes nearer to its end, the loop is over after as many as it is given.  Both are proved by the first round that goes wrong.  The set of
states is, for `swap_up`, the arrays with the same entries, each of which knows its place, in order but for the entry at the index that moves (`Loose`: it may be out of place upwards or downwards, but what is below
it is no better than what is above it); for `swap_down` it may be out of place downwards only (`Heavy`).  One round is `UpKeeps` and `DownKeeps`; `Heapify` puts the two together: at the end of `swap_up` the
entry is loose but no better than its parent, so it is heavy.  Then each operation makes one entry loose: `heap_add` the one at the end, `heap_adjust` the one whose key changed, `heap_remove` the one that takes the place
(`Filled`), which may have to go either way, `heap_highest` the one at the root, which cannot go up.

For the refinement, the root has the least key (`Root`, by the first index that has a lesser one), and the members are as many as the array is long (`Count`), so that only a full queue refuses.  Every operation is the
operation of `PrioQueue` of the same name.  Theorems: `HeapAlwaysSound` (`HeapSound`), `HeapIsQueue` (`QueueSpec`).

### 4.4 `McaProofs`

*The nodes of a ring*, for any ring, any positive number of words and batches, and any order of the words.  `CopyInv` counts published batches by the state (`Pub`), not by `tail`, which follows
when the last word of the copy is stored.  `Batches` says what each word of a node is (`WordOf`): of the batch at hand, but for the words that the producer has yet to store, which are of the one a ring before;
`Copied` says the same of the two local copies.  The state says no more than that the copy has begun; that the consumer still gets nothing newer is because the producer
comes to the node again only after the consumer handed it back.  Theorems: `CopyInvariance`, `CopiesOneLap` (`OneLap`).

*The connections*, for any number of them.  A list is the least set that holds its head and is closed under `next`, so that no induction is needed: to show that a walk stays inside a set
it is enough that the set is closed (`Least`).  `Chain` (nobody points to the head, no two to the same) makes it a list; the lemmas say what pushing, popping and unlinking do to one.
`Creator` is the absence of the ABA problem: nobody else pops, so while the connection that was read is the head, its successor is what was read.  `Scan` says what the place of the scan is worth
while others push in front of it.  Theorems: `ConnInvariance`, `ListsAreSound` (`ListsSound`), `HeldAreKept` (`Kept`).

### 4.5 `RetypeTblProofs`

For any number of cores and page-table entries, under one hypothesis, `CountsFit`: operations start only on cores whose count is within
`MaxRef` of zero, and `MaxRef + 1` is less than half the range of the field.  The code does not guarantee it (3.3, `CountNeverWraps`); it takes
2^(n-1) mappings on one core to break it, and for a count that wraps the theorems are false.

`TblInv` says who retypes (`One`: one core at most, and then the global word is locked), how far it has come (`Progress`: which words
it has changed, and that its partial sum is that of the words it has *locked*, which nobody can change any more), that the sum of all
counts is mappings plus operations under way plus failed releases (`RefAccount`), and for the translation caches of the cores that are asked `Stale`: a core that may hold a mapping which is gone has not flushed
since its release, and a flush under way has not seen it.  A sum over cores is a recursive function; what is needed of it (one word
changed, partial and full sums) is proved by the least counterexample, from `WFMin` of the library.

Theorems: `TblInvariance`, `WordsOfCores` (`WordsAgree`), `FreedIsUnmapped` (`FreeUnmapped`), `AskedCoresFlushed` (`AskedFlushed`).

### 4.6 `SlThdProofs`

For any finite sets of threads, any periods and any length of time, under one hypothesis, `Roles`: a thread that calls `sl_thd_block` starts blocked and is woken from other
cores, and such a thread does not sleep.  The threads of a chain are of this kind, and the instance of `slthd` satisfies it; 3.3 tells what fails otherwise (`BlockCount`, `JustBlock`, `NotInHeap`).

*Lists.*  What is needed of the run queue is which threads are on it, once each, and on the list of their priority (`Lists`, `Listed`); removing a thread, putting it in front and putting it at the end
are one lemma each.  The expiry of timeouts does this for one thread after the other, in the order of the heap; that it puts in front just the threads that expired is proved by the first one for which it fails (`AllLists`).

*The choice.*  `Schedule`: from places that agree (`Agree`: state, lists, heap, `wakeup_cycs`) `sl_cs_exit_schedule` makes places that agree, a current thread that is on the lists or the idle thread, and a timer on its
grid (`Grid`).  An operation then only has to show that what it hands to the choice agrees (`MovedIn`, `MovedOut`, `MovedAsleep`).

*The invariant.*  `ThdInv` has two parts that no property states and both action properties need.  `Counted`: for a thread that blocks, `wakeup_cnt` is the number of wakeups it has not answered, plus one while it runs,
and it is blocked exactly when there are none; from this `assert(cnt >= 1)` and `JustBlock` follow.  `Timed`: a thread in a call with a timeout sleeps, or was woken early and its `wakeup_cycs` is still 0, or its timeout has passed and `wakeup_cycs` lies
between the timeout and now; what the call returns is computed from these two numbers, long after the event.  `Result` asks of both kinds of call that one which returns
before its timeout returns 0 to a thread that was woken.

Theorems: `ThdInvariant`, `BookkeepingAlways` (`Bookkeeping`), `ResultHolds` (`Result`), `JustBlockHolds` (`JustBlock`).

### 4.7 `NinfTxProofs`

For any number of ports, any ring, node, batch and pool.  `All` is the set of (node, packet) pairs that batches, burst in progress and NIC still refer to.  `Once` says the
three are disjoint and without repetition, `Where` that they refer to nodes between the two cursors.  Then `Counts` can be stated with cardinalities: a taken node counts what refers to it, the node
in hand also what is still to be added.  The delicate place is the end of a node: `TXING` is written after the last packet was added, and the callback for earlier packets may have run
before that.  `LastIn` is what makes it right: a batch is sent to make room for the *next* packet, so the packet that completes the node has not been sent when the state is written, and the count is not yet zero.

`PoolEnough` is a counting argument: what the NIC holds is mapped by node and entry into `Slots \X Entries`, injectively, and the packet being sent is none of it, so that fewer than `N * K` buffers are out.

Theorems: `TxInvariance`, `CountsUnsent` (`References`), `PointersLive` (`Pointers`), `PoolSuffices` (`PoolEnough`).

### 4.8 `EosSetupProofs`

`OneOwner` is proved for every value of the constants.  The manager alone puts and the receive thread alone takes; chains are put in the order of their
ids and never come back.  So the cache of a core is a stack linked downwards (`Shape`), its contents are what was put and not taken (`Stack`), and the swap of
`fwp_chain_get` cannot meet an old head with a new successor (`GetLocals`).  `Cached(k)`, what is reachable along the links, is the least closed set again, and equals `Stack(k)`.

`Asserts` and `Addressed` are proved for every value of the constants too, under the assumption of the module that the MCA's table of 2048 is large enough for the threads, connections and flow ids there can
be (`ConnAssumption`; the constants of the repository satisfy it).  Nothing is assumed of the tables of the manager: in the repository they are too small, the manager stops at one of its own assertions, or at the NULL that it reads when a core
is late (3.3: `TablesFit`, `ThreadsInTime`).  What the theorems say is that the receive thread and those behind it are not harmed by any of this: wherever the manager stopped, in whatever order cores started and however early packets arrive, a chain in a cache is
complete.  `SetupInv` has for this the order of the start (`Boot`: the count of the barrier is the number of cores past
it), ids in blocks of `ChainLen` and below their limits (`Ids`), which functions have threads (`Threads`), each list as long as the chains taken and the progress of the one in hand require (`TxList`, `ConnCount`), what is linked (`Linked`, `Infos`), and who was woken for which packet (`Ready`, `Woken`).

Theorems: `OwnInvariance`, `OwnChains` (`OneOwner`), `SetupInvariance`, `SetupAsserts` (`Asserts`), `LinksRight` (`Addressed`).

### 4.9 Only model-checked

* All liveness: `Served`, `HandedBack`, `Collected`, `Delivered`, `EventsProcessed`, `SchedEnters`, `WakesUp`, `Unlocked`.  The prover has no support for fairness and ENABLED.

## 5. Not modelled

* Removing chains while traffic flows: the code has no caller of it.  `McaConn` models the removal of connections.
* More than one packet of a chain in `EosSetup`, more than one flow in `EosChain`: chains share no state once linked.
* `ninf_ft`, the hash table of flows: as compiled (`PER_FLOW_CHAIN`) the receive thread takes the flow from the port and does not use it.
* In `SlCs`, `sl_lock` and yields to a named thread, and wakeups by threads of the same core; in `SlThd`, threads suspended in `cos_rcv` and budgets; in both, child
  schedulers, which EOS does not have.
* The bound of the request ring of a core (`sl_xcpu.c:70`): it depends on how long the scheduler does not run, and there are no time slices.
* Time: cycles, `OFFSET_US` against a clock, statistics; the wrap of tokens and of the cycle counter.
* Of the kernel: capability tables and temporal capabilities (chains are set up by one core before they run and get time without end), sends to other
  cores (empty stubs on i386, `platform/i386/chal.c:36-45`), the stack of invocations, the liveness table, the walk of page tables, faults, boot.
* ELF loading, page tables and segments of the loader, PCI and DPDK internals, vendored protocol stacks.

## 6. Plan

Done, in this order: `EosChain` with `PktFifo` (the path itself), its proofs, `NinfTx`, `EosEdf`, its wakeup proof; then what the path
stands on: `McaConn` (compare-and-swap lists), `EosSetup` (flows and chains), `Heap`, `SlCs`, `SlThd`, `NodeCopy`, `RetypeTbl`.

Proved since: `PktCnt`, `PoolAccount` and `FifoSpec` of `EosChain`, `OpsBounded` of `EosEdf`, and the safety of `NodeCopy`, `NinfTx`, `McaConn`, `SlCs`, `RetypeTbl` and
`EosSetup`; then `DeadlineAsserts` of `EosEdf`, and `Heap` with its refinement.

With `SlThd` (`Bookkeeping`, `Result`, `JustBlock`) every safety property of the passing runs has its theorem.  Not begun: capability tables of the kernel,
and budgets and child schedulers of sl.

## 7. Running it

```
tlc -workers 2 -config MCEosChain1.cfg MCEosChain      # module and cfg of each run are in PROJECT.json
tlc -workers 2 -config MCHeap.cfg MCHeap
tlc -workers 2 -config MCRetypeTbl.cfg RetypeTbl
tlapm EosChainProofs.tla                               # and likewise EosEdfProofs, SlProofs, SlThdProofs,
                                                       # McaProofs, RetypeTblProofs, NinfTxProofs, EosSetupProofs
```

The longest runs, `chain_server` and `retype`, take two to three minutes on two cores, `chain_long` one, the others less than a minute.  The proofs use Z3 and Zenon for
the steps and LS4 for the temporal rule.
