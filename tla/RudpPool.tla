------------------------------ MODULE RudpPool ------------------------------
(***************************************************************************)
(* The packet allocator of a struct rudp (src/unnamed/part_002, rudp_init  *)
(* and rudp_deinit in src/include/rudp/list.h): packet chains of the       *)
(* default size are kept on free_packet_list for reuse, at most            *)
(* FREE_PACKET_POOL of them; larger ones go straight back to the           *)
(* allocator.  The callers are the allocation sites of the library: some   *)
(* check for NULL, the engine's and the endpoint's do not.                 *)
(***************************************************************************)
EXTENDS Integers, FiniteSets, Functions

CONSTANTS
    FREE_PACKET_POOL,     \* 10 in part_002
    DEFAULT_ALLOC_SIZE,   \* RUDP_RECV_BUFFER_SIZE, 4096
    Sites,                \* allocation sites: [asked : Nat, checked : BOOLEAN]
    MaxLive               \* bound on packet chains in use at once

ASSUME FREE_PACKET_POOL \in Nat /\ DEFAULT_ALLOC_SIZE \in Nat \ {0}
ASSUME \A s \in Sites : s.asked \in Nat /\ s.checked \in BOOLEAN

VARIABLES
    live,               \* rudp_init done and rudp_deinit not yet
    pool,               \* chains on rudp->free_packet_list
    free_packets,       \* rudp->free_packets
    allocated_packets,  \* rudp->allocated_packets (uint16_t)
    inuse,              \* chains handed out, by alloc_size
    heap,               \* ghost: chains obtained from mem_alloc, not yet freed
    crashed             \* an allocation site used a NULL chain

vars == <<live, pool, free_packets, allocated_packets, inuse, heap, crashed>>

\* The alloc_size a request gets: at least the default size.
AllocSize(asked) == IF asked < DEFAULT_ALLOC_SIZE THEN DEFAULT_ALLOC_SIZE ELSE asked
AllocSizes == {AllocSize(s.asked) : s \in Sites}

\* Chains the library's users hold.
InUse == SumFunction(inuse)

TypeOK ==
    /\ live \in BOOLEAN /\ crashed \in BOOLEAN
    /\ pool \in Nat /\ free_packets \in 0..65535
    /\ allocated_packets \in 0..65535
    /\ inuse \in [AllocSizes -> Nat] /\ heap \in Nat

Init ==
    /\ live = FALSE
    /\ pool = 0 /\ free_packets = 0 /\ allocated_packets = 0
    /\ inuse = [z \in AllocSizes |-> 0]
    /\ heap = 0
    /\ crashed = FALSE

\* rudp_init: an empty pool and zeroed counters.
rudp_init ==
    /\ ~live
    /\ live' = TRUE
    /\ pool' = 0 /\ free_packets' = 0 /\ allocated_packets' = 0
    /\ UNCHANGED <<inuse, heap, crashed>>

\* rudp_deinit, once every chain has been freed: the pooled chains go back
\* to the allocator; the counters are left as they are.
rudp_deinit ==
    /\ live
    /\ \A z \in AllocSizes : inuse[z] = 0
    /\ live' = FALSE
    /\ pool' = 0
    /\ heap' = heap - pool
    /\ UNCHANGED <<free_packets, allocated_packets, inuse, crashed>>

\* rudp_packet_chain_alloc called from site s: a default-sized request
\* takes the head of the free list if there is one; otherwise mem_alloc,
\* which may fail and return NULL, the result a checked site refuses and
\* an unchecked site dereferences.
rudp_packet_chain_alloc(s) ==
    LET z == AllocSize(s.asked) IN
    \/ /\ z = DEFAULT_ALLOC_SIZE /\ pool > 0
       /\ pool' = pool - 1
       /\ free_packets' = (free_packets - 1) % 65536
       /\ inuse' = [inuse EXCEPT ![z] = @ + 1]
       /\ UNCHANGED <<allocated_packets, heap, crashed>>
    \/ /\ ~(z = DEFAULT_ALLOC_SIZE /\ pool > 0)
       /\ \/ /\ heap' = heap + 1
             /\ allocated_packets' = (allocated_packets + 1) % 65536
             /\ inuse' = [inuse EXCEPT ![z] = @ + 1]
             /\ UNCHANGED crashed
          \/ /\ crashed' = ~s.checked
             /\ UNCHANGED <<allocated_packets, inuse, heap>>
       /\ UNCHANGED <<pool, free_packets>>

\* The trim loop of rudp_packet_chain_free: drop pooled chains while
\* free_packets > FREE_PACKET_POOL.
Excess(f) == IF f > FREE_PACKET_POOL THEN f - FREE_PACKET_POOL ELSE 0

\* Fault model: the trim frees pooled chains without counting them.
chain_free_uncounted(z) ==
    /\ inuse' = [inuse EXCEPT ![z] = @ - 1]
    /\ IF z = DEFAULT_ALLOC_SIZE
       THEN LET n == Excess(free_packets + 1) IN
            /\ pool' = pool + 1 - n
            /\ free_packets' = (free_packets + 1 - n) % 65536
            /\ heap' = heap - n
            /\ UNCHANGED allocated_packets
       ELSE /\ heap' = heap - 1
            /\ allocated_packets' = (allocated_packets - 1) % 65536
            /\ UNCHANGED <<pool, free_packets>>

\* rudp_packet_chain_free of a chain of alloc_size z: a default-sized one
\* goes to the free list, any other back to the allocator; then the pool
\* is trimmed.
rudp_packet_chain_free(z) ==
    /\ inuse' = [inuse EXCEPT ![z] = @ - 1]
    /\ IF z = DEFAULT_ALLOC_SIZE
       THEN LET n == Excess(free_packets + 1) IN
            /\ pool' = pool + 1 - n
            /\ free_packets' = (free_packets + 1 - n) % 65536
            /\ allocated_packets' = (allocated_packets - n) % 65536
            /\ heap' = heap - n
       ELSE /\ heap' = heap - 1
            /\ allocated_packets' = (allocated_packets - 1) % 65536
            /\ UNCHANGED <<pool, free_packets>>

Alloc ==
    /\ live /\ ~crashed /\ InUse < MaxLive
    /\ \E s \in Sites : rudp_packet_chain_alloc(s)
    /\ UNCHANGED live

Free ==
    /\ live /\ ~crashed
    /\ \E z \in AllocSizes : inuse[z] > 0 /\ rudp_packet_chain_free(z)
    /\ UNCHANGED <<live, crashed>>

Next == rudp_init \/ rudp_deinit \/ Alloc \/ Free

Spec == Init /\ [][Next]_vars

-----------------------------------------------------------------------------
(* Properties                                                              *)

\* The pool's bookkeeping follows every alloc, reuse, free and trim:
\* allocated_packets counts the chains obtained from the allocator and not
\* given back (in use or pooled), free_packets the chains on the free
\* list, and no chain is lost.
PoolAccounting ==
    live =>
       /\ heap = pool + InUse
       /\ allocated_packets = heap % 65536
       /\ free_packets = pool

=============================================================================
