------------------------------ MODULE Dislocator ------------------------------
(***************************************************************************)
(* The allocator that a program under test can be given: every buffer has  *)
(* pages of its own and ends where a page without access begins; a freed   *)
(* buffer keeps its addresses, without access.  Each thread counts what it *)
(* holds, and is refused more than the limit.                              *)
(***************************************************************************)
EXTENDS Integers, Sequences, FiniteSets, FiniteSetsExt

CONSTANTS
  HeapThreads,
  AllocLens,      \* lengths that are asked for
  HeapPage,       \* PAGE_SIZE
  MaxMem,         \* max_mem
  SizeLimit,      \* one more than the largest size_t
  MaxBuffers      \* bound on the buffers of a run

ASSUME DislocatorAssumption ==
  /\ IsFiniteSet(HeapThreads) /\ HeapPage \in Nat /\ HeapPage > 8 /\ SizeLimit \in Nat
  /\ MaxMem \in 0 .. SizeLimit - 1 /\ AllocLens \subseteq 0 .. SizeLimit - 1

VARIABLES
  buffers,      \* per allocation: its pages, start in them, length, content
  total_mem,    \* of each thread
  heapEnd,      \* "no", or why the program ended: "FATAL", "fault"
  hard_fail, no_calloc_over

heapVars == <<buffers, total_mem, heapEnd, hard_fail, no_calloc_over>>

DislocatorInit ==
  /\ buffers = <<>> /\ total_mem = [t \in HeapThreads |-> 0] /\ heapEnd = "no"
  /\ hard_fail \in BOOLEAN /\ no_calloc_over \in BOOLEAN

PG_COUNT(l) == (l + HeapPage - 1) \div HeapPage

(* The limit, and the sum that wraps around. *)
Exceeds(t, len) ==
  LET sum == (total_mem[t] + len) % SizeLimit IN sum > MaxMem \/ sum < total_mem[t]

(* The length and the canary lie in front of the buffer, which ends with   *)
(* the last page but one of the mapping.                                   *)
Mapping(len, content) ==
  [pages |-> PG_COUNT(len + 8), start |-> HeapPage * PG_COUNT(len + 8) - len,
   len |-> len, content |-> content, access |-> TRUE]

(* mmap or mprotect may fail as well: the one is an answer, the other the end. *)
Refused ==
  /\ heapEnd' = IF hard_fail THEN "FATAL" ELSE "no"
  /\ UNCHANGED <<buffers, total_mem>>
GuardFails == heapEnd' = "FATAL" /\ UNCHANGED <<buffers, total_mem>>

__dislocator_alloc(t, len, content) ==
  IF Exceeds(t, len) THEN Refused
  ELSE \/ Refused
       \/ GuardFails
       \/ /\ buffers' = Append(buffers, Mapping(len, content))
          /\ total_mem' = [total_mem EXCEPT ![t] = (total_mem[t] + len) % SizeLimit]
          /\ UNCHANGED heapEnd

malloc(t, len) == __dislocator_alloc(t, len, <<"clobber">>)

calloc(t, size, count) ==
  IF size * count >= SizeLimit
  THEN /\ heapEnd' = IF no_calloc_over THEN "no" ELSE "FATAL"
       /\ UNCHANGED <<buffers, total_mem>>
  ELSE __dislocator_alloc(t, size * count, <<"zero">>)

(* The whole mapping loses its access, and the thread that frees counts    *)
(* less, whoever allocated.                                                *)
Freed(t, k, bs, totals) ==
  [bufs |-> [bs EXCEPT ![k].access = FALSE],
   totals |-> [totals EXCEPT ![t] = (totals[t] - bs[k].len) % SizeLimit]]

(* A second free faults on the canary it reads. *)
free(t, k) ==
  IF buffers[k].access
  THEN \/ GuardFails
       \/ LET f == Freed(t, k, buffers, total_mem)
          IN buffers' = f.bufs /\ total_mem' = f.totals /\ UNCHANGED heapEnd
  ELSE heapEnd' = "fault" /\ UNCHANGED <<buffers, total_mem>>

(* Always a new buffer, counted before the old one goes; NULL leaves the old one. *)
realloc(t, k, len) ==
  IF Exceeds(t, len) THEN Refused
  ELSE \/ Refused
       \/ GuardFails
       \/ ~buffers[k].access /\ heapEnd' = "fault" /\ UNCHANGED <<buffers, total_mem>>
       \/ /\ buffers[k].access
          /\ LET grown == Append(buffers, Mapping(len, <<"copy", k>>))
                 f == Freed(t, k, grown, [total_mem EXCEPT ![t] = (total_mem[t] + len) % SizeLimit])
             IN buffers' = f.bufs /\ total_mem' = f.totals
          /\ UNCHANGED heapEnd

(* The program looks at the byte at an offset from a buffer. *)
Access(k, offset) ==
  /\ heapEnd' = IF buffers[k].access /\ buffers[k].start + offset < HeapPage * buffers[k].pages
                THEN "no" ELSE "fault"
  /\ UNCHANGED <<buffers, total_mem>>

HeapCall(t) ==
  /\ heapEnd = "no" /\ UNCHANGED <<hard_fail, no_calloc_over>>
  /\ \/ /\ Len(buffers) < MaxBuffers
        /\ \/ \E len \in AllocLens : malloc(t, len)
           \/ \E size, count \in AllocLens : calloc(t, size, count)
           \/ \E k \in DOMAIN buffers, len \in AllocLens : realloc(t, k, len)
     \/ \E k \in DOMAIN buffers : free(t, k)
     \/ \E k \in DOMAIN buffers : \E offset \in {0, buffers[k].len} : Access(k, offset)

DislocatorNext == \E t \in HeapThreads : HeapCall(t)

DislocatorSpec == DislocatorInit /\ [][DislocatorNext]_heapVars

-----------------------------------------------------------------------------
LiveBuffers == {k \in DOMAIN buffers : buffers[k].access}
Lengths == [k \in DOMAIN buffers |-> buffers[k].len]
LiveBytes == MapThenSumSet(LAMBDA k : Lengths[k], LiveBuffers)

(* The bytes that the threads count together are those of the buffers that *)
(* can be used, whichever thread frees or moves them, modulo size_t; and   *)
(* each buffer ends at the guard, with room for its length and canary in   *)
(* front of it (src/libdislocator/libdislocator.so.c:90-250).              *)
HeapCounts ==
  /\ heapEnd = "no" =>
       MapThenSumSet(LAMBDA t : total_mem[t], HeapThreads) % SizeLimit = LiveBytes % SizeLimit
  /\ \A k \in DOMAIN buffers :
       /\ buffers[k].start >= 8 /\ buffers[k].start + buffers[k].len = HeapPage * buffers[k].pages

(* A thread is refused only what the program could not have.  It holds for *)
(* one thread; a thread that frees what another one allocated counts below *)
(* zero, and is refused everything.  No run checks it.                     *)
RefusedOnlyWhenFull ==
  \A t \in HeapThreads, len \in AllocLens : Exceeds(t, len) => LiveBytes + len > MaxMem
================================================================================
