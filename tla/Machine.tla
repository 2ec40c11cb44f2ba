------------------------------- MODULE Machine --------------------------------
(***************************************************************************)
(* What the fuzzers of one machine share: its System V shared memory, in   *)
(* which a fuzzer may meet what others left behind, and its cores, which   *)
(* each of them looks for without a lock.  The two parts share no state.   *)
(***************************************************************************)
EXTENDS Integers, FiniteSets

(***************************************************************************)
(* The shared-memory segments of fuzzers that share a machine:             *)
(* init_parameter (src/afl-fuzz.c:8672-8806) takes one log per target and  *)
(* a segment that names the current log, by key; setup_multi_shm           *)
(* (1653-1720) takes the two maps privately; switch_target names another   *)
(* log; remove_shm (1450-1476) runs at exit.  A segment is identified by   *)
(* its key.                                                                *)
(***************************************************************************)
CONSTANTS Fuzzers, LogCount,   \* target_num
          Bases,               \* values of initial_key
          MaxAppends           \* bound on the records that the targets write

ASSUME SegmentsAssumption == LogCount \in Nat \ {0} /\ Bases \subseteq Nat /\ MaxAppends \in Nat

VARIABLES
  segment,   \* [key -> [size, word]] : "none", a "log" or a "small" one; the first
             \* word is a log's count and the pointer's identifier
  maps,      \* fuzzers whose trace map and DFG map exist
  segStage,     \* [fuzzer -> "off", "keyed", "run", "ended", "failed"]
  base,      \* [fuzzer -> initial_key]
  segTarget,   \* [fuzzer -> cur_target]
  alone      \* no two fuzzers were ever alive together

segmentVars == <<segment, maps, segStage, base, segTarget, alone>>

Keys == UNION {b .. b + LogCount : b \in Bases}
NoSegment == [size |-> "none", word |-> 0]
LogKey(f, t) == base[f] + t
PointerKey(f) == base[f] + LogCount

SegmentsInit ==
  /\ segment = [k \in Keys |-> NoSegment]
  /\ maps = {} /\ segStage = [f \in Fuzzers |-> "off"]
  /\ base = [f \in Fuzzers |-> 0] /\ segTarget = [f \in Fuzzers |-> 0] /\ alone = TRUE

(* shmget with IPC_CREAT: an existing segment is taken unless it is too    *)
(* small for the size that is asked for.                                   *)
Obtains(k, size) == ~(segment[k].size = "small" /\ size = "log")

(* init_parameter.  A log is emptied; the segment that names the current   *)
(* log is written over the first words of whatever it got.  A failure ends *)
(* the fuzzer before remove_shm is registered.                             *)
NewLog == [size |-> "log", word |-> 0]
Named(s, k) == [size |-> IF s.size = "log" THEN "log" ELSE "small", word |-> k]

init_parameter_shm(f, b) ==
  LET logs == b .. b + LogCount - 1
      bad == {k \in logs : ~Obtains(k, "log")}
      made == {k \in logs : \A j \in bad : k < j}
  IN /\ segStage[f] = "off"
     /\ base' = [base EXCEPT ![f] = b]
     /\ alone' = (alone /\ \A g \in Fuzzers \ {f} : segStage[g] \notin {"keyed", "run"})
     /\ segStage' = [segStage EXCEPT ![f] = IF bad = {} THEN "keyed" ELSE "failed"]
     /\ segment' = [k \in Keys |->
          IF k \in made THEN NewLog
          ELSE IF k = b + LogCount /\ bad = {} THEN Named(segment[k], b)
          ELSE segment[k]]
     /\ UNCHANGED <<maps, segTarget>>

setup_multi_shm(f) ==
  /\ segStage[f] = "keyed"
  /\ segStage' = [segStage EXCEPT ![f] = "run"] /\ maps' = maps \cup {f}
  /\ UNCHANGED <<segment, base, segTarget, alone>>

\* Mutant: the log is named before cur_target is changed.
NameLog_Before(f, t) ==
  /\ segStage[f] = "run" /\ t \in 0 .. LogCount - 1
  /\ segment[PointerKey(f)].size # "none"
  /\ segment' = [segment EXCEPT ![PointerKey(f)] = Named(segment[PointerKey(f)], LogKey(f, segTarget[f]))]
  /\ segTarget' = [segTarget EXCEPT ![f] = t]
  /\ UNCHANGED <<maps, segStage, base, alone>>

(* The end of switch_target: shmat and the write of the log's identifier. *)
NameLog(f, t) ==
  /\ segStage[f] = "run" /\ t \in 0 .. LogCount - 1
  /\ segment[PointerKey(f)].size # "none"
  /\ segment' = [segment EXCEPT ![PointerKey(f)] = Named(segment[PointerKey(f)], LogKey(f, t))]
  /\ segTarget' = [segTarget EXCEPT ![f] = t]
  /\ UNCHANGED <<maps, segStage, base, alone>>

(* mdafl_gc_log in the target: the record goes where the pointer says. *)
AppendRecord(f) ==
  /\ segStage[f] = "run"
  /\ LET k == segment[PointerKey(f)].word
     IN /\ k \in Keys /\ segment[k].size = "log" /\ segment[k].word < MaxAppends
        /\ segment' = [segment EXCEPT ![k] = [size |-> "log", word |-> segment[k].word + 1]]
  /\ UNCHANGED <<maps, segStage, base, segTarget, alone>>

(* remove_shm: the maps go first.  shm_ptrs[0] was detached by             *)
(* init_parameter, so shmdt fails and exit(0) leaves every log behind.     *)
remove_shm(f) ==
  /\ segStage[f] = "run"
  /\ segStage' = [segStage EXCEPT ![f] = "ended"] /\ maps' = maps \ {f}
  /\ UNCHANGED <<segment, base, segTarget, alone>>

(* The identifier of the machine's process is free for another fuzzer. *)
Reborn(f) ==
  /\ segStage[f] \in {"ended", "failed"}
  /\ segStage' = [segStage EXCEPT ![f] = "off"]
  /\ base' = [base EXCEPT ![f] = 0] /\ segTarget' = [segTarget EXCEPT ![f] = 0]
  /\ UNCHANGED <<segment, maps, alone>>

SegmentsNext ==
  \E f \in Fuzzers :
    \/ \E b \in Bases : init_parameter_shm(f, b)
    \/ setup_multi_shm(f) \/ AppendRecord(f) \/ remove_shm(f) \/ Reborn(f)
    \/ \E t \in 0 .. LogCount - 1 : NameLog(f, t)
SegmentsSpec == SegmentsInit /\ [][SegmentsNext]_segmentVars

-----------------------------------------------------------------------------
(* As long as no two fuzzers are alive together, the segments that earlier *)
(* ones leave behind do no harm: the running fuzzer's logs and pointer are *)
(* of the right kind, the pointer names the log of its current target, and *)
(* no record is counted that its targets did not write.                    *)
LeftoversHarmless ==
  alone => \A f \in Fuzzers : segStage[f] = "run" =>
    /\ segment[PointerKey(f)].word = LogKey(f, segTarget[f])
    /\ \A t \in 0 .. LogCount - 1 :
         segment[LogKey(f, t)].size = "log" /\ segment[LogKey(f, t)].word <= MaxAppends

(* Whatever else is left behind, the maps of a fuzzer that ended are gone. *)
MapsRemoved == \A f \in Fuzzers : f \in maps => segStage[f] = "run"

(* src/afl-fuzz.c:1448 : remove_shm gets rid of the shared memory. *)
SegmentsRemoved ==
  (\A f \in Fuzzers : segStage[f] \in {"off", "ended"}) => \A k \in Keys : segment[k].size = "none"

(* The shared memory is right: what is left behind harms no later fuzzer,
   and the maps are not left behind (src/afl-fuzz.c:1450-1480, 1656-1720, 8672-8760). *)
SegmentsRight == LeftoversHarmless /\ MapsRemoved

-----------------------------------------------------------------------------
(***************************************************************************)
(* Which core a fuzzer binds to: get_core_count and bind_to_free_cpu       *)
(* (src/afl-fuzz.c:7854-7932, 563-667) look for a core that no other       *)
(* process is bound to, by reading /proc entry by entry.                   *)
(***************************************************************************)
CONSTANTS Procs,          \* processes that may be fuzzers, or other tasks bound to a core
          CoreTotal,      \* cpu_core_count
          NoAffinity      \* processes started with AFL_NO_AFFINITY

ASSUME CoresAssumption == CoreTotal \in Nat \ {0} /\ NoAffinity \subseteq Procs

VARIABLES
  life,       \* [process -> "off", "scan", "run", "refused"]
  bound,      \* [process -> core, or Free]
  unread,     \* [process -> entries of /proc that readdir will still return]
  cpu_used,   \* [process -> cores it saw taken]
  witnessed,  \* [process -> cores that were taken at some time of its scan]
  collided    \* two scans were under way at the same time

coreVars == <<life, bound, unread, cpu_used, witnessed, collided>>

CoreSet == 0 .. CoreTotal - 1
Free == CoreTotal

CoresInit ==
  /\ life = [p \in Procs |-> "off"] /\ bound = [p \in Procs |-> Free]
  /\ unread = [p \in Procs |-> {}] /\ cpu_used = [p \in Procs |-> {}]
  /\ witnessed = [p \in Procs |-> {}] /\ collided = FALSE

(* With fewer than two cores, or AFL_NO_AFFINITY, nothing is bound. *)
StartScan(p) ==
  /\ life[p] = "off"
  /\ IF CoreTotal < 2 \/ p \in NoAffinity
     THEN life' = [life EXCEPT ![p] = "run"] /\ UNCHANGED <<unread, cpu_used, witnessed, collided>>
     ELSE /\ life' = [life EXCEPT ![p] = "scan"]
          /\ unread' = [unread EXCEPT ![p] = Procs \ {p}]
          /\ cpu_used' = [cpu_used EXCEPT ![p] = {}]
          /\ witnessed' = [witnessed EXCEPT ![p] = {bound[q] : q \in Procs} \ {Free}]
          /\ collided' = (collided \/ \E q \in Procs : life[q] = "scan")
  /\ UNCHANGED <<bound>>

(* One /proc/<pid>/status: a list of one core, of a process with a VmSize. *)
ReadStatus(p, q) ==
  /\ life[p] = "scan" /\ q \in unread[p]
  /\ unread' = [unread EXCEPT ![p] = @ \ {q}]
  /\ cpu_used' = [cpu_used EXCEPT ![p] = @ \cup ({bound[q]} \ {Free})]
  /\ UNCHANGED <<life, bound, witnessed, collided>>

(* sched_setaffinity, seen by the scans that go on. *)
Taken(p, c) ==
  /\ bound' = [bound EXCEPT ![p] = c]
  /\ witnessed' = [q \in Procs |-> IF life[q] = "scan" THEN witnessed[q] \cup {c} ELSE witnessed[q]]

\* Mutant: the search for a free core leaves out the first.
BindOrRefuse_Skip(p) ==
  /\ life[p] = "scan" /\ unread[p] = {}
  /\ LET free == (CoreSet \ {0}) \ cpu_used[p]
     IN IF free = {}
        THEN life' = [life EXCEPT ![p] = "refused"] /\ UNCHANGED <<bound, witnessed>>
        ELSE /\ life' = [life EXCEPT ![p] = "run"]
             /\ Taken(p, CHOOSE c \in free : \A d \in free : c <= d)
  /\ UNCHANGED <<unread, cpu_used, collided>>

BindOrRefuse(p) ==
  /\ life[p] = "scan" /\ unread[p] = {}
  /\ LET free == CoreSet \ cpu_used[p]
     IN IF free = {}
        THEN life' = [life EXCEPT ![p] = "refused"] /\ UNCHANGED <<bound, witnessed>>
        ELSE /\ life' = [life EXCEPT ![p] = "run"]
             /\ Taken(p, CHOOSE c \in free : \A d \in free : c <= d)
  /\ UNCHANGED <<unread, cpu_used, collided>>

Finish(p) ==
  /\ life[p] \in {"run", "refused"}
  /\ life' = [life EXCEPT ![p] = "off"] /\ bound' = [bound EXCEPT ![p] = Free]
  /\ UNCHANGED <<unread, cpu_used, witnessed, collided>>

CoresNext ==
  \/ \E p \in Procs : StartScan(p) \/ BindOrRefuse(p) \/ Finish(p)
  \/ \E p, q \in Procs : ReadStatus(p, q)
CoresSpec == CoresInit /\ [][CoresNext]_coreVars

-----------------------------------------------------------------------------
(* Two fuzzers share a core only when their scans overlapped, and one is   *)
(* refused only when every core was taken at some time of its scan.        *)
CoresRight ==
  /\ ~collided => \A p, q \in Procs : p # q /\ bound[p] # Free => bound[p] # bound[q]
  /\ \A p \in Procs : life[p] = "refused" => witnessed[p] = CoreSet
===============================================================================
