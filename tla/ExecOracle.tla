----------------------------- MODULE ExecOracle -----------------------------
(***************************************************************************)
(* What run_target() promises to the rest of afl-fuzz, without pipes,      *)
(* processes or signals: every call runs the program once, the program     *)
(* meets one fate, and the fault code returned is the one of that fate.    *)
(* A kill is a fate only if the time limit of THIS call expired (or the    *)
(* user is stopping the fuzzer, when the code no longer matters).          *)
(***************************************************************************)
EXTENDS Naturals

VARIABLES phase,     \* "boot", "idle", "busy" (inside run_target) or "over"
          run,       \* number of calls made so far
          fate,      \* what became of the program in this call
          expired,   \* has the time limit of this call expired?
          stopping,  \* has a stop been asked for?
          verdict    \* the fault code of the last call that returned

vars == <<phase, run, fate, expired, stopping, verdict>>

Faults == {"FAULT_NONE", "FAULT_TMOUT", "FAULT_CRASH"}

FaultOf(f) == CASE f = "killed"  -> "FAULT_TMOUT"
                [] f = "crashed" -> "FAULT_CRASH"
                [] OTHER         -> "FAULT_NONE"

Init ==
  /\ phase \in {"boot", "idle"}
  /\ run = 0
  /\ fate = "running"
  /\ expired = FALSE
  /\ stopping = FALSE
  /\ verdict = "FAULT_NONE"

\* The first handshake with the fork server succeeded.
Boot ==
  /\ phase = "boot"
  /\ phase' = "idle"
  /\ UNCHANGED <<run, fate, expired, stopping, verdict>>

Call ==
  /\ phase = "idle"
  /\ phase' = "busy"
  /\ run' = run + 1
  /\ fate' = "running"
  /\ expired' = FALSE
  /\ UNCHANGED <<stopping, verdict>>

Expire ==
  /\ phase # "over"
  /\ expired' = TRUE
  /\ UNCHANGED <<phase, run, fate, stopping, verdict>>

Settle ==
  /\ phase = "busy"
  /\ fate = "running"
  /\ \/ fate' \in {"ended", "crashed"}
     \/ (expired \/ stopping) /\ fate' = "killed"
  /\ UNCHANGED <<phase, run, expired, stopping, verdict>>

Return ==
  /\ phase = "busy"
  /\ fate # "running" \/ stopping
  /\ phase' = "idle"
  /\ verdict' = IF stopping THEN "FAULT_NONE" ELSE FaultOf(fate)
  /\ UNCHANGED <<run, fate, expired, stopping>>

Stop ==
  /\ stopping' = TRUE
  /\ UNCHANGED <<phase, run, fate, expired, verdict>>

\* The fuzzer leaves for good: stopped, or the fork server is gone.
Leave ==
  /\ phase # "over"
  /\ phase' = "over"
  /\ UNCHANGED <<run, fate, expired, stopping, verdict>>

Next == Boot \/ Call \/ Expire \/ Settle \/ Return \/ Stop \/ Leave

Spec == Init /\ [][Next]_vars
=============================================================================
