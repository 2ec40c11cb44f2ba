------------------------------ MODULE ProgramSide ------------------------------
(***************************************************************************)
(* What is put into the program under test and under it: the scores of the *)
(* instrumentation pass, the replaced allocator, and the fork server of    *)
(* the patched emulator.  They do not interact.                            *)
(***************************************************************************)
EXTENDS LlvmPass, Dislocator, QemuServer

(* What is put into the program and under it is right: every block has the *)
(* scores of the targets that want them, the replaced allocator counts     *)
(* what is in use, and the emulator's fork server learns every translation *)
(* before it answers (src/llvm_mode/afl-llvm-pass.so.cc:117-379,           *)
(* src/libdislocator/libdislocator.so.c:90-250,                            *)
(* src/qemu_mode/patches/afl-qemu-cpu-inl.h:162-311).                      *)
ProgramSideRight == ScoresAreTheTargets /\ HeapCounts /\ TranslatedOnce
================================================================================
