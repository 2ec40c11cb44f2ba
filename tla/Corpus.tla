-------------------------------- MODULE Corpus ---------------------------------
(***************************************************************************)
(* The instance that checks what becomes of the seeds that the fuzzer has: *)
(* which of them it favors (Favored) and where they are on disk, over many *)
(* sessions (OutDir), each in a behaviour of its own.                      *)
(***************************************************************************)
EXTENDS Favored, OutDir

VARIABLE part    \* the component that runs in this behaviour

corpusVars == <<part, vars, dirVars>>

CorpusInit == part \in {"favored", "directories"} /\ Init /\ DirInit

FavoredPart     == part = "favored" /\ Next /\ UNCHANGED <<part, dirVars>>
DirectoriesPart == part = "directories" /\ DirNext /\ UNCHANGED <<part, vars>>

CorpusNext == FavoredPart \/ DirectoriesPart
CorpusSpec == CorpusInit /\ [][CorpusNext]_corpusVars

==============================================================================
