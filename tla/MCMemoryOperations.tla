------------------------- MODULE MCMemoryOperations -------------------------
(* Small instances of MemoryOperations: two attempts, one per engine       *)
(* (EachItsOwnEngine) or both on one engine (OneEngine).                   *)
EXTENDS MemoryOperations, TLC

EachItsOwnEngine == CHOOSE f \in [Attempts -> Engines] :
                        \A a, b \in Attempts : f[a] = f[b] => a = b
OneEngine == [a \in Attempts |-> CHOOSE g \in Engines : TRUE]

(* Swapping the attempts swaps the engines they run on.                    *)
SwapAttempts ==
    {[x \in Attempts \cup Engines |->
        IF x \in Attempts THEN p[x]
        ELSE CHOOSE g \in Engines :
               \A a \in Attempts : EngineOf[a] = x => EngineOf[p[a]] = g] :
        p \in Permutations(Attempts)}
=============================================================================
