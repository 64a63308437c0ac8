--------------------------- MODULE SharedLibrary ---------------------------
(***************************************************************************)
(* What a Remote Repository promises the devices that share it, with no    *)
(* manifest, no digest and no working copy: one linear history of library  *)
(* generations.  Each device builds on a generation of that history.  It   *)
(* may add a generation that changes a row only where the newest           *)
(* generation still has the row it built on - nobody else changed it - or  *)
(* where its user, asked about exactly this newest generation, consented   *)
(* to replacing the row (ADR 0040, ADR 0045).                              *)
(***************************************************************************)
EXTENDS Rebase

CONSTANTS Device, Initial, InitialGenerations

VARIABLES
    published,  \* the libraries of generations 1, 2, ...
    basis,      \* the generation each device builds on; 0 for none
    consent     \* the conflict the user of each device answered

vars == <<published, basis, consent>>

Newest == published[Len(published)]

Init ==
    \E generation \in InitialGenerations :
        /\ published = IF generation = 0 THEN <<>> ELSE <<Initial>>
        /\ basis   = [d \in Device |-> generation]
        /\ consent = [d \in Device |-> Stop]

Untouched(d, key) == basis[d] > 0 /\ Newest[key] = published[basis[d]][key]

Consented(d, key) ==
    /\ consent[d].generation = Len(published)
    /\ consent[d].whole \/ key \in consent[d].songs

MayChange(d, key) == published = <<>> \/ Untouched(d, key) \/ Consented(d, key)

Publish(d) ==
    /\ \E library \in Library :
        /\ \A key \in Keys :
            published # <<>> /\ library[key] # Newest[key] => MayChange(d, key)
        /\ published' = Append(published, library)
    /\ UNCHANGED <<basis, consent>>

\* A device learns of a generation no older than the one it builds on.
Advance(d) ==
    /\ \E generation \in basis[d]..Len(published) :
        basis' = [basis EXCEPT ![d] = generation]
    /\ UNCHANGED <<published, consent>>

\* The user answers the conflict found at some generation; a new change or a
\* new conflict withdraws the answer.
Answer(d) ==
    /\ \E generation \in 0..Len(published), songs \in SUBSET Songs, whole \in BOOLEAN :
        consent' = [consent EXCEPT ![d] =
            [generation |-> generation, songs |-> songs, whole |-> whole]]
    /\ UNCHANGED <<published, basis>>

Next == \E d \in Device : Publish(d) \/ Advance(d) \/ Answer(d)

Spec == Init /\ [][Next]_vars
=============================================================================
