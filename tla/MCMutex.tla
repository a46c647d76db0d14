------------------------------ MODULE MCMutex ------------------------------
(* Instance of Mutex for TLC: clients are interchangeable.                 *)
EXTENDS Mutex, TLC

ClientSymmetry == Permutations(Clients)
=============================================================================
