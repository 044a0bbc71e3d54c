-------------------------------- MODULE MCHsm --------------------------------
(***************************************************************************)
(* Every hierarchy of five states, up to their names, that is at most      *)
(* three levels deep: a state's parent has a smaller number.               *)
(***************************************************************************)
EXTENDS Hsm

MCHierarchies ==
    {h \in [States -> States \cup {None}] :
        /\ \A s \in States : h[s] < s
        /\ Depths(h) # {}}
=============================================================================
