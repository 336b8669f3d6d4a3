------------------------------ MODULE MCLiveLog ------------------------------
(***************************************************************************)
(* Two tabs, one fault that comes and goes, two recordings, a disk that    *)
(* may refuse any line.  Nothing tells one tab from another.               *)
(***************************************************************************)
EXTENDS LiveLog

TabSymmetry == Permutations(Tabs)
=============================================================================
