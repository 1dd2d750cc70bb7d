---------------------------------- MODULE MCVfs ---------------------------------
(* Two paths and four files, so that a dentry is shared, released and opened  *)
(* again while another one stays open.                                        *)
EXTENDS Vfs, TLC

Symmetry == Permutations(Obj) \cup Permutations(Path)
================================================================================
