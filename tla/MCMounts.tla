-------------------------------- MODULE MCMounts --------------------------------
(***************************************************************************)
(* Small instances of Mounts for TLC.                                      *)
(***************************************************************************)
EXTENDS Mounts

\* A mountpoint of an aux mount, and one of a file system in newroot.
MCOthers == {<<"mnt", "aux">>, <<"newroot", "usr">>}
MCAux == {<<"mnt", "aux">>}
===============================================================================
