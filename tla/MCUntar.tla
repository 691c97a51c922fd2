-------------------------------- MODULE MCUntar --------------------------------
(* Untar for TLC.                                                            *)
EXTENDS Untar

C(d) == [opt |-> "C", dir |-> d]
H == [opt |-> "h"]
Unknown == [opt |-> "x"]

Call(as, suffix, ds) ==
  [argv |-> as, suffix |-> suffix, tarball |-> "file", dirs |-> ds]

\* Relative directories, new ones below an existing and below a missing one; an
\* absolute one whose parent exists; and the ways to get nowhere.
SomeInvocations ==
  {Call(<< >>, s, {}) : s \in {"tar", "gz", "tbz2", "txz", "lzop", "lz4"}}
  \cup {Call(<< C(<< "a", "b" >>) >>, s, ds) :
          s \in {"tar", "gz"}, ds \in {{}, {<< "a" >>}, {<< "a" >>, << "a", "b" >>}}}
  \cup {Call(<< C(<< "a" >>), C(NoDir) >>, "gz", {}),
        Call(<< C(<< "a" >>), C(<< "", "b" >>) >>, "gz", {}),
        Call(<< H >>, "gz", {}), Call(<< C(<< "a" >>), Unknown >>, "gz", {})}
  \cup {[Call(<< >>, "gz", {}) EXCEPT !.tarball = t] : t \in {"badargs", "missing", "dir"}}
===============================================================================
