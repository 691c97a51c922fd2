------------------------------ MODULE MCZramConfig ------------------------------
(* ZramConfig for TLC.                                                       *)
EXTENDS ZramConfig, TLC

Size(n, suffix) == [n |-> n, suffix |-> suffix]

\* The mount options with a value: what they start with and what follows.
Meaning ==
  ("size=25%" :> << "size", Size(25, "%") >>) @@ ("size=9mb" :> << "size", Size(9, "mb") >>)
  @@ ("x-size=3g" :> << "size", Size(3, "g") >>)
  @@ ("comp=lzo" :> << "comp", << >> >>)
  @@ ("mode=0700" :> << "mode", << 0, 7, 0, 0 >> >>) @@ ("mode=1777" :> << "mode", ZTmpfs >>)
  @@ ("mode=9" :> << "mode", << 9 >> >>) @@ ("mode=0" :> << "mode", << 0 >> >>)
  @@ ("uid=10" :> << "uid", << 1, 0 >> >>) @@ ("gid=5" :> << "gid", << 5 >> >>)
MCKeyOf == [w \in DOMAIN Meaning |-> Meaning[w][1]]
MCValueOf == [w \in DOMAIN Meaning |-> Meaning[w][2]]

OptWords == DOMAIN Meaning \cup {"ro", "rw", "nr_inodes=9"}

Options ==
  {[opt |-> "t", type |-> "zdisk"], [opt |-> "t", type |-> "tmpfs"],
   [opt |-> "f"], [opt |-> "q"], [opt |-> "h"], [opt |-> "bad"],
   [opt |-> "m", mode |-> NoDigits]}
  \cup {[opt |-> "m", mode |-> d] : d \in {<< 0, 7, 0, 0 >>, << 9 >>, << 0 >>}}
  \cup {[opt |-> "S", size |-> s] : s \in {NoSize, Size(900, "k"), Size(512, "m"), Size(0, "m")}}
  \cup {[opt |-> "o", opts |-> << w >>] : w \in OptWords}

Call(op) == [op |-> op, argv |-> << >>, args |-> 1, type |-> "ztmpfs", size |-> NoSize,
             opts |-> << >>, flags |-> {}, num |-> 0]

SomeCalls ==
  {[Call("ztmpfs") EXCEPT !.argv = a, !.args = k] :
     a \in UNION {[1..m -> Options] : m \in 0..2}, k \in {0, 1, 2}}
  \cup {[Call("tmpfs") EXCEPT !.opts = o, !.flags = f, !.type = "zdisk"] :
          o \in UNION {[1..m -> OptWords] : m \in 0..2}, f \in {{}, {"RDONLY"}}}
  \cup {[Call("disk") EXCEPT !.size = s] :
          s \in {NoSize, Size(300, "m"), Size(-1, "m"), Size(2097152, ""), Size(2, "")}}
  \cup {[Call("swap") EXCEPT !.size = s, !.num = k] :
          s \in {NoSize, Size(1, "/"), Size(3, "/"), Size(99, "/"), Size(100, "/"), Size(50, "%"),
                 Size(500, "m")},
          k \in 0..5}
===============================================================================
