------------------------------- MODULE MCPremount -------------------------------
(* Premount for TLC: a handful of fstab entries, in all small files of them. *)
EXTENDS Premount

E(src, dir, type, opts) == [src |-> src, dir |-> dir, type |-> type, opts |-> opts]
Usr  == E("/dev/sda2", << "usr" >>, "ext4", << "ro" >>)
Below == E("/x.sfs", << "usr", "x" >>, "squashfs", << "defaults" >>)
Temp == E("tmpfs", Tmp, "tmpfs", << "mode=1777" >>)
ZTemp == E("ztmpfs", Tmp, "auto", << >>)
Home == E("LABEL=a", << "home" >>, "ext4", << "defaults" >>)
Same == E("/dev/root", << "var" >>, "ext4", << "ro" >>)
Bind == E("/v", << "etc", "v" >>, "none", << "bind" >>)
Net  == E("host:/d", << "data" >>, "nfs", << "_netdev" >>)
Root == E("/dev/sdb", << >>, "ext4", << >>)
Swap == E("/dev/sda3", NoPath, "swap", << "sw" >>)
Off  == E("/dev/sda4", << "mnt" >>, "ext4", << "x-nopremount" >>)

F(mode, entries) == [mode |-> mode, entries |-> entries]
NoFile == F("none", << >>)
Ones(mode, es) == {F(mode, << e >>) : e \in es}
Pairs(mode, es) == {F(mode, << p[1], p[2] >>) : p \in {q \in es \X es : q[1] # q[2]}}

Bases == {NoFile} \cup Ones("nofilter", {Below, Temp, Root})
Subtrees == {NoFile} \cup Pairs("nofilter", {Bind, Below})
Firsts == {NoFile} \cup Pairs("filter", {Usr, Below, Temp, ZTemp, Bind, Same})
            \cup Pairs("nofilter", {Usr, Below, Temp, Same})
            \cup Ones("filter", {Home, Net, Off, Swap})
Seconds == {NoFile} \cup Ones("filter", {Usr, Temp, Home}) \cup Ones("nofilter", {Swap, Root})

SomeWorlds ==
  [base : Bases, subtree : {NoFile}, fstab : Firsts \X Seconds,
   passwd : {<< [name |-> "root", uid |-> 0], [name |-> "a", uid |-> 7] >>},
   xshell : {TRUE}, net : {FALSE}, leaveout : {{}}]
  \cup
  [base : Bases, subtree : Subtrees, fstab : Ones("filter", {Temp, Net}) \X {NoFile},
   passwd : {<< [name |-> "a", uid |-> 7] >>, << >>},
   xshell : BOOLEAN, net : BOOLEAN, leaveout : SUBSET {"fstab", "tmpdir", "users"}]
===============================================================================
