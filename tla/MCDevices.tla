------------------------------- MODULE MCDevices --------------------------------
(* Devices for TLC: two disks, two loop devices, and short programs.         *)
EXTENDS Devices

SomeSeeds ==
  << [name |-> "fd", type |-> "lnk", fatal |-> TRUE],
     [name |-> "null", type |-> "chr", fatal |-> TRUE],
     [name |-> "kmsg", type |-> "chr", fatal |-> FALSE] >>

\* A node of the disk "a" may be left over, with other numbers, or as a directory;
\* the disk "b" may have its node already.
SomeNodes ==
  {[a |-> x, b |-> y, fd |-> NoNode, null |-> z, kmsg |-> NoNode] :
     x \in {NoNode, Node("blk", "old"), Node("dir", NoName)},
     y \in {NoNode, Node("blk", "b")},
     z \in {NoNode, Node("reg", NoName)}}

NodeOf(d) == [op |-> "node", disk |-> d]
Find(d) == [op |-> "findfs", disk |-> d]
Losetup(f) == [op |-> "losetup", file |-> f]
Wait(ds) == [op |-> "wait", disks |-> ds]
On(d, by) == [disk |-> d, by |-> by]
Seed == [op |-> "seed"]
Mdev == [op |-> "mdev"]

SomePrograms ==
  { << Seed, NodeOf("a") >>,
    << Mdev, NodeOf("a"), Wait(<< On("a", "label") >>), Find("a") >>,
    << Mdev, Wait(<< On("b", "path"), On("a", "label") >>), NodeOf("a"), Find("a") >>,
    << Wait(<< On("a", "nodev"), On("b", "other"), On("a", "unknown") >>) >>,
    << Losetup("f"), Losetup("g"), Find("b") >> }
===============================================================================
