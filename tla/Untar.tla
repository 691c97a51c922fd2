---------------------------------- MODULE Untar ----------------------------------
(***************************************************************************)
(* The untar program (app/untar): it unpacks a tarball with tar, and runs a *)
(* decompressor in front of it when the name of the tarball says so.        *)
(* untar, the decompressor and tar are processes of their own; a pipe joins *)
(* the last two, and whether they ever end depends on who holds its ends.   *)
(*                                                                         *)
(* A tarball has Blocks blocks that tar needs, followed by Pad blocks that  *)
(* tar may or may not read.  A path is the sequence of its components, the  *)
(* first one "" if it is absolute.                                          *)
(***************************************************************************)
EXTENDS Integers, Sequences, FiniteSets, SequencesExt

CONSTANTS
  Invocations,  \* argv and the file system: [argv, suffix, tarball,
                \* dirs]
  Blocks, Pad,  \* the size of the tarball
  Capacity,     \* the number of blocks that the pipe holds
  Faults        \* what may go wrong: "open", "pipe", "fork", "exec", "waitpid",
                \* "mkdir"; "corrupt": the decompressor fails; "tar": tar does;
                \* "killed": something else kills one of them

ASSUME UntarAssumption ==
  /\ Blocks \in Nat \ {0} /\ Pad \in Nat /\ Capacity \in Nat \ {0}
  /\ Faults \subseteq {"open", "pipe", "fork", "exec", "waitpid", "mkdir",
                       "corrupt", "tar", "killed"}
  /\ \A v \in Invocations : v.argv \in Seq(Range(v.argv))

NoDir == << >>
EX_USAGE == 64
Signalled == -1   \* no exit code, but death by a signal
Child == {"decompressor", "tar"}

VARIABLES
  inv,        \* how untar has been called
  argv,       \* the options that getopt has not seen yet
  dst,        \* dst_root_arg
  pc,         \* where untar itself is
  pid,        \* pid[c]: decompress_pid or tar_pid is not 0
  rc,         \* decompress_retcode, tar_retcode
  ret,        \* what main returns
  dirs,       \* the directories that exist
  proc,       \* kernel: the state of a child
  status,     \* kernel: how a child ended: its exit code, or Signalled
  doomed,     \* kernel: the children a SIGKILL is pending for
  fds,        \* kernel: the descriptors a process has open: the tarball, and
              \* the ends "r" and "w" of the pipe
  unread,     \* blocks of the tarball not read yet
  pipe,       \* blocks in the pipe
  got,        \* blocks that tar has read
  trouble     \* history: the faults that have happened

locals == << inv, argv, dst, pc, pid, rc, ret >>
kernel == << proc, status, doomed, fds, unread, pipe, got >>
vars == << locals, dirs, kernel, trouble >>

Init ==
  /\ inv \in Invocations
  /\ argv = inv.argv /\ dst = NoDir /\ pc = "getopt"
  /\ pid = [c \in Child |-> FALSE] /\ rc = [c \in Child |-> -1] /\ ret = -1
  /\ dirs = inv.dirs
  /\ proc = [c \in Child |-> "none"] /\ status = [c \in Child |-> 0]
  /\ doomed = {}
  /\ fds = [p \in Child \cup {"untar"} |-> {}]
  /\ unread = Blocks + Pad /\ pipe = 0 /\ got = 0
  /\ trouble = {}

Goto(l) == pc' = l
Fails(f) == f \in Faults /\ trouble' = trouble \cup {f}
Works == UNCHANGED trouble

\* untar returns x, and the kernel closes what it has left open.
Return(x) == pc' = "done" /\ ret' = x
Exits(x) == Return(x) /\ fds' = [fds EXCEPT !["untar"] = {}]

-------------------------------------------------------------------------------
\* main: one option.  The last -C counts, and an empty one undoes it.
Getopt ==
  /\ pc = "getopt"
  /\ \/ /\ argv # << >>
        /\ argv' = Tail(argv)
        /\ LET o == Head(argv)
           IN  CASE o.opt = "C" -> dst' = o.dir /\ UNCHANGED << pc, ret >>
                 [] o.opt = "h" -> Return(0) /\ UNCHANGED dst
                 [] OTHER       -> Return(EX_USAGE) /\ UNCHANGED dst
     \/ /\ argv = << >>
        /\ Goto("main")
        /\ UNCHANGED << argv, dst, ret >>
  /\ UNCHANGED << inv, pid, rc, dirs, kernel, trouble >>

\* The compression that guess_compression reads off the name's suffix.
Compression(suffix) ==
  CASE suffix \in {"gzip", "gz", "tgz"}    -> "gzip"
    [] suffix \in {"bzip2", "bz2", "tbz2"} -> "bzip2"
    [] suffix \in {"xz", "txz"}            -> "xz"
    [] suffix \in {"lzo", "lzop", "tzo"}   -> "lzo"
    [] suffix = "lz4"                      -> "lz4"
    [] OTHER                               -> "none"

\* main: exactly one argument, which must name a regular file; then untar.
Main ==
  /\ pc = "main"
  /\ CASE inv.tarball = "badargs" -> Return(EX_USAGE)
       [] inv.tarball # "file"    -> Return(1)
       [] OTHER ->
            /\ Goto(IF Compression(inv.suffix) = "none" THEN "forktar" ELSE "open")
            /\ UNCHANGED ret
  /\ UNCHANGED << inv, argv, dst, pid, rc, dirs, kernel, trouble >>

-------------------------------------------------------------------------------
\* run_untar_decompress.  A tarball that cannot be opened is not an error yet:
\* the decompressor will fail on descriptor -1.
OpenTarball ==
  /\ pc = "open"
  /\ Goto("pipe")
  /\ \/ fds' = [fds EXCEPT !["untar"] = {"tarball"}] /\ Works
     \/ Fails("open") /\ UNCHANGED fds
  /\ UNCHANGED << inv, argv, dst, pid, rc, ret, dirs, proc, status, doomed, unread,
                  pipe, got >>

MakePipe ==
  /\ pc = "pipe"
  /\ \/ /\ fds' = [fds EXCEPT !["untar"] = @ \cup {"r", "w"}]
        /\ Goto("forkdecompressor")
        /\ Works
        /\ UNCHANGED ret
     \/ Fails("pipe") /\ Exits(-1)
  /\ UNCHANGED << inv, argv, dst, pid, rc, dirs, proc, status, doomed, unread, pipe,
                  got >>

\* fork: the child inherits every descriptor.
Fork(c, next) ==
  \/ /\ proc' = [proc EXCEPT ![c] = "forked"]
     /\ pid' = [pid EXCEPT ![c] = TRUE]
     /\ fds' = [fds EXCEPT ![c] = fds["untar"]]
     /\ Goto(next)
     /\ Works
     /\ UNCHANGED ret
  \/ Fails("fork") /\ Exits(-1) /\ UNCHANGED << proc, pid >>

ForkDecompressor ==
  /\ pc = "forkdecompressor"
  /\ Fork("decompressor", "closewrite")
  /\ UNCHANGED << inv, argv, dst, rc, dirs, status, doomed, unread, pipe, got >>

\* Fault: untar keeps the write end of the pipe.
CloseWriteKeepsIt ==
  /\ pc = "closewrite"
  /\ fds' = [fds EXCEPT !["untar"] = @ \ {"tarball"}]
  /\ Goto("check")
  /\ UNCHANGED << inv, argv, dst, pid, rc, ret, dirs, proc, status, doomed, unread,
                  pipe, got, trouble >>

\* The tarball and the write end are the decompressor's alone.
CloseWrite ==
  /\ pc = "closewrite"
  /\ fds' = [fds EXCEPT !["untar"] = @ \ {"tarball", "w"}]
  /\ Goto("check")
  /\ UNCHANGED << inv, argv, dst, pid, rc, ret, dirs, proc, status, doomed, unread,
                  pipe, got, trouble >>

\* WEXITSTATUS, which says 0 of a child that a signal has killed.
ExitStatus(c) == IF status[c] = Signalled THEN 0 ELSE status[c]

\* Fault: the variable keeps the number of a child that is gone.
ReapStale(c) ==
  /\ proc[c] = "zombie"
  /\ proc' = [proc EXCEPT ![c] = "reaped"]
  /\ rc' = [rc EXCEPT ![c] = ExitStatus(c)]
  /\ pid' = [pid EXCEPT ![c] = proc[CHOOSE d \in Child : d # c] # "reaped"]

\* waitpid returns the child, and its variable becomes 0.
Reap(c) ==
  /\ proc[c] = "zombie"
  /\ proc' = [proc EXCEPT ![c] = "reaped"]
  /\ rc' = [rc EXCEPT ![c] = ExitStatus(c)]
  /\ pid' = [pid EXCEPT ![c] = FALSE]

\* waitpid with WNOHANG: whether the decompressor has failed already, in which case
\* tar is not even started.
CheckDecompressor ==
  /\ pc = "check"
  /\ \/ /\ Reap("decompressor")
        /\ IF rc'["decompressor"] # 0
           THEN Exits(rc'["decompressor"])
           ELSE Goto("forktar") /\ UNCHANGED << ret, fds >>
        /\ Works
     \/ /\ proc["decompressor"] # "zombie"
        /\ Goto("forktar")
        /\ Works
        /\ UNCHANGED << pid, rc, ret, proc, fds >>
     \/ Fails("waitpid") /\ Exits(-1) /\ UNCHANGED << pid, rc, proc >>
  /\ UNCHANGED << inv, argv, dst, dirs, status, doomed, unread, pipe, got >>

\* The second fork, which is the only one when nothing is to be decompressed.
ForkTar ==
  /\ pc = "forktar"
  /\ Fork("tar", "closeread")
  /\ UNCHANGED << inv, argv, dst, rc, dirs, status, doomed, unread, pipe, got >>

CloseRead ==
  /\ pc = "closeread"
  /\ fds' = [fds EXCEPT !["untar"] = @ \ {"r"}]
  /\ Goto("wait")
  /\ UNCHANGED << inv, argv, dst, pid, rc, ret, dirs, proc, status, doomed, unread,
                  pipe, got, trouble >>

\* SIGTERM and SIGKILL to those of cs that the variables still name.
Kill(cs) == doomed' = doomed \cup {c \in cs : pid[c]}

Piped == Compression(inv.suffix) # "none"

\* Fault: tar is the only one to wait for.
NobodyLeftButTar == ~ pid["tar"]

NobodyLeft == \A c \in Child : ~ pid[c]

\* Fault: what tar says is all that counts.
ResultOfTarOnly == rc["tar"]

\* The return value of run_untar_decompress, or of run_untar_no_decompress.
Result == IF Piped /\ rc["tar"] = 0 THEN rc["decompressor"] ELSE rc["tar"]

\* The loop over waitpid: when one child has failed, the other one is killed.
WaitChild ==
  /\ pc = "wait"
  /\ \/ /\ \E c \in Child :
             /\ Reap(c)
             /\ IF rc'[c] # 0 THEN Kill(Child \ {c}) ELSE UNCHANGED doomed
        /\ Works
        /\ UNCHANGED << pc, ret, fds >>
     \/ /\ NobodyLeft
        /\ Exits(Result)
        /\ Works
        /\ UNCHANGED << pid, rc, proc, doomed >>
     \/ /\ ~ NobodyLeft
        /\ Fails("waitpid")
        /\ IF Piped THEN Kill(Child) ELSE UNCHANGED doomed
        /\ Exits(-1)
        /\ UNCHANGED << pid, rc, proc >>
  /\ UNCHANGED << inv, argv, dst, dirs, status, unread, pipe, got >>

Parent ==
  \/ Getopt \/ Main \/ OpenTarball \/ MakePipe \/ ForkDecompressor \/ CloseWrite
  \/ CheckDecompressor \/ ForkTar \/ CloseRead \/ WaitChild

-------------------------------------------------------------------------------
\* A child ends with status x, and the kernel closes its descriptors.
Ends(c, x) ==
  /\ proc' = [proc EXCEPT ![c] = "zombie"]
  /\ status' = [status EXCEPT ![c] = x]
  /\ fds' = [fds EXCEPT ![c] = {}]

Held(e) == \E p \in DOMAIN fds : e \in fds[p]

\* The decompressor's side of the fork: it closes the read end, and makes the
\* tarball its standard input and the write end its standard output.
StartDecompressor ==
  /\ proc["decompressor"] = "forked"
  /\ \/ /\ "tarball" \in fds["decompressor"]
        /\ proc' = [proc EXCEPT !["decompressor"] = "running"]
        /\ fds' = [fds EXCEPT !["decompressor"] = @ \ {"r"}]
        /\ Works
        /\ UNCHANGED status
     \/ "tarball" \notin fds["decompressor"] /\ Ends("decompressor", 1) /\ Works
     \/ Fails("exec") /\ Ends("decompressor", 1)
  /\ UNCHANGED << locals, dirs, doomed, unread, pipe, got >>

\* External: the decompressor moves a block, is killed by SIGPIPE because nobody
\* will read it, has reached the end, or fails.
Decompress ==
  /\ proc["decompressor"] = "running"
  /\ \/ /\ unread > 0 /\ Held("r") /\ pipe < Capacity
        /\ unread' = unread - 1 /\ pipe' = pipe + 1
        /\ Works
        /\ UNCHANGED << proc, status, fds >>
     \/ unread > 0 /\ ~ Held("r") /\ Ends("decompressor", Signalled) /\ Works
        /\ UNCHANGED << unread, pipe >>
     \/ unread = 0 /\ Ends("decompressor", 0) /\ Works /\ UNCHANGED << unread, pipe >>
     \/ Fails("corrupt") /\ Ends("decompressor", 1) /\ UNCHANGED << unread, pipe >>
  /\ UNCHANGED << locals, dirs, doomed, got >>

\* mkdir succeeds, or finds that the directory exists (_dodir).
ParentExists(d, ds) == Len(d) = 1 \/ Front(d) = << "" >> \/ Front(d) \in ds
CanMake(d, ds) == d # << "" >> /\ (d \in ds \/ ParentExists(d, ds))

\* _mkdirp: the directory itself, and else every path that ends before one of its
\* slashes, up to the first that cannot be made, and then the directory again.
Mkdirp(d) ==
  LET Made(k) == dirs \cup {SubSeq(d, 1, i) : i \in 1..k}
      good == {k \in 0..Len(d) :
                 \A i \in 1..k : CanMake(SubSeq(d, 1, i), Made(i - 1))}
  IN  IF CanMake(d, dirs) THEN dirs \cup {d}
      ELSE Made(CHOOSE k \in good : \A i \in good : i <= k)

\* tar's side of the fork: it opens the tarball if there is no pipe, makes the
\* directory, changes into it, and runs tar.
StartTar ==
  /\ proc["tar"] = "forked"
  /\ \/ /\ ~ Piped /\ Fails("open")
        /\ Ends("tar", 1)
        /\ UNCHANGED dirs
     \/ /\ \/ dirs' = (IF dst = NoDir THEN dirs ELSE Mkdirp(dst)) /\ Works
           \/ dst \notin dirs \cup {NoDir} /\ Fails("mkdir") /\ UNCHANGED dirs
        /\ IF dst \in dirs' \cup {NoDir}
           THEN /\ proc' = [proc EXCEPT !["tar"] = "running"]
                /\ fds' = [fds EXCEPT !["tar"] = IF Piped THEN @ ELSE {"tarball"}]
                /\ UNCHANGED status
           ELSE Ends("tar", 1)
     \/ Fails("exec") /\ Ends("tar", 1) /\ UNCHANGED dirs
  /\ UNCHANGED << locals, doomed, unread, pipe, got >>

\* External: tar reads a block, waits for one as long as somebody may write it, may
\* stop once it has all it needs, and at an early end of its input either complains or
\* does not notice; or it fails.
RunTar ==
  /\ proc["tar"] = "running"
  /\ \/ /\ IF Piped
           THEN pipe > 0 /\ pipe' = pipe - 1 /\ UNCHANGED unread
           ELSE unread > 0 /\ unread' = unread - 1 /\ UNCHANGED pipe
        /\ got' = got + 1
        /\ Works
        /\ UNCHANGED << proc, status, fds >>
     \/ /\ IF Piped THEN pipe = 0 /\ ~ Held("w") ELSE unread = 0
        /\ \E x \in {0, 2} : (got >= Blocks => x = 0) /\ Ends("tar", x)
        /\ Works
        /\ UNCHANGED << unread, pipe, got >>
     \/ got >= Blocks /\ Ends("tar", 0) /\ Works /\ UNCHANGED << unread, pipe, got >>
     \/ Fails("tar") /\ Ends("tar", 2) /\ UNCHANGED << unread, pipe, got >>
  /\ UNCHANGED << locals, dirs, doomed >>

\* A pending SIGKILL takes effect; on a zombie it has none.
Die(c) ==
  /\ c \in doomed
  /\ doomed' = doomed \ {c}
  /\ IF proc[c] \in {"forked", "running"}
     THEN Ends(c, Signalled)
     ELSE UNCHANGED << proc, status, fds >>
  /\ UNCHANGED << locals, dirs, unread, pipe, got, trouble >>

\* External: somebody else kills a child.
Killed(c) ==
  /\ proc[c] = "running"
  /\ Fails("killed")
  /\ Ends(c, Signalled)
  /\ UNCHANGED << locals, dirs, doomed, unread, pipe, got >>

Decompressor == StartDecompressor \/ Decompress
Tar == StartTar \/ RunTar

Next == Parent \/ Decompressor \/ Tar \/ \E c \in Child : Die(c) \/ Killed(c)

Spec == Init /\ [][Next]_vars

\* The kernel runs every process that can go on, and delivers signals; nothing
\* outside of the three processes is waited for, and no fault has to happen.
FairSpec ==
  /\ Spec
  /\ WF_vars(Parent /\ Works) /\ WF_vars(Decompressor /\ Works) /\ WF_vars(Tar /\ Works)
  /\ \A c \in Child : WF_vars(Die(c))

-------------------------------------------------------------------------------
\* untar reports success only if tar has been through all of the tarball in the
\* directory it was asked for: neither a decompressor that fails after part of its
\* output, whether tar notices or not, nor a tar that fails or is killed while the
\* decompressor succeeds, is taken for success.  (WEXITSTATUS makes a child that
\* somebody else has killed look successful, which is left out.)
ZeroMeansUnpacked ==
  /\ pc = "done" /\ ret = 0 /\ "killed" \notin trouble
  /\ (\A i \in DOMAIN inv.argv : inv.argv[i].opt # "h")
  => got >= Blocks /\ dst \in dirs \cup {NoDir}

\* untar sends signals only to its own children: never to a process number that
\* waitpid has returned already and that may belong to somebody else by now.
KillsOnlyItsChildren ==
  [][\A c \in doomed' \ doomed : proc[c] \in {"forked", "running", "zombie"}]_vars

\* Nobody waits for ever, however the three processes interleave and whatever
\* fails: untar returns, and no child goes on for ever after it has.
EverybodyEnds ==
  <>[](pc = "done" /\ \A c \in Child : proc[c] \notin {"forked", "running"})

\* When untar returns, it has waited for every child it has started, unless fork
\* or waitpid has failed.
ChildrenAreReaped ==
  pc = "done" /\ trouble \cap {"fork", "waitpid"} = {} =>
    \A c \in Child : proc[c] \in {"none", "reaped"}
===============================================================================
