----------------------------- MODULE OpenFiles ------------------------------
(***************************************************************************)
(* Texts of paths: how the kernel (vfs_resolve_path) and the commands      *)
(* (command_resolve_path) normalise them, how a path is split into its     *)
(* directory and its last name, and the working directory of a process,    *)
(* which is kept as text in a buffer of fixed size.                        *)
(*                                                                         *)
(* A text is a sequence of characters; one letter stands for all of them.  *)
(* Every directory exists.  The buffers are the constants.                 *)
(***************************************************************************)
EXTENDS Sequences, SequencesExt, Integers, FiniteSets

CONSTANTS
    InputMax,   \* 256: an input is shorter
    RawMax,     \* 512: char raw[512]
    CwdMax,     \* 256: char cwd[256] of a process
    OutMax,     \* 512: the buffer of the result
    StackMax    \* 32: components

VARIABLES
    cwd,     \* text of the working directory
    want,    \* ghost: the directory that the last chdir looked up
    ask      \* ghost: [input, kernel, user, at]: the last question, and the answers

pathsVars == <<cwd, want, ask>>

Bad == <<"bad">>
Chars == {"/", "a", "."}
Inputs == UNION {[1..n -> Chars] : n \in 1..InputMax - 1}
Slash == <<"/">>

-----------------------------------------------------------------------------
\* Components of a text, and the text of a sequence of components.

Components(t) ==
    LET add(acc, c) == IF c = "/" THEN Append(acc, <<>>) ELSE [acc EXCEPT ![Len(acc)] = Append(@, c)]
    IN  SelectSeq(FoldLeft(add, <<<<>>>>, t), LAMBDA c : c # <<>>)

Text(s) == IF s = <<>> THEN Slash ELSE FoldLeft(LAMBDA acc, c : acc \o Slash \o c, <<>>, s)

\* A mutant: the parent of the root is an error.
PushFails(stack, c) ==
    IF stack = Bad \/ c = <<".">> THEN stack
    ELSE IF c = <<".", ".">> THEN (IF stack = <<>> THEN Bad ELSE Front(stack))
    ELSE IF Len(stack) = StackMax THEN Bad ELSE Append(stack, c)
\* One component.
Push(stack, c) ==
    IF stack = Bad \/ c = <<".">> THEN stack
    ELSE IF c = <<".", ".">> THEN (IF stack = <<>> THEN stack ELSE Front(stack))
    ELSE IF Len(stack) = StackMax THEN Bad
    ELSE Append(stack, c)

Normalised(raw) ==
    LET stack == FoldLeft(Push, <<>>, Components(raw))
    IN  IF stack = Bad \/ Len(Text(stack)) >= OutMax THEN Bad ELSE Text(stack)

\* The base and the input with one slash between them.
Joined(base, input) == base \o (IF base[Len(base)] = "/" THEN <<>> ELSE Slash) \o input

\* The text that is taken apart, or an error when it does not fit.
Raw(base, input) ==
    IF input[1] = "/" THEN (IF Len(input) >= RawMax THEN Bad ELSE input)
    ELSE IF Len(Joined(base, input)) >= RawMax THEN Bad ELSE Joined(base, input)

vfs_resolve_path(base, input) == IF Raw(base, input) = Bad THEN Bad ELSE Normalised(Raw(base, input))

process_resolve_path(base, input) == IF Len(input) >= InputMax THEN Bad ELSE vfs_resolve_path(base, input)

\* A mutant: the slash is always added before the length is tested, and the test is late.
CommandLate(base, input) ==
    IF Len(input) >= InputMax THEN Bad
    ELSE Normalised(IF input[1] = "/" THEN input ELSE Joined(base, input))
\* The same in userspace/common/path.c, with one more character reserved.
command_resolve_path(base, input) ==
    IF Len(input) >= InputMax \/ (input[1] # "/" /\ Len(base) + 1 + Len(input) >= RawMax) THEN Bad
    ELSE Normalised(IF input[1] = "/" THEN input ELSE Joined(base, input))

\* A mutant: the last slash stays with the directory.
SplitKeeps(path) ==
    LET last == CHOOSE i \in 1..Len(path) : path[i] = "/" /\ \A j \in i + 1..Len(path) : path[j] # "/"
    IN  [parent |-> SubSeq(path, 1, last), name |-> SubSeq(path, last + 1, Len(path))]
process_split_path(path) ==
    LET last == CHOOSE i \in 1..Len(path) : path[i] = "/" /\ \A j \in i + 1..Len(path) : path[j] # "/"
    IN  [parent |-> IF last = 1 THEN Slash ELSE SubSeq(path, 1, last - 1),
         name |-> SubSeq(path, last + 1, Len(path))]

\* A mutant: a text that begins like the directory is in it.
UnderPrefix(path, at) == Len(path) <= Len(at) /\ SubSeq(at, 1, Len(path)) = path
process_any_cwd_under_path(path, at) ==
    \/ at = path
    \/ Len(path) < CwdMax - 1 /\ Len(path) < Len(at) /\ SubSeq(at, 1, Len(path)) = path /\ at[Len(path) + 1] = "/"

-----------------------------------------------------------------------------
NoAsk == [input |-> Slash, kernel |-> Slash, user |-> Slash, at |-> Slash]
PathsInit == cwd = Slash /\ want = Slash /\ ask = NoAsk

\* What the kernel and the commands make of an input in this directory.
Resolve(input) ==
    /\ ask' = [input |-> input, kernel |-> process_resolve_path(cwd, input),
               user |-> command_resolve_path(cwd, input), at |-> cwd]
    /\ UNCHANGED <<cwd, want>>

\* strncpy() into the buffer of the process.
CwdCopy(path) == SubSeq(path, 1, IF Len(path) > CwdMax - 1 THEN CwdMax - 1 ELSE Len(path))

process_chdir(input) ==
    LET path == process_resolve_path(cwd, input) IN
    /\ path # Bad
    /\ cwd' = CwdCopy(path) /\ want' = path
    /\ UNCHANGED ask

Answered == ask # NoAsk /\ ask' = NoAsk /\ UNCHANGED <<cwd, want>>

PathsNext == Answered \/ (ask = NoAsk /\ \E input \in Inputs : Resolve(input) \/ process_chdir(input))

PathsSpec == PathsInit /\ [][PathsNext]_pathsVars

-----------------------------------------------------------------------------
\* A name survives unless more parents than names follow it up to some point.
Survives(s, i) ==
    /\ s[i] \notin {<<".">>, <<".", ".">>}
    /\ \A j \in i..Len(s) :
         Len(SelectSeq(SubSeq(s, i + 1, j), LAMBDA c : c = <<".", ".">>))
           <= Len(SelectSeq(SubSeq(s, i + 1, j), LAMBDA c : c \notin {<<".">>, <<".", ".">>}))
Reference(base, input) ==
    LET s == Components(IF input[1] = "/" THEN input ELSE Joined(base, input))
        kept == SelectSeq([i \in 1..Len(s) |-> i], LAMBDA i : Survives(s, i))
    IN  Text([k \in 1..Len(kept) |-> s[kept[k]]])

\* vfs_resolve_path() gives the directory the input means, or fails because a buffer is
\* too small; it never gives another one.
ResolveRight == LET r == ask.kernel IN
    IF r # Bad THEN r = Reference(ask.at, ask.input)
    ELSE \/ Len(Reference(ask.at, ask.input)) >= OutMax
         \/ Len(Joined(ask.at, ask.input)) >= RawMax
         \/ Len(Components(Joined(ask.at, ask.input))) > StackMax

\* What a command resolves for itself the kernel resolves to the same path.
UserAgrees == ask.user # Bad => ask.kernel = ask.user

\* A path that is resolved is put together again from its directory and its name, and the
\* name is one component.
SplitInverts == ask.kernel \notin {Bad, Slash} =>
    LET s == process_split_path(ask.kernel) IN
    /\ Components(s.parent) \o <<s.name>> = Components(ask.kernel)
    /\ s.parent = Text(Components(s.parent))

Canonical == {t \in Inputs : t[1] = "/" /\ t # Slash /\ t = Text(Components(t))}

\* The working directory is the one that was looked up, if it fits, and a text that fits
\* always; the busy test of an unmount finds it in exactly the directories above it.
CwdIsWhereItSays ==
    /\ Len(cwd) < CwdMax
    /\ Len(want) < CwdMax => cwd = want
    /\ LET s == Components(cwd) IN
       \A t \in Canonical :
         (process_any_cwd_under_path(t, cwd) <=> IsPrefix(Components(t), s))

-----------------------------------------------------------------------------
(***************************************************************************)
(* Positions of open objects: the offset of an open file (vfs_seek,        *)
(* vfs_file_read, vfs_file_write), which is an unsigned machine word, and  *)
(* the index of an open directory, whose listing is merged from the        *)
(* entries of the file system and from the mounts below the directory,     *)
(* which come and go while it is read.                                     *)
(***************************************************************************)
CONSTANTS
    Width,         \* bits of u64 and i64
    BaseEntries,   \* names the file system lists, in order
    MountNames,    \* names mounts may have
    MountTable,    \* VFS_MAX_MOUNTS without the root
    MaxMountOps    \* bound: mounts and unmounts

VARIABLES
    pos,      \* [off, size]: offset of the open file, size of the file
    sought,   \* ghost: [from, by, to] of the last successful move, as integers
    table,    \* [1..MountTable -> MountNames or ""]: mounts in this directory
    dirObj,   \* [open, index, streamed]: the open directory
    seen,     \* ghost: the names the listing gave
    ogh       \* ghost: [ops, stable]: the names mounted during the whole listing, while
              \* nothing was unmounted

openVars == <<pos, sought, table, dirObj, seen, ogh>>

Limit == 2 ^ Width
Offsets == -(2 ^ (Width - 1))..2 ^ (Width - 1) - 1
NoMove == [from |-> 0, by |-> 0, to |-> 0]

OpenInit ==
    /\ pos = [off |-> 0, size |-> 0] /\ sought = NoMove
    /\ table = [i \in 1..MountTable |-> ""]
    /\ dirObj = [open |-> FALSE, index |-> 0, streamed |-> FALSE] /\ seen = <<>>
    /\ ogh = [ops |-> 0, stable |-> {}]

-----------------------------------------------------------------------------
\* A mutant: the sum is tested after it was computed.
TargetWraps(base, by) == IF by >= 0 \/ -by <= base THEN (base + by) % Limit ELSE -1
\* Where a seek goes, or -1: a test before every addition and subtraction.
SeekTarget(base, by) ==
    IF by >= 0 THEN (IF base > Limit - 1 - by THEN -1 ELSE base + by)
    ELSE LET magnitude == (-(by + 1)) + 1 IN IF magnitude > base THEN -1 ELSE base - magnitude

vfs_seek(whence, by) ==
    LET base == CASE whence = "set" -> 0 [] whence = "cur" -> pos.off [] whence = "end" -> pos.size
        to == IF whence = "set" /\ by < 0 THEN -1 ELSE SeekTarget(base, by)
    IN  /\ to # -1
        /\ pos' = [pos EXCEPT !.off = to]
        /\ sought' = [from |-> base, by |-> by, to |-> to]
        /\ UNCHANGED <<table, dirObj, seen, ogh>>

\* vfs_file_read() and vfs_file_write(): the offset follows what was transferred.  A file
\* never reaches the last offset.
vfs_file_transfer(n) ==
    /\ pos.off + n < Limit
    /\ pos' = [pos EXCEPT !.off = IF n <= Limit - 1 - pos.off THEN pos.off + n ELSE pos.off,
                          !.size = IF pos.off + n > pos.size THEN pos.off + n ELSE pos.size]
    /\ sought' = [from |-> pos.off, by |-> n, to |-> pos'.off]
    /\ UNCHANGED <<table, dirObj, seen, ogh>>

vfs_truncate_handle ==
    /\ pos' = [pos EXCEPT !.size = 0] /\ sought' = NoMove
    /\ UNCHANGED <<table, dirObj, seen, ogh>>

-----------------------------------------------------------------------------
\* Mounts below the directory, in the order of the table, that the file system does not list.

Mounted == Range(table) \ {""}
\* A mutant: a mount on a name that the file system lists is listed once more.
ExtraAll == SelectSeq([i \in 1..MountTable |-> table[i]], LAMBDA n : n # "")
Extra == SelectSeq([i \in 1..MountTable |-> table[i]], LAMBDA n : n # "" /\ n \notin Range(BaseEntries))

\* vfs_readdir_internal(): <<>> past the end.
vfs_readdir(index) ==
    IF index < Len(BaseEntries) THEN <<BaseEntries[index + 1]>>
    ELSE IF index - Len(BaseEntries) < Len(Extra) THEN <<Extra[index - Len(BaseEntries) + 1]>>
    ELSE <<>>

\* A directory with mounts below it is not read with the stream of the file system.
Streamable == Mounted = {}

object_directory_create ==
    /\ ~dirObj.open
    /\ dirObj' = [open |-> TRUE, index |-> 0, streamed |-> Streamable]
    /\ seen' = <<>> /\ ogh' = [ogh EXCEPT !.stable = Mounted]
    /\ UNCHANGED <<pos, sought, table>>

Listed ==
    IF dirObj.streamed
    THEN (IF dirObj.index < Len(BaseEntries) THEN <<BaseEntries[dirObj.index + 1]>> ELSE <<>>)
    ELSE vfs_readdir(dirObj.index)

object_directory_read ==
    /\ dirObj.open /\ Listed # <<>>
    /\ seen' = seen \o Listed
    /\ dirObj' = [dirObj EXCEPT !.index = @ + 1]
    /\ UNCHANGED <<pos, sought, table, ogh>>

directory_destroy ==
    /\ dirObj.open
    /\ dirObj' = [open |-> FALSE, index |-> 0, streamed |-> FALSE] /\ seen' = <<>>
    /\ ogh' = [ogh EXCEPT !.stable = {}]
    /\ UNCHANGED <<pos, sought, table>>

\* vfs_mount_slot_locked(): the first free place of the table.
MountChild(name) ==
    LET free == {i \in 1..MountTable : table[i] = ""} IN
    /\ ogh.ops < MaxMountOps /\ name \notin Mounted /\ free # {}
    /\ table' = [table EXCEPT ![CHOOSE i \in free : \A j \in free : i <= j] = name]
    /\ ogh' = [ogh EXCEPT !.ops = @ + 1, !.stable = IF dirObj.open THEN {} ELSE @]
    /\ UNCHANGED <<pos, sought, dirObj, seen>>

UnmountChild(i) ==
    /\ ogh.ops < MaxMountOps /\ table[i] # ""
    /\ table' = [table EXCEPT ![i] = ""]
    /\ ogh' = [ogh EXCEPT !.ops = @ + 1, !.stable = {}]
    /\ UNCHANGED <<pos, sought, dirObj, seen>>

FileNext ==
    \/ \E whence \in {"set", "cur", "end"}, by \in Offsets : vfs_seek(whence, by)
    \/ \E n \in 1..2 : vfs_file_transfer(n)
    \/ vfs_truncate_handle
DirectoryNext ==
    \/ object_directory_create \/ object_directory_read \/ directory_destroy
    \/ \E name \in MountNames : MountChild(name)
    \/ \E i \in 1..MountTable : UnmountChild(i)

\* The two objects have nothing in common: the file is moved before a directory is opened.
OpenNext == (ogh.ops = 0 /\ ~dirObj.open /\ FileNext) \/ (sought = NoMove /\ DirectoryNext)

OpenSpec == OpenInit /\ [][OpenNext]_openVars

-----------------------------------------------------------------------------
\* A seek or a transfer leaves the offset where the integers say, inside the word: the
\* tests before the additions and the negation of the least offset are right.
SeekExact == sought.to = sought.from + sought.by /\ pos.off \in 0..Limit - 1

\* A listing that reached its end gave every entry of the file system once, whatever was
\* mounted or unmounted meanwhile, and every mount that was there all the time; no
\* name came twice unless mounts changed.
ListingComplete ==
    LET times(n) == Cardinality({i \in DOMAIN seen : seen[i] = n}) IN
    /\ \A n \in Range(BaseEntries) : times(n) <= 1
    /\ dirObj.open /\ Listed = <<>> =>
         /\ \A n \in Range(BaseEntries) : times(n) = 1
         /\ \A n \in ogh.stable : times(n) = 1
=============================================================================
