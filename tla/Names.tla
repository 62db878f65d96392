------------------------------- MODULE Names -------------------------------
(***************************************************************************)
(* The system calls that change names: create, remove and move, in the     *)
(* ordinary form (SYSCALL_FILE_CREATE, DIRECTORY_CREATE, PATH_REMOVE,      *)
(* PATH_MOVE) and in the form an administrator may use on the data of      *)
(* regular users (SYSCALL_FILESYSTEM_ADMIN), with the operations of vfs.c  *)
(* and the namespace rules of mgfs.c under them.                           *)
(*                                                                         *)
(* Every lookup of one component and every mutation runs under the         *)
(* operation_lock of the superblock and may sleep, so other processes run  *)
(* between them; the administrator's calls also wait for an answer to a    *)
(* prompt.  One MGFS volume; a person runs one process.  Objects are       *)
(* numbered by record id, which MGFS never uses twice.                     *)
(***************************************************************************)
EXTENDS Naturals, Sequences, FiniteSets

CONSTANTS
    Person,          \* identities that run a process
    EntryName,       \* names that are created
    ParentPaths,     \* paths, from the root, of the directories that are named
    FirstTree,       \* the objects at the start, the root first
    FirstAdmins,     \* the administrators at the start
    MaxObjects,      \* bound: objects ever created
    MaxNameCalls,    \* bound: system calls
    MaxRoleChanges   \* bound: role changes

VARIABLES
    obj,       \* sequence of [kind, owner, read, write, sticky, dir, name]
    readOnly,  \* the volume is mounted read-only
    role,      \* [Person -> {"regular", "admin"}], in the live registry
    call,      \* what each process is doing
    hnd,       \* file a person opened with administrator access: [o, owner]
    ngh        \* ghost: [calls, changes, wrong, sticky, stale]

namesVars == <<obj, readOnly, role, call, hnd, ngh>>

NoCall == [pc |-> "idle", op |-> "none", admin |-> FALSE, src |-> <<>>, dst |-> <<>>, name |-> "",
           to |-> "", kind |-> "file", depth |-> 0, rest |-> <<>>, cur |-> 1, sp |-> 0, dp |-> 0,
           n |-> 0, again |-> FALSE, shown |-> <<0, 0, 0>>]
NoFile == [o |-> 0, owner |-> "none"]

NamesInit ==
    /\ obj = FirstTree /\ readOnly \in BOOLEAN
    /\ role = [p \in Person |-> IF p \in FirstAdmins THEN "admin" ELSE "regular"]
    /\ call = [p \in Person |-> NoCall] /\ hnd = [p \in Person |-> NoFile]
    /\ ngh = [calls |-> 0, changes |-> 0, wrong |-> FALSE, sticky |-> FALSE, stale |-> FALSE]

-----------------------------------------------------------------------------
\* Access.

vfs_check_access(p, o, write) ==
    \/ obj[o].owner = p
    \/ IF write THEN obj[o].write ELSE obj[o].read

vfs_administrator_override_allowed(o) == obj[o].owner \in Person /\ role[obj[o].owner] = "regular"

Override(p, o) == obj[o].owner # p /\ vfs_administrator_override_allowed(o)

\* A mutant: whoever may write the directory may remove what is in it.
MutationAlways(p, d, o) == TRUE
vfs_directory_child_mutation_allowed(p, d, o) ==
    obj[d].sticky => p \in {obj[d].owner, obj[o].owner}

syscall_admin_can_traverse(p, o) == vfs_check_access(p, o, FALSE) \/ Override(p, o)
syscall_admin_parent_allowed(p, d) ==
    obj[d].kind = "dir" /\ (vfs_check_access(p, d, TRUE) \/ Override(p, d))
syscall_admin_user_parent_allowed(p, d) == obj[d].kind = "dir" /\ Override(p, d)

-----------------------------------------------------------------------------
\* The namespace of the volume.

Objects == DOMAIN obj
\* The driver's finddir(): 0 when there is no such entry, or no such directory any more.
Find(d, name) ==
    LET found == {o \in Objects : obj[o].dir = d /\ obj[o].name = name /\ obj[d].kind = "dir"}
    IN  IF found = {} THEN 0 ELSE CHOOSE o \in found : TRUE

\* What is above an object; a path longer than there are objects goes round in a circle.
Above(o) ==
    LET up[i \in 0..MaxObjects] == LET x == IF i = 0 THEN o ELSE up[i-1] IN IF i = 0 \/ x = 0 THEN x ELSE obj[x].dir
    IN  {up[i] : i \in 0..MaxObjects}
mgfs_record_in_subtree(root, target) == root \in Above(target)

\* A mutant: a directory may be moved anywhere.
RenameAnywhere(o, d, name) == obj[d].kind = "dir" /\ Find(d, name) = 0
mgfs_rename_allowed(o, d, name) ==
    /\ obj[d].kind = "dir" /\ Find(d, name) = 0
    /\ obj[o].kind = "dir" => ~mgfs_record_in_subtree(o, d)

Removable(o) == obj[o].kind = "dir" => \A x \in Objects : obj[x].dir # o

-----------------------------------------------------------------------------
\* The start of a call and the walk to its directories.

Begin(p, c) ==
    /\ call[p].pc = "idle" /\ ngh.calls < MaxNameCalls
    /\ c.admin => role[p] = "admin"
    /\ call' = [call EXCEPT ![p] = [c EXCEPT !.pc = "src", !.rest = IF c.admin THEN <<>> ELSE c.src]]
    /\ ngh' = [ngh EXCEPT !.calls = @ + 1]
    /\ UNCHANGED <<obj, readOnly, role, hnd>>

Return(p) == call' = [call EXCEPT ![p] = NoCall]

\* vfs_lookup_internal(): one component under the operation lock.
Walk(p) ==
    LET c == call[p] IN
    /\ c.pc \in {"src", "dst"} /\ c.rest # <<>>
    /\ LET next == Find(c.cur, Head(c.rest)) IN
       IF next = 0 \/ (~c.admin /\ ~vfs_check_access(p, c.cur, FALSE))
       THEN Return(p)
       ELSE call' = [call EXCEPT ![p].cur = next, ![p].rest = Tail(@)]
    /\ UNCHANGED <<obj, readOnly, role, hnd, ngh>>

Target(c) == IF c.pc = "src" THEN c.src ELSE c.dst

\* syscall_admin_lookup_path(): the next longer prefix is looked up from the root.
NextPrefix(p) ==
    LET c == call[p] IN
    /\ c.pc \in {"src", "dst"} /\ c.rest = <<>> /\ c.admin /\ c.depth < Len(Target(c))
    /\ IF syscall_admin_can_traverse(p, c.cur)
       THEN call' = [call EXCEPT ![p].depth = @ + 1, ![p].cur = 1,
                                 ![p].rest = SubSeq(Target(c), 1, c.depth + 1)]
       ELSE Return(p)
    /\ UNCHANGED <<obj, readOnly, role, hnd, ngh>>

\* A directory is found; a move then looks for the other one.
Arrive(p) ==
    LET c == call[p]
        more == c.pc = "src" /\ c.op = "move" IN
    /\ c.pc \in {"src", "dst"} /\ c.rest = <<>> /\ (c.admin => c.depth = Len(Target(c)))
    /\ IF ~c.admin /\ ~vfs_check_access(p, c.cur, FALSE)
       THEN Return(p)
       ELSE call' = [call EXCEPT ![p].pc = IF more THEN "dst" ELSE "find", ![p].depth = 0, ![p].cur = 1,
                       ![p].sp = IF c.pc = "src" THEN c.cur ELSE @,
                       ![p].dp = IF c.pc = "dst" THEN c.cur ELSE @,
                       ![p].rest = IF more /\ ~c.admin THEN c.dst ELSE <<>>]
    /\ UNCHANGED <<obj, readOnly, role, hnd, ngh>>

\* The tests on the directories, before and, for an administrator, after the prompt.
ParentsAllowed(p, c) ==
    LET may(d) == IF ~c.admin THEN obj[d].kind \in {"dir", "gone"} /\ vfs_check_access(p, d, TRUE)
                  ELSE IF c.op = "create" THEN syscall_admin_user_parent_allowed(p, d)
                  ELSE syscall_admin_parent_allowed(p, d)
    IN  /\ may(c.sp) /\ (c.op = "move" => may(c.dp))
        /\ c.again => <<c.sp, c.dp>> = <<c.shown[1], c.shown[2]>>

\* vfs_finddir(): the object itself, or for a create that there is none.
FindObject(p) ==
    LET c == call[p]
        o == Find(c.sp, c.name)
        ok == /\ ParentsAllowed(p, c)
              /\ ~c.admin => vfs_check_access(p, c.sp, FALSE)
              /\ (o = 0) = (c.op = "create")
              /\ c.admin /\ o # 0 => Override(p, o)
              /\ c.op = "open" => obj[o].kind = "file"
              /\ c.again => o = c.shown[3]
    IN  /\ c.pc = "find"
        /\ IF ok THEN call' = [call EXCEPT ![p].n = o,
                                 ![p].pc = IF c.op = "move" THEN "free"
                                           ELSE IF c.admin /\ ~c.again THEN "prompt" ELSE "act"]
                 ELSE Return(p)
        /\ UNCHANGED <<obj, readOnly, role, hnd, ngh>>

\* A move looks whether the destination is free.
FindFree(p) ==
    LET c == call[p] IN
    /\ c.pc = "free"
    /\ IF Find(c.dp, c.to) # 0 \/ (~c.admin /\ ~vfs_check_access(p, c.dp, FALSE))
       THEN Return(p)
       ELSE call' = [call EXCEPT ![p].pc = IF c.admin /\ ~c.again THEN "prompt" ELSE "act"]
    /\ UNCHANGED <<obj, readOnly, role, hnd, ngh>>

\* syscall_admin_authorize(): the answer, and whether the requester is still an administrator.
syscall_admin_authorize(p) ==
    LET c == call[p] IN
    /\ c.pc = "prompt"
    /\ \E yes \in BOOLEAN :
         IF yes /\ role[p] = "admin"
         THEN call' = [call EXCEPT ![p].pc = "src", ![p].again = TRUE, ![p].shown = <<c.sp, c.dp, c.n>>,
                                   ![p].cur = 1, ![p].rest = <<>>, ![p].depth = 0]
         ELSE Return(p)
    /\ UNCHANGED <<obj, readOnly, role, hnd, ngh>>

-----------------------------------------------------------------------------
\* The mutation, under the operation lock.

\* A mutant: whatever has the name now.
Named(p, c) ==
    LET o == Find(c.sp, c.name)
    IN  o # 0 /\ (c.admin \/ vfs_directory_child_mutation_allowed(p, c.sp, o))
\* vfs_*_expected_internal(): the entry still names the object, and the policy allows it.
vfs_node_identity_matches(p, c) ==
    /\ Find(c.sp, c.name) = c.n
    /\ c.admin \/ vfs_directory_child_mutation_allowed(p, c.sp, c.n)

\* What the step does to the object that really has the name.
Watched(p, c, o) ==
    [ngh EXCEPT !.wrong = @ \/ o # c.n \/ (c.admin /\ <<c.sp, c.n>> # <<c.shown[1], c.shown[3]>>),
                !.sticky = @ \/ (~c.admin /\ obj[c.sp].sticky /\ p \notin {obj[c.sp].owner, obj[o].owner})]

\* vfs_unlink_expected_internal() and vfs_rmdir_expected_internal()
Remove(p) ==
    LET c == call[p]
        o == Find(c.sp, c.name) IN
    /\ c.pc = "act" /\ c.op = "remove"
    /\ IF ~readOnly /\ vfs_node_identity_matches(p, c) /\ Removable(o)
       THEN /\ obj' = [obj EXCEPT ![o] = [@ EXCEPT !.kind = "gone", !.dir = 0, !.name = ""]]
            /\ ngh' = Watched(p, c, o)
       ELSE UNCHANGED <<obj, ngh>>
    /\ Return(p)
    /\ UNCHANGED <<readOnly, role, hnd>>

\* vfs_rename_expected_internal()
Move(p) ==
    LET c == call[p]
        o == Find(c.sp, c.name) IN
    /\ c.pc = "act" /\ c.op = "move"
    /\ IF ~readOnly /\ vfs_node_identity_matches(p, c) /\ mgfs_rename_allowed(o, c.dp, c.to)
       THEN /\ obj' = [obj EXCEPT ![o].dir = c.dp, ![o].name = c.to]
            /\ ngh' = Watched(p, c, o)
       ELSE UNCHANGED <<obj, ngh>>
    /\ Return(p)
    /\ UNCHANGED <<readOnly, role, hnd>>

\* mgfs_create_node(): the directory is read again.
mgfs_create_allowed(d, name) == obj[d].kind = "dir" /\ Find(d, name) = 0

\* vfs_create(), vfs_mkdir() and their _owned forms.
Create(p) ==
    LET c == call[p] IN
    /\ c.pc = "act" /\ c.op = "create" /\ Len(obj) < MaxObjects
    /\ IF ~readOnly /\ (c.admin \/ vfs_check_access(p, c.sp, TRUE)) /\ mgfs_create_allowed(c.sp, c.name)
       THEN obj' = Append(obj, [kind |-> c.kind, owner |-> IF c.admin THEN obj[c.sp].owner ELSE p,
                                read |-> TRUE, write |-> FALSE, sticky |-> FALSE,
                                dir |-> c.sp, name |-> c.name])
       ELSE UNCHANGED obj
    /\ Return(p)
    /\ UNCHANGED <<readOnly, role, hnd, ngh>>

\* vfs_open_node_user_authorized(): the override once more, with fresh credentials.
Open(p) ==
    LET c == call[p] IN
    /\ c.pc = "act" /\ c.op = "open"
    /\ hnd' = IF role[p] = "admin" /\ Override(p, c.n) /\ hnd[p] = NoFile
              THEN [hnd EXCEPT ![p] = [o |-> c.n, owner |-> obj[c.n].owner]] ELSE hnd
    /\ Return(p)
    /\ UNCHANGED <<obj, readOnly, role, ngh>>

\* A mutant: what was granted at open stays granted.
AuthorizedOnce(p) == TRUE
vfs_handle_authorized(p) ==
    obj[hnd[p].o].owner = hnd[p].owner /\ role[p] = "admin" /\ Override(p, hnd[p].o)

\* vfs_file_read() through that handle.
Read(p) ==
    /\ hnd[p] # NoFile
    /\ vfs_handle_authorized(p) \/ vfs_check_access(p, hnd[p].o, FALSE)
    /\ ngh' = [ngh EXCEPT !.stale = @ \/ ~(\/ role[p] = "admin" /\ role[hnd[p].owner] = "regular"
                                           \/ obj[hnd[p].o].read)]
    /\ UNCHANGED <<obj, readOnly, role, call, hnd>>

Close(p) ==
    /\ hnd[p] # NoFile
    /\ hnd' = [hnd EXCEPT ![p] = NoFile]
    /\ UNCHANGED <<obj, readOnly, role, call, ngh>>

\* identity_account_set_role() of somebody, at any time.
RoleChange(p) ==
    /\ ngh.changes < MaxRoleChanges
    /\ role' = [role EXCEPT ![p] = IF @ = "admin" THEN "regular" ELSE "admin"]
    /\ ngh' = [ngh EXCEPT !.changes = @ + 1]
    /\ UNCHANGED <<obj, readOnly, call, hnd>>

-----------------------------------------------------------------------------
Requests ==
    {[NoCall EXCEPT !.op = "create", !.src = s, !.name = n, !.kind = k, !.admin = a] :
        s \in ParentPaths, n \in EntryName, k \in {"file", "dir"}, a \in BOOLEAN}
    \cup {[NoCall EXCEPT !.op = o, !.src = s, !.name = n, !.admin = a] :
        o \in {"remove", "open"}, s \in ParentPaths, n \in EntryName, a \in BOOLEAN}
    \cup {[NoCall EXCEPT !.op = "move", !.src = s, !.name = n, !.dst = d, !.to = t, !.admin = a] :
        s \in ParentPaths, n \in EntryName, d \in ParentPaths, t \in EntryName, a \in BOOLEAN}

NamesNext ==
    \/ \E p \in Person, c \in Requests : (c.op = "open" => c.admin) /\ Begin(p, c)
    \/ \E p \in Person : \/ Walk(p) \/ NextPrefix(p) \/ Arrive(p) \/ FindObject(p) \/ FindFree(p)
                         \/ syscall_admin_authorize(p) \/ Remove(p) \/ Move(p) \/ Create(p) \/ Open(p)
                         \/ Read(p) \/ Close(p) \/ RoleChange(p)

NamesSpec == NamesInit /\ [][NamesNext]_namesVars

-----------------------------------------------------------------------------
\* The names form a tree: every object is in a directory that exists, reaches the root,
\* and has its name alone, whatever creates, removes and moves overlap.
TreeSound ==
    /\ \A o \in Objects \ {1} : obj[o].kind # "gone" =>
         /\ obj[o].dir \in Objects /\ obj[obj[o].dir].kind = "dir"
         /\ 1 \in Above(o)
    /\ \A o, x \in Objects : o # x /\ obj[o].dir # 0 => <<obj[o].dir, obj[o].name>> # <<obj[x].dir, obj[x].name>>

\* A remove or a move takes the object the call found, and for an administrator the one
\* in the directory that was looked up before the prompt, also when the name was given
\* to another object meanwhile (vfs.c:1042: "bind name-based mutations to the object that
\* was authorized before a possible path replacement").
ApprovedObject == ~ngh.wrong

\* In an owner-restricted directory only the owners remove or move an entry.
StickyKept == ~ngh.sticky

\* A file opened with administrator access is no longer readable through the handle
\* when its owner has become an administrator or the opener is none any more.
HandleRevoked == ~ngh.stale
=============================================================================
