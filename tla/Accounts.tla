------------------------------ MODULE Accounts ------------------------------
(***************************************************************************)
(* The identity registry (kernel/src/identity.c) and the authorization of  *)
(* its updates (kernel/src/pass.c): lookup and privilege checks against    *)
(* the live registry, the busy flag, the prompt, home directories, the     *)
(* database file replaced by renames, publication, and the reload at boot. *)
(*                                                                         *)
(* Every file operation may fail, and power may be lost between any two.   *)
(***************************************************************************)
EXTENDS Integers, Sequences, FiniteSets

CONSTANTS AccountName,     \* usernames; Developer is the preinstalled one
          Developer,
          FirstUid, LastUid, \* the uids, up to ~(u32)0
          MaxRecords,      \* IDENTITY_ACCOUNT_MAX_RECORDS
          MaxUpdates, MaxAccountFaults

VARIABLES reg,    \* the active registry, published under identity_lock
          loaded, \* registry_loaded
          disk,   \* the files users, .users.new and .users.old
          homes,  \* owner of /home/<name>, or 0
          pend,   \* callers between account_require_manage_users() and the busy flag
          upd,    \* the update that holds identity_update_busy
          agh     \* history

accountVars == <<reg, loaded, disk, homes, pend, upd, agh>>

Uids == FirstUid..LastUid
Absent == [users |-> <<>>, next |-> 0]
Torn == [users |-> <<>>, next |-> 1]
NoUpdate == [at |-> "idle", op |-> "none", by |-> 0, name |-> Developer, arg |-> "none",
             new |-> Absent, then |-> "none"]

Account(name, uid, role, initial) ==
  [name |-> name, uid |-> uid, role |-> role, initial |-> initial, pw |-> 0]
Installed ==
  [users |-> <<Account(Developer, FirstUid, "admin", TRUE)>>, next |-> FirstUid + 1]

AccountsInit ==
  /\ reg = Absent /\ loaded = FALSE
  /\ \E version \in {1, 2} :
       disk = [users |-> Installed, version |-> version, new |-> Absent, old |-> Absent]
  /\ homes = [n \in AccountName |-> IF n = Developer THEN FirstUid ELSE 0]
  /\ pend = {} /\ upd = NoUpdate
  /\ agh = [updates |-> 0, faults |-> 0, acked |-> Installed, limbo |-> Absent, stray |-> {}, split |-> FALSE,
            persons |-> {<<FirstUid, Developer>>}, unauthorized |-> FALSE]

(***************************************************************************)
(* The registry.                                                           *)
(***************************************************************************)

account_find(r, name) == {i \in 1..Len(r.users) : r.users[i].name = name}
Admins(r) == {i \in 1..Len(r.users) : r.users[i].role = "admin"}
Initials(r) == {i \in 1..Len(r.users) : r.users[i].initial}

identity_registry_valid(r) ==
  /\ Len(r.users) \in 1..MaxRecords
  /\ r.next >= FirstUid
  /\ \A i \in 1..Len(r.users) :
       /\ r.users[i].uid < r.next
       /\ \A j \in 1..(i - 1) : /\ r.users[j].uid # r.users[i].uid
                                /\ r.users[j].name # r.users[i].name
  /\ Cardinality(Initials(r)) = 1

\* identity_credentials_has_privilege() resolves the role in the live registry.
Privileged(uid) == loaded /\ \E i \in Admins(reg) : reg.users[i].uid = uid

\* A mutant: the prompt relies on the check made before the update began.
MayPromptAlways(uid) == TRUE

\* pass_authorize_for_requester() repeats the check.
MayPrompt(uid) == Privileged(uid)

\* A mutant: one administrator is enough to remove one.
LastAdminNone(i) == FALSE

LastAdmin(i) == reg.users[i].role = "admin" /\ Cardinality(Admins(reg)) <= 1

\* What the update is refused for, before anyone is asked.
Acceptable(by, op, name, arg) ==
  IF op = "create"
  THEN /\ account_find(reg, name) = {}
       /\ Len(reg.users) < MaxRecords /\ reg.next < LastUid
  ELSE \E i \in account_find(reg, name) :
         LET user == reg.users[i]
         IN  /\ op = "remove" => user.uid # by /\ ~LastAdmin(i)
             /\ op = "role" => user.role # arg /\ (arg = "regular" => ~LastAdmin(i))
             /\ op = "password" => user.uid = by \/ Privileged(by)

\* A mutant: the uid after the highest one in use is taken.
NextUidReuse(r) ==
  1 + (CHOOSE u \in Uids : /\ \E i \in 1..Len(r.users) : r.users[i].uid = u
                           /\ \A i \in 1..Len(r.users) : r.users[i].uid <= u)

NextUid(r) == r.next

\* The account that becomes the initial one: the first administrator, or the first.
Replacement(r, gone) ==
  LET others == (1..Len(r.users)) \ {gone}
      best == IF others \cap Admins(r) # {} THEN others \cap Admins(r) ELSE others
  IN  CHOOSE i \in best : \A j \in best : i <= j

Without(r, i) ==
  LET marked == IF r.users[i].initial
                THEN [r.users EXCEPT ![Replacement(r, i)].initial = TRUE] ELSE r.users
  IN  [r EXCEPT !.users = SubSeq(marked, 1, i - 1) \o SubSeq(marked, i + 1, Len(marked))]

Updated(u) ==
  LET at == CHOOSE i \in account_find(reg, u.name) : TRUE
  IN  CASE u.op = "create" ->
             [users |-> Append(reg.users, [Account(u.name, NextUid(reg), "regular", FALSE)
                                             EXCEPT !.pw = 1]),
              next |-> NextUid(reg) + 1]
        [] u.op = "remove" -> Without(reg, at)
        [] u.op = "role" -> [reg EXCEPT !.users[at].role = u.arg]
        [] u.op = "password" -> [reg EXCEPT !.users[at].pw = 1 - @]

OwnPassword(u) ==
  /\ u.op = "password"
  /\ \E i \in account_find(reg, u.name) : reg.users[i].uid = u.by

(***************************************************************************)
(* Updates up to the database.                                             *)
(***************************************************************************)

RequireManageUsers(c) ==
  /\ Privileged(c) /\ agh.updates + Cardinality(pend) < MaxUpdates
  /\ pend' = pend \cup {c}
  /\ UNCHANGED <<reg, loaded, disk, homes, upd, agh>>

\* identity_update_begin() and the checks on a copy of the active registry.
BeginUpdate(c, op, name, arg) ==
  /\ upd.at = "idle" /\ loaded
  /\ IF op = "password" THEN agh.updates < MaxUpdates ELSE c \in pend
  /\ pend' = pend \ {c}
  /\ agh' = [agh EXCEPT !.updates = @ + 1]
  /\ LET u == [NoUpdate EXCEPT !.op = op, !.by = c, !.name = name, !.arg = arg]
     IN  upd' = IF ~Acceptable(c, op, name, arg) THEN NoUpdate
                ELSE [u EXCEPT !.at = IF OwnPassword(u) THEN "compute" ELSE "prompt"]
  /\ UNCHANGED <<reg, loaded, disk, homes>>

\* Another update holds the flag: MG_ERR_BUSY.
Busy(c) ==
  /\ upd.at # "idle" /\ c \in pend
  /\ pend' = pend \ {c}
  /\ UNCHANGED <<reg, loaded, disk, homes, upd, agh>>

\* pass_authorize_current(): the answer allows or denies; a requester killed at
\* the prompt reads nothing and is denied.
Prompted ==
  /\ upd.at = "prompt"
  /\ \E allowed \in BOOLEAN :
       upd' = IF allowed /\ MayPrompt(upd.by) THEN [upd EXCEPT !.at = "compute"] ELSE NoUpdate
  /\ UNCHANGED <<reg, loaded, disk, homes, pend, agh>>

\* The new registry; an account that is created gets its home directory first.
Compute ==
  /\ upd.at = "compute"
  /\ LET new == Updated(upd)
         home == upd.op = "create"
     IN  IF ~identity_registry_valid(new) \/ (home /\ homes[upd.name] # 0)
         THEN upd' = NoUpdate /\ UNCHANGED <<homes, agh>>
         ELSE /\ homes' = IF home THEN [homes EXCEPT ![upd.name] = NextUid(reg)] ELSE homes
              /\ upd' = [upd EXCEPT !.at = "clean", !.new = new,
                           !.then = IF upd.arg = "purge" THEN "purge" ELSE "publish"]
              /\ agh' = [agh EXCEPT !.unauthorized =
                           @ \/ ~(Privileged(upd.by) \/ OwnPassword(upd))]
  /\ UNCHANGED <<reg, loaded, disk, pend>>

(***************************************************************************)
(* account_persist_registry()                                              *)
(***************************************************************************)

Clean ==
  /\ upd.at = "clean"
  /\ disk' = [disk EXCEPT !.new = Absent, !.old = Absent]
  /\ upd' = [upd EXCEPT !.at = "write"]
  /\ UNCHANGED <<reg, loaded, homes, pend, agh>>

CreateNew ==
  /\ upd.at = "write" /\ disk.new = Absent
  /\ disk' = [disk EXCEPT !.new = Torn]
  /\ UNCHANGED <<reg, loaded, homes, pend, upd, agh>>

WriteNew ==
  /\ upd.at = "write" /\ disk.new = Torn
  /\ disk' = [disk EXCEPT !.new = upd.new]
  /\ upd' = [upd EXCEPT !.at = "retire"]
  /\ UNCHANGED <<reg, loaded, homes, pend, agh>>

\* A mutant: the old database is deleted to make room for the new one.
RetireDeletes ==
  /\ upd.at = "retire"
  /\ disk' = [disk EXCEPT !.users = Absent, !.old = Absent]
  /\ upd' = [upd EXCEPT !.at = "install"]
  /\ UNCHANGED <<reg, loaded, homes, pend, agh>>

Retire ==
  /\ upd.at = "retire"
  /\ disk' = IF disk.users = Absent THEN disk
             ELSE [disk EXCEPT !.users = Absent, !.old = disk.users]
  /\ upd' = [upd EXCEPT !.at = "install"]
  /\ UNCHANGED <<reg, loaded, homes, pend, agh>>

Install ==
  /\ upd.at = "install"
  /\ disk' = [disk EXCEPT !.users = disk.new, !.version = 2, !.new = Absent]
  /\ upd' = [upd EXCEPT !.at = "drop"]
  /\ UNCHANGED <<reg, loaded, homes, pend, agh>>

\* The backup is removed; that may fail without consequence.
Drop ==
  /\ upd.at = "drop"
  /\ \E removed \in BOOLEAN :
       /\ removed \/ agh.faults < MaxAccountFaults
       /\ disk' = IF removed THEN [disk EXCEPT !.old = Absent] ELSE disk
       /\ agh' = IF removed THEN agh ELSE [agh EXCEPT !.faults = @ + 1]
  /\ upd' = IF upd.then = "restored" THEN NoUpdate ELSE [upd EXCEPT !.at = upd.then]
  /\ UNCHANGED <<reg, loaded, homes, pend>>

\* A mutant: the home of an account that was not created stays.
AbandonedKeeps(u) == homes

\* What a failed persist leaves to its caller: a created home is removed again.
Abandoned(u) == IF u.op = "create" THEN [homes EXCEPT ![u.name] = 0] ELSE homes

\* A mutant: after the second rename failed the backup is left where it is.
RestoredNot(d) == [d EXCEPT !.new = Absent]

\* users is put back when the second rename failed; the new file is removed.
Restored(d) ==
  [d EXCEPT !.new = Absent, !.users = IF d.users = Absent THEN d.old ELSE d.users,
            !.old = IF d.users = Absent THEN Absent ELSE d.old]

PersistFails ==
  /\ upd.at \in {"clean", "write", "retire", "install"} /\ agh.faults < MaxAccountFaults
  /\ \E again \in BOOLEAN :  \* a second failure, in the clean-up
       /\ again => /\ upd.at = "install" \/ upd.op = "create"
                   /\ agh.faults + 1 < MaxAccountFaults
       /\ disk' = IF upd.at = "clean" THEN disk
                  ELSE IF again /\ upd.at = "install" THEN [disk EXCEPT !.new = Absent] ELSE Restored(disk)
       /\ agh' = [agh EXCEPT !.faults = @ + (IF again THEN 2 ELSE 1),
                !.split = @ \/ (again /\ upd.at = "install") \/ upd.then = "restored",
                !.stray = IF again /\ upd.op = "create" THEN @ \cup {upd.name} ELSE @]
       /\ homes' = IF again THEN homes ELSE Abandoned(upd)
  /\ upd' = NoUpdate
  /\ UNCHANGED <<reg, loaded, pend>>

(***************************************************************************)
(* After the database.                                                     *)
(***************************************************************************)

\* identity_registry_publish() and the successful return.
Publish ==
  /\ upd.at = "publish"
  /\ reg' = upd.new /\ loaded' = TRUE
  /\ upd' = NoUpdate
  /\ agh' = [agh EXCEPT !.acked = upd.new,
               !.persons = @ \cup {<<upd.new.users[i].uid, upd.new.users[i].name>> :
                                     i \in 1..Len(upd.new.users)}]
  /\ UNCHANGED <<disk, homes, pend>>

\* account_purge_home(): the tree below the home, then the home itself.
account_purge_home(u) == [homes EXCEPT ![u.name] = 0]

\* When the purge fails the old registry is persisted again.
Purge ==
  /\ upd.at = "purge"
  /\ \/ /\ homes' = account_purge_home(upd)
        /\ upd' = [upd EXCEPT !.at = "publish"]
        /\ UNCHANGED agh
     \/ /\ agh.faults < MaxAccountFaults
        /\ agh' = [agh EXCEPT !.faults = @ + 1, !.limbo = upd.new]
        /\ upd' = [upd EXCEPT !.at = "clean", !.new = reg, !.then = "restored"]
        /\ UNCHANGED homes
  /\ UNCHANGED <<reg, loaded, disk, pend>>

(***************************************************************************)
(* Power loss and identity_registry_reload().                              *)
(***************************************************************************)

PowerLoss ==
  /\ loaded \/ upd.at # "idle"
  /\ agh.faults < MaxAccountFaults
  /\ reg' = Absent /\ loaded' = FALSE /\ pend' = {} /\ upd' = NoUpdate
  /\ agh' = [agh EXCEPT !.faults = @ + 1,
               !.acked = IF disk.users \in {upd.new, agh.limbo} \ {Absent} THEN disk.users ELSE @,
               !.stray = IF upd.op = "create" /\ disk.users # upd.new
                         THEN @ \cup {n \in {upd.name} : homes[n] # 0} ELSE @]
  /\ UNCHANGED <<disk, homes>>

\* A version 1 database is persisted as version 2 before it is published.
Reload ==
  /\ ~loaded /\ upd.at = "idle" /\ identity_registry_valid(disk.users)
  /\ IF disk.version = 1
     THEN /\ upd' = [NoUpdate EXCEPT !.at = "clean", !.op = "migrate", !.new = disk.users,
                                     !.then = "publish"]
          /\ UNCHANGED <<reg, loaded, agh>>
     ELSE /\ reg' = disk.users /\ loaded' = TRUE /\ UNCHANGED upd
          /\ agh' = [agh EXCEPT !.acked = disk.users,
               !.persons = @ \cup {<<disk.users.users[i].uid, disk.users.users[i].name>> :
                                     i \in 1..Len(disk.users.users)}]
  /\ UNCHANGED <<disk, homes, pend>>

AccountsNext ==
  \/ \E c \in Uids : RequireManageUsers(c) \/ Busy(c)
  \/ \E c \in Uids, n \in AccountName :
       \/ BeginUpdate(c, "create", n, "none")
       \/ \E purge \in {"purge", "keep"} : BeginUpdate(c, "remove", n, purge)
       \/ \E role \in {"admin", "regular"} : BeginUpdate(c, "role", n, role)
       \/ BeginUpdate(c, "password", n, "none")
  \/ Prompted \/ Compute \/ Clean \/ CreateNew \/ WriteNew \/ Retire \/ Install \/ Drop
  \/ PersistFails \/ Publish \/ Purge \/ PowerLoss \/ Reload

AccountsSpec == AccountsInit /\ [][AccountsNext]_accountVars

(***************************************************************************)
(* Properties                                                              *)
(***************************************************************************)

\* The active registry is one the next boot accepts, and somebody can manage it:
\* no sequence of removals and role changes loses the last administrator.
RegistrySound == loaded => identity_registry_valid(reg) /\ Admins(reg) # {}

\* "Allocation is monotonic": over crashes, failures and removals no uid was ever
\* published for two different persons.
UidNeverReused ==
  \A p, q \in agh.persons : p[1] = q[1] => p[2] = q[2]

\* An update is computed for a requester who is an administrator at that moment,
\* although privilege is first checked before the flag is taken.
AuthorityIsLive == ~agh.unauthorized

\* At rest the database holds the active registry, whatever single operation failed
\* before; only a failure within the clean-up or the restoration separates them.
DiskAgrees == loaded /\ upd.at = "idle" /\ ~agh.split => disk.users = reg /\ disk.version = 2

\* At every instant a complete database is on disk: the last one published, the
\* one that replaces it, or the one without the account whose purge failed.
SomewhereOnDisk ==
  ~agh.split => ({disk.users, disk.old} \ {Absent}) \cap {agh.acked, agh.limbo, upd.new} # {}

\* A home directory belongs to the account of its name or to no account, but for
\* the home of an account whose creation was cut short by a power loss.
HomesSeparate ==
  loaded => \A n \in AccountName \ agh.stray : \A i \in 1..Len(reg.users) :
              homes[n] = reg.users[i].uid => reg.users[i].name = n
=============================================================================
