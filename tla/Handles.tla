------------------------------- MODULE Handles -------------------------------
(***************************************************************************)
(* The handle table of a process and the objects it refers to              *)
(* (process.c: process_handle_*, process_redirect_output and               *)
(* process_restore_output; object.c: references and object creation).      *)
(*                                                                         *)
(* A process has one thread, so a system call on its table is one action;  *)
(* an object is destroyed when its last reference goes.  Slot 1 is the     *)
(* initial console handle (PROCESS_INITIAL_CONSOLE_HANDLE).  A handle is   *)
(* its slot and generation; a generation is a number modulo GenerationMod  *)
(* (2^16 in the code) that is never 0.                                     *)
(***************************************************************************)
EXTENDS Naturals, FiniteSets, FiniteSetsExt

CONSTANTS
    HandleCapacity,  \* process->handle_capacity
    GenerationMod,   \* 2^16 in the code
    FileObject,      \* objects that open() creates
    Console,         \* the console object of the process
    NoObject,
    MaxInstalls      \* bound: installations in a slot

ASSUME HandleAssumption ==
    /\ HandleCapacity \in Nat \ {0} /\ GenerationMod \in Nat /\ GenerationMod > 1
    /\ Console \notin FileObject /\ NoObject \notin FileObject \cup {Console}

VARIABLES
    slots,      \* the table: [active, object, generation, writable], and a count
    ref_count,  \* references of an object; 0: destroyed or not yet created
    output,     \* output_redirected and redirected_output_saved_handle
    issued      \* handles given to the process: [slot, generation, serial]

handleVars == <<slots, ref_count, output, issued>>

HandleSlot == 1..HandleCapacity
Object == FileObject \cup {Console}
NoHandle == [slot |-> 0, generation |-> 0]

HandleInit ==
    /\ slots = [i \in HandleSlot |->
                  IF i = 1 THEN [active |-> TRUE, object |-> Console, generation |-> 1,
                                 writable |-> TRUE, serial |-> 1]
                  ELSE [active |-> FALSE, object |-> NoObject, generation |-> 0,
                        writable |-> FALSE, serial |-> 0]]
    /\ ref_count = [o \in Object |-> IF o = Console THEN 1 ELSE 0]
    /\ output = [redirected |-> FALSE, saved |-> NoHandle]
    /\ issued = {[slot |-> 1, generation |-> 1, serial |-> 1]}

FreeSlots == {i \in HandleSlot : ~slots[i].active}
FirstFree == Min(FreeSlots)
\* A mutant: generation 0 is not skipped.
WrapsToZero(g) == (g + 1) % GenerationMod
NextGeneration(g) == IF (g + 1) % GenerationMod = 0 THEN 1 ELSE (g + 1) % GenerationMod
Install(i, o, w) == [active |-> TRUE, object |-> o, writable |-> w,
                     generation |-> NextGeneration(slots[i].generation),
                     serial |-> slots[i].serial + 1]
Issue(i) == [slot |-> i, generation |-> NextGeneration(slots[i].generation),
             serial |-> slots[i].serial + 1]
Emptied(s) == [s EXCEPT !.active = FALSE, !.object = NoObject, !.writable = FALSE]

\* object_reference() and object_release() on the counts; a destroyed object
\* is not referenced again.
object_reference(rc, o) == [rc EXCEPT ![o] = @ + 1]
ReleaseRef(rc, o) == [rc EXCEPT ![o] = IF @ = 0 THEN 0 ELSE @ - 1]

\* process_handle_lookup_any(): the slot a handle names, if the handle is valid.
Names(h, i) == /\ h.slot = i /\ h.generation # 0
               /\ slots[i].active /\ slots[i].generation = h.generation
process_handle_lookup(h, write) ==
    {i \in HandleSlot : Names(h, i) /\ (write => slots[i].writable)}

\* object_file_create() followed by process_handle_install(): the installed
\* handle holds the reference, the creator's is released; with a full table
\* the object goes again.
handle_open(o, w) ==
    /\ ref_count[o] = 0 /\ o \in FileObject
    /\ FreeSlots # {}
    /\ slots[FirstFree].serial < MaxInstalls
    /\ slots' = [slots EXCEPT ![FirstFree] = Install(FirstFree, o, w)]
    /\ ref_count' = ReleaseRef(object_reference([ref_count EXCEPT ![o] = 1], o), o)
    /\ issued' = issued \cup {Issue(FirstFree)}
    /\ UNCHANGED output

\* process_handle_close() of any handle the process ever got.
process_handle_close(h) ==
    \E i \in process_handle_lookup(h, FALSE) :
      /\ slots' = [slots EXCEPT ![i] = Emptied(@)]
      /\ ref_count' = ReleaseRef(ref_count, slots[i].object)
      /\ UNCHANGED <<output, issued>>

\* What a failed redirection leaves: every reference it took is returned.
\* A mutant keeps the reference on the console.
RedirectForgets(rc, out, cur) == ReleaseRef(rc, out)
RedirectUndone(rc, out, cur) == ReleaseRef(ReleaseRef(rc, out), cur)

\* process_redirect_output(): references on the file and on the console, a
\* second handle for the console, then the file takes slot 1.
process_redirect_output(h) ==
    \E f \in process_handle_lookup(h, TRUE) :
      LET out == slots[f].object
          rc == object_reference(object_reference(ref_count, out), Console) IN
      /\ out \in FileObject
      /\ Names([slot |-> 1, generation |-> 1], 1) /\ slots[1].object = Console
      /\ slots[1].writable
      /\ IF FreeSlots = {}
         THEN /\ ref_count' = RedirectUndone(rc, out, Console)
              /\ UNCHANGED <<slots, output, issued>>
         ELSE /\ slots[FirstFree].serial < MaxInstalls
              /\ IF output.redirected
                 THEN /\ slots' = [slots EXCEPT ![FirstFree] = Emptied(Install(FirstFree, Console, TRUE))]
                      /\ ref_count' = RedirectUndone(rc, out, Console)
                      /\ UNCHANGED output
                 ELSE /\ slots' = [slots EXCEPT ![FirstFree] = Install(FirstFree, Console, TRUE),
                                                ![1].object = out, ![1].writable = TRUE]
                      /\ ref_count' = ReleaseRef(ReleaseRef(object_reference(rc, Console), Console),
                                                 Console)
                      /\ output' = [redirected |-> TRUE,
                                    saved |-> [slot |-> FirstFree,
                                               generation |-> Issue(FirstFree).generation]]
              /\ issued' = issued \cup {Issue(FirstFree)}

\* process_restore_output(): only with the handle the redirection returned.
process_restore_output(h) ==
    \E s \in process_handle_lookup(h, TRUE) :
      /\ slots[s].object = Console
      /\ output.redirected /\ output.saved = [slot |-> h.slot, generation |-> h.generation]
      /\ slots[1].active /\ slots[1].generation = 1
      /\ slots' = [slots EXCEPT ![s] = Emptied(@), ![1].object = Console, ![1].writable = TRUE]
      /\ ref_count' = ReleaseRef(ReleaseRef(object_reference(ref_count, Console),
                                            slots[1].object), Console)
      /\ output' = [redirected |-> FALSE, saved |-> NoHandle]
      /\ UNCHANGED issued

\* process_handle_close_all(), at exit.
process_handle_close_all ==
    /\ \E i \in HandleSlot : slots[i].active
    /\ slots' = [i \in HandleSlot |-> IF slots[i].active THEN Emptied(slots[i]) ELSE slots[i]]
    /\ ref_count' = [o \in Object |->
                       ref_count[o] - Cardinality({i \in HandleSlot : slots[i].active
                                                                      /\ slots[i].object = o})]
    /\ UNCHANGED <<output, issued>>

HandleNext ==
    \/ \E o \in FileObject, w \in BOOLEAN : handle_open(o, w)
    \/ \E h \in issued : \/ process_handle_close(h)
                         \/ process_redirect_output(h)
                         \/ process_restore_output(h)
    \/ process_handle_close_all
-----------------------------------------------------------------------------
\* Types.
HandleTypeOK ==
    /\ \A i \in HandleSlot : /\ slots[i].object \in Object \cup {NoObject}
                             /\ slots[i].generation \in 0..(GenerationMod - 1)
    /\ ref_count \in [Object -> Nat]

\* An object's count is the number of slots that refer to it, through every
\* success and failure path of open, close, redirect and restore: an object is
\* never destroyed under a handle and never outlives its last one.
RefsMatchSlots ==
    \A o \in Object :
      ref_count[o] = Cardinality({i \in HandleSlot : slots[i].active /\ slots[i].object = o})

\* A handle that was closed names nothing until its slot was used again
\* GenerationMod - 1 times, and a generation of 0, which no lookup accepts, is
\* never issued (encode_handle and decode_handle).
ClosedHandleDead ==
    \A h \in issued :
      /\ h.generation # 0
      /\ Names(h, h.slot) => \/ slots[h.slot].serial = h.serial
                             \/ slots[h.slot].serial >= h.serial + (GenerationMod - 1)
=============================================================================
