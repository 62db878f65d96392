----------------------------- MODULE BlockStore -----------------------------
(***************************************************************************)
(* What the block layer promises to a file system: a request on a disk     *)
(* range is carried out once, between its call and its return, on the      *)
(* medium that is then attached; a read returns what that medium holds;    *)
(* a request may fail, and a failed write may have been carried out.       *)
(* There is no gate, cache, registry or partition here.                    *)
(***************************************************************************)
EXTENDS Naturals

CONSTANTS StoreClient, StoreLba, StoreVersions

VARIABLES
    contents,   \* what the medium in the device holds: a version per sector
    call,       \* the request a client waits for: [op, range], or Quiet
    reply       \* the last result, until the next request is made

storeVars == <<contents, call, reply>>

Quiet == [op |-> "none", range |-> {}]
NoReply == [ok |-> FALSE, data |-> {<<>>}]
Failure == [ok |-> FALSE, data |-> {}]
Contents(range) == {<<l, contents[l]>> : l \in range}

StoreInit ==
    /\ contents = [l \in StoreLba |-> 0]
    /\ call = [c \in StoreClient |-> Quiet]
    /\ reply = NoReply

Request(c) ==
    /\ call[c] = Quiet
    /\ \E op \in {"read", "write", "flush"}, range \in SUBSET StoreLba :
          call' = [call EXCEPT ![c] = [op |-> op, range |-> range]]
    /\ reply' = NoReply
    /\ UNCHANGED contents

Answer(c, r) == /\ call' = [call EXCEPT ![c] = Quiet]
                /\ reply' = r

ReadDone(c) ==
    /\ call[c].op = "read"
    /\ Answer(c, [ok |-> TRUE, data |-> Contents(call[c].range)])
    /\ UNCHANGED contents

Written(c) == \E v \in StoreVersions :
    contents' = [l \in StoreLba |-> IF l \in call[c].range THEN v ELSE contents[l]]

WriteDone(c) ==
    /\ call[c].op = "write"
    /\ Written(c)
    /\ \E ok \in BOOLEAN : Answer(c, [ok |-> ok, data |-> {}])

FlushDone(c) ==
    /\ call[c].op = "flush"
    /\ Answer(c, [ok |-> TRUE, data |-> {}])
    /\ UNCHANGED contents

Refuse(c) ==
    /\ call[c] # Quiet
    /\ Answer(c, Failure)
    /\ UNCHANGED contents

\* The client's thread is terminated in the middle of its request.
Abandon(c) ==
    /\ call[c] # Quiet
    /\ call' = [call EXCEPT ![c] = Quiet]
    /\ UNCHANGED <<contents, reply>>

\* Another medium is put into the device.
Replace == /\ contents' \in [StoreLba -> StoreVersions]
           /\ UNCHANGED <<call, reply>>

StoreNext == \/ Replace
             \/ \E c \in StoreClient : \/ Request(c) \/ ReadDone(c) \/ WriteDone(c)
                                       \/ FlushDone(c) \/ Refuse(c) \/ Abandon(c)

StoreSpec == StoreInit /\ [][StoreNext]_storeVars
=============================================================================
