--------------------------- MODULE UsbInterfaces ----------------------------
(***************************************************************************)
(* The report stream of a USB keyboard (kernel/src/usb/xhci_hid.c): one    *)
(* interrupt-IN request with one DMA buffer is outstanding at a time; its  *)
(* completion is reclaimed, copied, the request re-armed and the copy then *)
(* handed to the keyboard layer, which remembers the keys that are held.   *)
(* The device and the controller are external: they fill the buffer of the *)
(* outstanding request, in full, short or with an error, at any time.      *)
(***************************************************************************)
EXTENDS Integers, Sequences

CONSTANTS HidKey,          \* keys of the keyboard
          MaxReports,      \* bound on completed requests
          MaxHidFaults     \* bound on transfer errors and failed re-arms

VARIABLES hd, hb, hh, hk, hgh

(***************************************************************************)
(* hd:  the device: attached generation (0 = none), keys physically down.  *)
(* hb:  the ring and its buffer: out (a request is outstanding), halted,   *)
(*      buf (keys in the DMA buffer), events (completions to handle).      *)
(* hh:  the driver's device: gen, ready (setup finished, class ready),     *)
(*      armed, and the report copied but not yet dispatched.               *)
(* hk:  the keyboard layer's source: active, gen, keys.                    *)
(* hgh: reports, faults and attachments so far; the keys the device sent   *)
(*      in its last report, and in the last one the driver handled.        *)
(***************************************************************************)
hidVars == <<hd, hb, hh, hk, hgh>>

NoReport == [gen |-> 0, keys |-> {}, ok |-> FALSE, rearmed |-> FALSE]
NoSource == [active |-> FALSE, gen |-> 0, keys |-> {}]
Quiet == [out |-> FALSE, halted |-> FALSE, buf |-> {}, events |-> << >>]

HidInit ==
    /\ hd = [gen |-> 0, down |-> {}]
    /\ hb = Quiet
    /\ hh = [gen |-> 0, ready |-> FALSE, armed |-> FALSE, report |-> NoReport]
    /\ hk = NoSource
    /\ hgh = [reports |-> 0, faults |-> 0, sent |-> {}, taken |-> {}, gens |-> 0]

(* xhci_hid_queue_read: the buffer is cleared and handed back. *)
Rearmed(b) == [b EXCEPT !.out = TRUE, !.buf = {}]

(* The class attach of a keyboard arms its stream; setup then finishes. *)
AttachKeyboard ==
    /\ hd.gen = 0 /\ hh.gen = 0 /\ hgh.gens < 2
    /\ hd' = [hd EXCEPT !.gen = hgh.gens + 1]
    /\ hb' = Rearmed(Quiet)
    /\ hh' = [hh EXCEPT !.gen = hgh.gens + 1, !.ready = TRUE, !.armed = TRUE]
    /\ hgh' = [hgh EXCEPT !.gens = @ + 1]
    /\ UNCHANGED hk

(* Keys move on the device. *)
MoveKey(k) ==
    /\ hd.gen # 0
    /\ hd' = [hd EXCEPT !.down = IF k \in @ THEN @ \ {k} ELSE @ \cup {k}]
    /\ UNCHANGED <<hb, hh, hk, hgh>>

(* A request completes.  A short packet carries only part of the keys and  *)
(* leaves the rest of the buffer as it was.                                *)
CompleteRead(code, part) ==
    /\ hd.gen # 0 /\ hb.out /\ ~hb.halted
    /\ hgh.reports < MaxReports
    /\ part \subseteq hd.down
    /\ code = "ok" => part = hd.down
    /\ code = "error" => hgh.faults < MaxHidFaults /\ part = {}
    /\ hb' = [hb EXCEPT !.out = FALSE, !.halted = code = "error",
                        !.buf = IF code = "error" THEN @ ELSE part,
                        !.events = Append(@, [code |-> code])]
    /\ hgh' = [hgh EXCEPT !.reports = @ + 1, !.faults = IF code = "error" THEN @ + 1 ELSE @,
                          !.sent = part]
    /\ UNCHANGED <<hd, hh, hk>>

(* xhci_is_hid_endpoint. *)
IsHidEndpoint == hh.gen # 0 /\ hh.ready /\ hh.armed

(* xhci_handle_transfer_event up to the re-arm: reclaim, match the record, *)
(* copy the report out of the buffer, queue the next read.                 *)
HandleTransfer(requeue) ==
    /\ hb.events # << >> /\ hh.report.gen = 0
    /\ ~requeue => hgh.faults < MaxHidFaults
    /\ LET e == Head(hb.events)
           b == [hb EXCEPT !.events = Tail(@)]
       IN IF ~IsHidEndpoint
          THEN /\ requeue
               /\ hb' = b
               /\ UNCHANGED <<hh, hgh>>
          ELSE /\ hb' = IF requeue THEN Rearmed(b) ELSE b
               /\ hh' = [hh EXCEPT !.armed = requeue,
                             !.report = [gen |-> hh.gen, ok |-> e.code # "error",
                                         keys |-> IF e.code # "error" THEN hb.buf ELSE {},
                                         rearmed |-> requeue]]
               /\ hgh' = [hgh EXCEPT !.faults = IF requeue THEN @ ELSE @ + 1, !.taken = hgh.sent]
    /\ UNCHANGED <<hd, hk>>

(* A mutant: the keys are read from the buffer when they are dispatched. *)
DispatchedLate(r) == hb.buf

(* The keys handed to the callback: the copy made before the re-arm. *)
Dispatched(r) == r.keys

(* A mutant: a stream that cannot be re-armed keeps its keys. *)
StreamUsableAnyway(r) == r.ok

(* A stream that can still bring a release report. *)
StreamUsable(r) == r.ok /\ r.rearmed

(* The rest of the handler: usb_keyboard_handler takes the report, and     *)
(* usb_keyboard_remove forgets a source whose stream is of no more use.    *)
DispatchReport ==
    /\ hh.report.gen # 0
    /\ LET r == hh.report
           took == IF r.ok THEN [active |-> TRUE, gen |-> r.gen, keys |-> Dispatched(r)] ELSE hk
       IN hk' = IF ~StreamUsable(r) /\ took.gen = r.gen THEN NoSource ELSE took
    /\ hh' = [hh EXCEPT !.report = NoReport]
    /\ UNCHANGED <<hd, hb, hgh>>

(* The keyboard is unplugged; the worker later removes it, and with it the *)
(* remembered keys (xhci_hid_remove_device).                               *)
UnplugKeyboard ==
    /\ hd.gen # 0
    /\ hd' = [gen |-> 0, down |-> {}]
    /\ UNCHANGED <<hb, hh, hk, hgh>>
RemoveKeyboard ==
    /\ hh.gen # 0 /\ hd.gen = 0 /\ hh.report.gen = 0
    /\ hk' = IF hk.gen = hh.gen THEN NoSource ELSE hk
    /\ hh' = [gen |-> 0, ready |-> FALSE, armed |-> FALSE, report |-> NoReport]
    /\ hb' = Quiet
    /\ hgh' = [hgh EXCEPT !.taken = {}, !.sent = {}]
    /\ UNCHANGED hd

HidNext ==
    \/ AttachKeyboard
    \/ \E k \in HidKey : MoveKey(k)
    \/ \E code \in {"ok", "short", "error"}, part \in SUBSET HidKey : CompleteRead(code, part)
    \/ \E requeue \in BOOLEAN : HandleTransfer(requeue)
    \/ DispatchReport \/ UnplugKeyboard \/ RemoveKeyboard

HidSpec == HidInit /\ [][HidNext]_hidVars

(***************************************************************************)
(* Properties                                                              *)
(***************************************************************************)
(* A key is remembered as held only while a report that can release it can *)
(* still arrive: a request is outstanding on a live endpoint, a completion *)
(* waits to be handled, or the device's removal is still to come           *)
(* (xhci_hid.c 324-329).                                                   *)
KeysReleasable ==
    hk.keys # {} => \/ hb.out /\ ~hb.halted
                    \/ hb.events # << >> \/ hh.report.gen # 0
                    \/ hd.gen = 0 /\ hh.gen = hk.gen

(* The keys the keyboard layer holds are the ones the device sent in the   *)
(* last report handled: neither what a short packet left of an earlier     *)
(* report nor what the re-armed buffer holds by the time of the callback   *)
(* (xhci_hid.c 139-147, 261-267 and 309-314).                              *)
ReportIsSent == hk.active /\ hh.report.gen = 0 => hk.keys = hgh.taken

-----------------------------------------------------------------------------
(***************************************************************************)
(* The descriptor parsers of the xHCI driver                               *)
(* (kernel/src/usb/xhci_descriptor.c): the walks over a configuration      *)
(* descriptor that find a boot keyboard's, a mass-storage interface's or a *)
(* hub's endpoints, and the walk over a HID report descriptor that locates *)
(* the keyboard LEDs in an output report.  What the walks return is        *)
(* compared with what the descriptors say.                                 *)
(***************************************************************************)
CONSTANTS MaxDescriptors, \* descriptors of a configuration
          MaxFields       \* main items of a report descriptor

VARIABLES dx, lx

(***************************************************************************)
(* dx: a walk over a configuration: who walks, the descriptors, how many   *)
(*     of their bytes the total length covers (whole descriptors, or the   *)
(*     last one cut off), at, inside (in the wanted interface), found.     *)
(* lx: a walk over a report descriptor: the fields, at, the globals and    *)
(*     the bit offset, and the LED report found.                           *)
(***************************************************************************)
descriptorVars == <<dx, lx>>

(* A descriptor: its type, whether its length is "bad" (below two bytes),  *)
(* "short" (below what its type needs) or "full", and its meaning.         *)
Desc(t, len, is) == [t |-> t, len |-> len, is |-> is]
Interfaces == { Desc("interface", "full", c) : c \in {"keyboard", "storage", "hub", "other"} }
Endpoints == { Desc("endpoint", "full", e) : e \in {"intrIn", "bulkIn", "bulkOut"} }
Descriptors == Interfaces \cup Endpoints
               \cup { Desc("endpoint", "short", "intrIn"), Desc("companion", "full", "ss"),
                      Desc("other", "bad", "none") }

Walkers == {"keyboard", "storage", "hub"}

(* One main item of a report descriptor with the items before it. *)
Fields == [id : {0}, led : {TRUE}, size : {1}, count : {3, 5}, usages : {<<1, 2, 3>>, <<5, 1, 2, 3>>, <<1, 2>>},
           range : {<< >>}, out : {TRUE}]
          \cup [id : {0, 1}, led : {TRUE}, size : {1}, count : {5}, usages : {<< >>},
                range : {<<1, 5>>, <<0, 4>>, <<2, 6>>}, out : {TRUE}]
          \cup [id : {0, 2}, led : {FALSE}, size : {1, 8}, count : {3, 7}, usages : {<< >>},
                range : {<< >>}, out : BOOLEAN]

SeqsUpTo(S, n) == UNION { [1..k -> S] : k \in 0..n }

NoLed == [supported |-> FALSE, id |-> 0, length |-> 0, first |-> 0]
IdleWalk == [walker |-> "none", blob |-> << >>, whole |-> TRUE, at |-> 1, inside |-> FALSE,
             found |-> [intrIn |-> 0, bulkIn |-> 0, bulkOut |-> 0, ss |-> 0], done |-> TRUE]
IdleLed == [fields |-> << >>, at |-> 1, id |-> 0, offset |-> 0, led |-> NoLed]

(* A report identifier is not returned to once left. *)
IdsGrouped(f) == \A i, j \in DOMAIN f : (i < j /\ f[i].id # 0 /\ f[j].id # 0) => f[i].id # f[j].id

DescriptorInit ==
    \/ /\ lx = IdleLed
       /\ \E w \in Walkers, b \in SeqsUpTo(Descriptors, MaxDescriptors), whole \in BOOLEAN :
             dx = [IdleWalk EXCEPT !.walker = w, !.blob = b, !.whole = whole, !.done = FALSE]
    \/ /\ dx = IdleWalk
       /\ \E f \in { g \in SeqsUpTo(Fields, MaxFields) : IdsGrouped(g) } : lx = [IdleLed EXCEPT !.fields = f]

(* The bounds test of every walk: two bytes left, a length of at least two *)
(* that ends within the total length.                                      *)
Readable(w) ==
    /\ w.at <= Len(w.blob)
    /\ w.blob[w.at].len # "bad"
    /\ w.at = Len(w.blob) => w.whole

Wanted(walker) == [keyboard |-> "keyboard", storage |-> "storage", hub |-> "hub"][walker]

(* A mutant: a walk stays in its interface when another one begins. *)
InsideSticky(w, d) ==
    IF d.t = "interface" /\ d.len = "full" THEN w.inside \/ d.is = Wanted(w.walker) ELSE w.inside

(* Whether the walk is inside the wanted interface after descriptor d. *)
Inside(w, d) ==
    IF d.t = "interface" /\ d.len = "full" THEN d.is = Wanted(w.walker) ELSE w.inside

(* The endpoints each walk keeps: the keyboard's first, the last of the    *)
(* others; a hub's companion only after its endpoint.                      *)
Keeps(w, d) ==
    /\ w.inside /\ d.len = "full"
    /\ \/ d.t = "endpoint" /\ d.is = "intrIn" /\ w.walker \in {"keyboard", "hub"}
       \/ d.t = "endpoint" /\ d.is \in {"bulkIn", "bulkOut"} /\ w.walker = "storage"
       \/ d.t = "companion" /\ w.walker = "hub" /\ w.found.intrIn # 0

(* One descriptor of xhci_get_keyboard_endpoint_info,                      *)
(* xhci_get_mass_storage_endpoint_info or xhci_get_hub_endpoint_info.      *)
WalkStep ==
    /\ ~dx.done
    /\ dx' = IF ~Readable(dx) THEN [dx EXCEPT !.done = TRUE]
             ELSE LET d == dx.blob[dx.at]
                      keeps == Keeps(dx, d)
                  IN [dx EXCEPT !.at = @ + 1, !.inside = Inside(dx, d),
                                !.found = IF keeps THEN [@ EXCEPT ![d.is] = dx.at] ELSE @,
                                !.done = keeps /\ dx.walker = "keyboard"]
    /\ UNCHANGED lx

(* The LED field test of xhci_get_hid_led_report_info. *)
FirstOf(u) == { i \in 1..(Len(u) - 2) : u[i] = 1 /\ u[i + 1] = 2 /\ u[i + 2] = 3 }
RangeFits(f) == f.range # << >> /\ f.range[1] <= 1 /\ f.range[2] >= 3
LedField(f) ==
    /\ f.led /\ f.size = 1 /\ f.count >= 3
    /\ RangeFits(f) \/ (Len(f.usages) >= 3 /\ FirstOf(f.usages) # {})

(* A mutant: the LEDs are taken to start where their field does. *)
SkipNone(f) == 0

(* Bits of the field before the Num Lock bit. *)
Skip(f) == IF RangeFits(f) THEN 1 - f.range[1]
           ELSE (CHOOSE i \in FirstOf(f.usages) : \A j \in FirstOf(f.usages) : i <= j) - 1

Bytes(bits) == (bits + 7) \div 8

(* One main item with the items before it. *)
LedStep ==
    /\ lx.at <= Len(lx.fields)
    /\ LET f == lx.fields[lx.at]
           id == IF f.id = 0 THEN lx.id ELSE f.id
           start == IF f.id = 0 THEN lx.offset ELSE 8
           end == start + f.size * f.count
           hit == f.out /\ LedField(f) /\ ~lx.led.supported /\ end <= 64
                  /\ start + Skip(f) + 2 < end
       IN lx' = [lx EXCEPT !.at = @ + 1, !.id = id, !.offset = IF f.out THEN end ELSE start,
                           !.led = IF hit THEN [supported |-> TRUE, id |-> id, length |-> Bytes(end),
                                                first |-> start + Skip(f)]
                                   ELSE @]
    /\ UNCHANGED dx

DescriptorNext == WalkStep \/ LedStep

DescriptorSpec == DescriptorInit /\ [][DescriptorNext]_descriptorVars

(***************************************************************************)
(* Properties                                                              *)
(***************************************************************************)
(* The interface descriptor i's endpoint belongs to, 0 before the first,   *)
(* and the descriptors a walk may read at all.                             *)
GovernedBy(b, i) ==
    LET before == { j \in 1..(i - 1) : b[j].t = "interface" /\ b[j].len = "full" }
    IN IF before = {} THEN "none" ELSE b[CHOOSE j \in before : \A k \in before : k <= j].is
Legible(w, i) == i \in DOMAIN w.blob
                 /\ (i = Len(w.blob) => w.whole)
                 /\ \A j \in 1..i : w.blob[j].len # "bad"
Candidates(w, kind) ==
    { i \in DOMAIN w.blob : /\ Legible(w, i) /\ w.blob[i].is = kind /\ w.blob[i].len = "full"
                            /\ GovernedBy(w.blob, i) = Wanted(w.walker) }

(* What a walk returns is an intact endpoint of an interface of the class  *)
(* it looks for, and it misses none: the keyboard's first one, the last of *)
(* each kind for storage and hubs.                                         *)
EndpointsRight ==
    (dx.done /\ dx.walker # "none") =>
        /\ dx.walker = "keyboard" =>
             dx.found.intrIn = LET c == Candidates(dx, "intrIn")
                               IN IF c = {} THEN 0 ELSE CHOOSE i \in c : \A j \in c : i <= j
        /\ \A kind \in {"bulkIn", "bulkOut", "intrIn"} :
             (kind = "intrIn" <=> dx.walker = "hub") /\ dx.walker # "keyboard" =>
                dx.found[kind] = LET c == Candidates(dx, kind)
                                 IN IF c = {} THEN 0 ELSE CHOOSE i \in c : \A j \in c : j <= i
        /\ dx.found.ss # 0 => \E i \in Candidates(dx, "intrIn") : i < dx.found.ss

(* What bit n of a field means: the n-th usage of its list or of its       *)
(* range.  The bit a field starts at: after the outputs of its report.     *)
UsageOf(f, n) ==
    IF f.range # << >> THEN f.range[1] + n
    ELSE IF f.usages # << >> /\ n + 1 <= Len(f.usages) THEN f.usages[n + 1] ELSE 0
IdAt(fs, i) ==
    LET set == { j \in 1..i : fs[j].id # 0 }
    IN IF set = {} THEN 0 ELSE fs[CHOOSE j \in set : \A k \in set : k <= j].id
StartAt(fs, i) ==
    LET same == { j \in 1..(i - 1) : fs[j].out /\ IdAt(fs, j) = IdAt(fs, i) }
        sum[S \in SUBSET same] ==
            IF S = {} THEN 0
            ELSE LET j == CHOOSE j \in S : TRUE IN fs[j].size * fs[j].count + sum[S \ {j}]
    IN (IF IdAt(fs, i) = 0 THEN 0 ELSE 8) + sum[same]

(* The three bits the driver will set in an LED report are the Num Lock,   *)
(* Caps Lock and Scroll Lock bits of the report it names, and they lie     *)
(* within the length it will send (an eight-byte buffer).                  *)
LedBitsRight ==
    lx.led.supported =>
        /\ lx.led.length <= 8 /\ lx.led.first + 2 < 8 * lx.led.length
        /\ \E i \in DOMAIN lx.fields :
             /\ lx.fields[i].out /\ lx.fields[i].led /\ IdAt(lx.fields, i) = lx.led.id
             /\ \A k \in 0..2 :
                  LET n == lx.led.first + k - StartAt(lx.fields, i)
                  IN n \in 0..(lx.fields[i].count - 1) /\ UsageOf(lx.fields[i], n) = k + 1
=============================================================================
