------------------------------ MODULE Console ------------------------------
(***************************************************************************)
(* Keyboard input (drivers/input/keyboard.c, usb/xhci_hid.c), the console  *)
(* queues (console.c) and the ownership of the alternate screen and of raw *)
(* input (terminal.c).                                                     *)
(*                                                                         *)
(* A process has one thread; the sections of console.c run with interrupts *)
(* masked, so on one CPU a wait registers and sleeps in one step.  A key   *)
(* report is the set of keys that are down; a character is one byte, an    *)
(* editing key the ActionBytes bytes of its packet; while raw input is on  *)
(* only characters reach the raw queue.  Time passes in the two timer      *)
(* actions.                                                                *)
(***************************************************************************)
EXTENDS Naturals, Sequences, FiniteSets

CONSTANTS
    ConsoleProc,   \* processes that use the console
    NoReader,
    CharKey,       \* keys with a character
    EditKey,       \* keys with an editing action
    LockKey,       \* CapsLock and the like
    ActionBytes,   \* bytes of an editing packet (4 in the code)
    LineQueue,     \* CONSOLE_QUEUE_SIZE
    RawQueue       \* CONSOLE_RAW_QUEUE_SIZE

ASSUME ConsoleAssumption ==
    /\ NoReader \notin ConsoleProc
    /\ {ActionBytes, LineQueue, RawQueue} \subseteq Nat \ {0}

VARIABLES
    line,      \* [count, waiter]: the byte queue
    raw,       \* [on, owner, count, waiter]: the key queue
    screen,    \* the process that owns the alternate screen
    reader,    \* what a process does on the console
    keyboard   \* [held, repeat, caps]: the USB keyboard

consoleVars == <<line, raw, screen, reader, keyboard>>

ConsoleKey == CharKey \cup EditKey \cup LockKey
NoKey == "none"

ConsoleInit ==
    /\ line = [count |-> 0, waiter |-> NoReader]
    /\ raw = [on |-> FALSE, owner |-> NoReader, count |-> 0, waiter |-> NoReader]
    /\ screen = NoReader
    /\ reader = [p \in ConsoleProc |-> "idle"]
    /\ keyboard = [held |-> {}, repeat |-> NoKey, caps |-> FALSE]

-----------------------------------------------------------------------------
\* console_input() and console_input_key(): the queue takes what fits, and the
\* waiter is woken and forgotten when something was queued.

Ended == {"ended", "cancelled", "gone"}
Woken(pc) == IF pc = "linewait" THEN "line" ELSE IF pc \in {"keywait", "keytimed"} THEN pc \o "-woken" ELSE pc
ConsoleWake(w) == IF w \in ConsoleProc THEN [reader EXCEPT ![w] = Woken(@)] ELSE reader

Fit(count, n, size) == IF count + n <= size THEN count + n ELSE size

\* A mutant: the byte is queued and nobody is woken.
QueuesOnly(n) ==
    /\ line' = [line EXCEPT !.count = Fit(@, n, LineQueue)]
    /\ UNCHANGED <<raw, reader>>
ToLine(n) ==
    IF line.count < LineQueue
    THEN /\ line' = [count |-> Fit(line.count, n, LineQueue), waiter |-> NoReader]
         /\ reader' = ConsoleWake(line.waiter)
         /\ UNCHANGED raw
    ELSE UNCHANGED <<line, raw, reader>>

\* A mutant: the space for a key is not looked at.
RawOverflows(n) ==
    /\ raw' = [raw EXCEPT !.count = @ + n, !.waiter = NoReader]
    /\ reader' = ConsoleWake(raw.waiter)
    /\ UNCHANGED line
ToRaw(n) ==
    IF raw.count < RawQueue
    THEN /\ raw' = [raw EXCEPT !.count = Fit(@, n, RawQueue), !.waiter = NoReader]
         /\ reader' = ConsoleWake(raw.waiter)
         /\ UNCHANGED line
    ELSE UNCHANGED <<line, raw, reader>>

console_input(n) == IF raw.on THEN ToRaw(n) ELSE ToLine(n)

\* emit_raw_key(), emit_editor_action() and the plain character.
Emits(k) == IF raw.on THEN k \in CharKey ELSE k \in CharKey \cup EditKey
Bytes(keys) == Cardinality(keys \cap CharKey) + ActionBytes * Cardinality(keys \cap EditKey)

key_can_repeat(k) == k \in CharKey \cup EditKey

-----------------------------------------------------------------------------
\* usb_keyboard_handler(): what may repeat after a report; the order of the keys
\* in a report is the keyboard's.

\* A mutant: releasing the repeating key does not stop it while others are down.
RepeatKept(new, down) ==
    IF new # {} THEN new ELSE IF down # {} THEN {keyboard.repeat} ELSE {NoKey}
Repeat(new, down) ==
    IF new # {} THEN new
    ELSE IF keyboard.repeat = NoKey \/ keyboard.repeat \in down THEN {keyboard.repeat}
    ELSE IF \E k \in down : key_can_repeat(k) THEN {k \in down : key_can_repeat(k)} ELSE {NoKey}

keyboard_toggle_lock(keys) == IF Cardinality(keys \cap LockKey) % 2 = 1 THEN ~keyboard.caps ELSE keyboard.caps

usb_keyboard_handler(down) ==
    LET pressed == down \ keyboard.held
        new == {k \in pressed : Emits(k)} IN
    /\ IF new # {} THEN console_input(Bytes(new)) ELSE UNCHANGED <<line, raw, reader>>
    /\ \E r \in Repeat(new, down) :
          keyboard' = [held |-> down, repeat |-> r, caps |-> keyboard_toggle_lock(pressed)]
    /\ UNCHANGED screen

\* keyboard_update(): the repeat interval of the timer elapses.
keyboard_update ==
    /\ keyboard.repeat # NoKey
    /\ console_input(Bytes({keyboard.repeat}))
    /\ UNCHANGED <<screen, keyboard>>

\* The keyboard is unplugged, or its transfer fails or cannot be queued again.
\* A mutant: the remembered keys go, the repeating key stays.
RemoveForgets == [keyboard EXCEPT !.held = {}]
Removed == [keyboard EXCEPT !.held = {}, !.repeat = NoKey]
usb_keyboard_remove == /\ keyboard.held # {}
                       /\ keyboard' = Removed
                       /\ UNCHANGED <<line, raw, screen, reader>>

-----------------------------------------------------------------------------
\* Line input.

\* A registered waiter other than p whose thread has not terminated.
OtherWaits(w, p) == IF w \in {NoReader, p} THEN FALSE ELSE reader[w] \notin Ended

Controls(p) == screen \in {NoReader, p}

\* console_read_bytes(): from the call, and again after each wakeup.
console_read_bytes(p, n) ==
    /\ \/ reader[p] = "idle" /\ Controls(p)
       \/ reader[p] = "line"
    /\ \/ /\ line.count > 0
          /\ line' = [count |-> IF n < line.count THEN line.count - n ELSE 0,
                      waiter |-> IF line.waiter = p THEN NoReader ELSE line.waiter]
          /\ reader' = [reader EXCEPT ![p] = "idle"]
       \/ /\ line.count = 0
          /\ ~OtherWaits(line.waiter, p)
          /\ line' = [line EXCEPT !.waiter = p]
          /\ reader' = [reader EXCEPT ![p] = "linewait"]
       \/ /\ line.count = 0
          /\ OtherWaits(line.waiter, p)
          /\ reader' = [reader EXCEPT ![p] = "idle"]
          /\ UNCHANGED line
    /\ UNCHANGED <<raw, screen, keyboard>>

-----------------------------------------------------------------------------
\* The alternate screen and raw input.

RawOff == [on |-> FALSE, owner |-> NoReader, count |-> 0, waiter |-> NoReader]

terminal_alternate_enter_process(p) ==
    /\ reader[p] = "idle" /\ screen = NoReader
    /\ screen' = p
    /\ raw' = RawOff
    /\ UNCHANGED <<line, reader, keyboard>>

terminal_alternate_leave_process(p) ==
    /\ reader[p] = "idle" /\ screen = p
    /\ screen' = NoReader
    /\ raw' = RawOff
    /\ UNCHANGED <<line, reader, keyboard>>

terminal_set_raw_input(p, on) ==
    /\ reader[p] = "idle" /\ screen = p
    /\ on => ~raw.on \/ raw.owner = p
    /\ raw' = IF on THEN [raw EXCEPT !.on = TRUE, !.owner = p, !.count = 0] ELSE RawOff
    /\ UNCHANGED <<line, screen, reader, keyboard>>

\* console_read_key() with no timeout, a timeout, or none to wait at all.
console_read_key(p, wait) ==
    /\ reader[p] = "idle" /\ screen = p
    /\ raw.on /\ raw.owner = p
    /\ \/ /\ raw.count > 0
          /\ raw' = [raw EXCEPT !.count = @ - 1]
          /\ UNCHANGED reader
       \/ /\ raw.count = 0 /\ wait \in {"keywait", "keytimed"}
          /\ ~OtherWaits(raw.waiter, p)
          /\ raw' = [raw EXCEPT !.waiter = p]
          /\ reader' = [reader EXCEPT ![p] = wait]
    /\ UNCHANGED <<line, screen, keyboard>>

\* After a wakeup by a key: the loop looks at the queue, not at the mode.
console_read_key_woken(p) ==
    /\ reader[p] \in {"keywait-woken", "keytimed-woken"}
    /\ \/ /\ raw.count > 0
          /\ raw' = [raw EXCEPT !.count = @ - 1, !.waiter = IF @ = p THEN NoReader ELSE @]
          /\ reader' = [reader EXCEPT ![p] = "idle"]
       \/ /\ raw.count = 0 /\ reader[p] = "keywait-woken"
          /\ raw' = [raw EXCEPT !.waiter = p]
          /\ reader' = [reader EXCEPT ![p] = "keywait"]
       \/ /\ raw.count = 0 /\ reader[p] = "keytimed-woken"
          /\ reader' = [reader EXCEPT ![p] = "idle"]
          /\ UNCHANGED raw
    /\ UNCHANGED <<line, screen, keyboard>>

\* The sleep of a timed read ends; a key may still come before the thread runs.
console_timeout(p) ==
    /\ reader[p] = "keytimed"
    /\ reader' = [reader EXCEPT ![p] = "keytimed-woken"]
    /\ UNCHANGED <<line, raw, screen, keyboard>>

-----------------------------------------------------------------------------
\* process_terminate_external(): the thread ends, then its waits are cancelled,
\* then process_exit() gives the screen back; other threads run in between.

console_terminate(p) ==
    /\ reader[p] \notin Ended
    /\ reader' = [reader EXCEPT ![p] = "ended"]
    /\ UNCHANGED <<line, raw, screen, keyboard>>

console_cancel_waiter(p) ==
    /\ reader[p] = "ended"
    /\ reader' = [reader EXCEPT ![p] = "cancelled"]
    /\ line' = [line EXCEPT !.waiter = IF @ = p THEN NoReader ELSE @]
    /\ raw' = [raw EXCEPT !.waiter = IF @ = p THEN NoReader ELSE @]
    /\ UNCHANGED <<screen, keyboard>>

\* A mutant: the raw mode outlives its process.
ScreenGivenBack(p) == /\ screen' = IF screen = p THEN NoReader ELSE screen
                      /\ UNCHANGED raw
LeavesScreen(p) == /\ screen' = IF screen = p THEN NoReader ELSE screen
                   /\ raw' = IF screen = p THEN RawOff ELSE raw
console_exit(p) ==
    /\ reader[p] = "cancelled"
    /\ reader' = [reader EXCEPT ![p] = "gone"]
    /\ LeavesScreen(p)
    /\ UNCHANGED <<line, keyboard>>

\* The next process of that kind is started.
console_started(p) == /\ reader[p] = "gone"
                      /\ reader' = [reader EXCEPT ![p] = "idle"]
                      /\ UNCHANGED <<line, raw, screen, keyboard>>

-----------------------------------------------------------------------------
ConsoleNext ==
    \/ \E down \in SUBSET ConsoleKey : usb_keyboard_handler(down)
    \/ keyboard_update \/ usb_keyboard_remove
    \/ \E p \in ConsoleProc :
         \/ \E n \in 1..LineQueue : console_read_bytes(p, n)
         \/ terminal_alternate_enter_process(p) \/ terminal_alternate_leave_process(p)
         \/ \E on \in BOOLEAN : terminal_set_raw_input(p, on)
         \/ \E wait \in {"poll", "keywait", "keytimed"} : console_read_key(p, wait)
         \/ console_read_key_woken(p) \/ console_timeout(p)
         \/ console_terminate(p) \/ console_cancel_waiter(p) \/ console_exit(p)
         \/ console_started(p)

-----------------------------------------------------------------------------
ConsoleTypeOK ==
    /\ line.count \in 0..LineQueue /\ line.waiter \in ConsoleProc \cup {NoReader}
    /\ raw.count \in 0..RawQueue /\ raw.waiter \in ConsoleProc \cup {NoReader}
    /\ screen \in ConsoleProc \cup {NoReader} /\ keyboard.held \subseteq ConsoleKey

\* A process never sleeps in a read while its queue has something for it, and
\* the next byte or key will find it: whatever the order of input, mode
\* changes, timeouts and terminations (console.c:80, 166 and 222).
NoSleepOverInput ==
    \A p \in ConsoleProc :
        /\ reader[p] = "linewait" => line.count = 0 /\ line.waiter = p
        /\ reader[p] \in {"keywait", "keytimed"} =>
              raw.on /\ raw.owner = p /\ raw.count = 0 /\ raw.waiter = p

\* Raw input is on only for the process that owns the alternate screen, so no
\* keystroke of the shell is swallowed by the mode of a program that has gone
\* (terminal.c:1295 on every path out of a process).
RawHasScreen == raw.on => screen = raw.owner /\ screen # NoReader

\* A key repeats only while the keyboard says that it is down (keyboard.c:218:
\* state "that would otherwise synthesize keys forever").
NoGhostRepeat == keyboard.repeat # NoKey => keyboard.repeat \in keyboard.held
=============================================================================
