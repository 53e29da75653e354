------------------------------ MODULE Console ------------------------------
(***************************************************************************)
(* Console and keyboard: the console lock (lib/kernel/console.c), the      *)
(* serial port (devices/serial.c), the input buffer (devices/input.c), the *)
(* interrupt queues of both (devices/intq.c) and the keyboard's top and    *)
(* bottom halves (devices/kbd.c), from thread_start on.  An action is a    *)
(* stretch that runs with interrupts off or a step of a thread between two *)
(* of them; the UART holds one byte each way.  The histories put, out,     *)
(* typed and got are the bytes given to the port, sent, received and read. *)
(***************************************************************************)
EXTENDS Integers, Sequences, FiniteSets, TLC

CONSTANTS Writers,          \* threads that print a string
          Readers,          \* threads that read keys
          INTQ_BUFSIZE, RAW_BUFFER_SIZE,
          Keys,             \* the keys that are hit
          ConsoleBudgets    \* bounds: [len, typed, hits, messages], one is picked

ASSUME ConsoleAssumption == {INTQ_BUFSIZE, RAW_BUFFER_SIZE} \subseteq Nat \ {0, 1}

VARIABLE c

Nobody == "nobody"
Handler == "handler"    \* code in interrupt context
Modifiers == {"shift", "ctrl", "alt"}
ConsolePanic(x) == [x EXCEPT !.kernel = "panicked"]

(* ------------------------------------------------------- interrupt queues *)
intq_empty(q) == q = <<>>
intq_full(q) == Len(q) = INTQ_BUFSIZE - 1
\* signal wakes the waiter, if there is one.
signal(x, w) == IF x[w] = Nobody THEN x ELSE [x EXCEPT ![w] = Nobody, !.th[x[w]].pc = "woken"]
\* intq_putc and intq_getc once the queue is not full or not empty.
intq_putc(x, q, w, b) == signal([x EXCEPT ![q] = Append(@, b)], w)
intq_getc(x, q, w) == signal([x EXCEPT ![q] = Tail(@)], w)
\* wait with the queue's lock held; the condition is asserted, not tested.
wait(x, t, lock, w, still) ==
    IF still THEN [x EXCEPT ![lock] = t, ![w] = t, !.th[t].pc = "blocked"] ELSE ConsolePanic(x)
\* The loop's first two steps: the lock, for which t may sleep, and wait.
AcquireAndWait(x, t, lock, w, still) ==
    IF x[lock] = Nobody THEN wait(x, t, lock, w, still) ELSE [x EXCEPT !.th[t].pc = "locked"]

(* ------------------------------------------------------------ serial port *)
write_ier(x) ==
    [x EXCEPT !.ier = (IF intq_empty(x.txq) THEN {} ELSE {"xmit"}) \cup (IF intq_full(x.inq) THEN {} ELSE {"recv"})]
\* Polls until the UART is free, and sends: the UART is then busy.
putc_poll(x, b) == [x EXCEPT !.out = Append(@, b), !.busy = TRUE]
serial_notify(x) == IF x.mode = "QUEUE" THEN write_ier(x) ELSE x

\* What serial_putc does with a byte when it need not wait for room.
PutByte(x, b) ==
    LET y == [x EXCEPT !.put = Append(@, b)]
    IN IF x.mode = "POLL" THEN putc_poll(y, b) ELSE write_ier(intq_putc(y, "txq", "not_empty_tx", b))
\* serial_putc of a caller with interrupts on sleeps while the queue is full.
serial_putc(x, t) == IF x.mode = "QUEUE" /\ intq_full(x.txq)
                     THEN AcquireAndWait(x, t, "txlock", "not_full", TRUE)
                     ELSE [PutByte(x, t) EXCEPT !.th[t].left = @ - 1]
\* With interrupts off it polls the oldest byte out to make room.
serial_putc_off(x, b) ==
    PutByte(IF x.mode = "QUEUE" /\ intq_full(x.txq)
            THEN intq_getc(putc_poll(x, Head(x.txq)), "txq", "not_full") ELSE x, b)

serial_init_queue == \/ c.mode = "POLL" /\ c' = [c EXCEPT !.mode = "QUEUE", !.boot = "ier"]
                     \/ c.boot = "ier" /\ c' = [write_ier(c) EXCEPT !.boot = "done"]
serial_flush == /\ c.txq # <<>>
                /\ c' = signal([c EXCEPT !.out = @ \o c.txq, !.txq = <<>>, !.busy = TRUE], "not_full")

\* input_putc of the handler's first loop.
Receive(x) == IF intq_full(x.inq) \/ x.rbr = 0 THEN x
              ELSE serial_notify(intq_putc([x EXCEPT !.rbr = 0], "inq", "not_empty", x.rbr))
Transmit(x) == IF intq_empty(x.txq) \/ x.busy THEN x
               ELSE intq_getc(putc_poll(x, Head(x.txq)), "txq", "not_full")
serial_interrupt == /\ ("xmit" \in c.ier /\ ~c.busy) \/ ("recv" \in c.ier /\ c.rbr # 0)
                    /\ c' = write_ier(Transmit(Receive(c)))

(* ---------------------------------------------------------------- console *)
\* acquire_console when the lock is t's or free.
acquire_console(x, t) == IF x.con = t THEN [x EXCEPT !.depth = @ + 1] ELSE [x EXCEPT !.con = t]
release_console(x) == IF x.depth > 0 THEN [x EXCEPT !.depth = @ - 1] ELSE [x EXCEPT !.con = Nobody]
\* putchar_have_lock asserts that the lock is the caller's.
putchar_have_lock(x, t) == IF x.con = t THEN serial_putc(x, t) ELSE ConsolePanic(x)
\* Mutant of putbuf: the lock is taken for each character.
PutbufEach(t) ==
    /\ c.th[t].left > 0
    /\ \/ c.th[t].pc = "idle" /\ c.con = Nobody /\ c' = [acquire_console(c, t) EXCEPT !.th[t].pc = "put"]
       \/ /\ c.th[t].pc = "put"
          /\ LET x == putchar_have_lock(c, t)
             IN c' = IF x.th[t].pc = "put" THEN [release_console(x) EXCEPT !.th[t].pc = "idle"] ELSE x
\* putbuf, puts, putchar and vprintf: the lock, the characters, the lock.
putbuf(t) ==
    \/ c.th[t].pc = "idle" /\ c.th[t].left > 0 /\ c.con = Nobody
       /\ c' = [acquire_console(c, t) EXCEPT !.th[t].pc = "put"]
    \/ c.th[t].pc = "put" /\ c.th[t].left > 0 /\ c' = putchar_have_lock(c, t)
    \/ c.th[t].pc = "put" /\ c.th[t].left = 0 /\ c' = [release_console(c) EXCEPT !.th[t].pc = "idle"]
\* A printf inside it with interrupts off, as in the comment's backtrace.
Nested(t) == /\ c.th[t].pc = "put" /\ c.messages > 0 /\ c.con = t
             /\ c' = [release_console(serial_putc_off(acquire_console(c, t), t)) EXCEPT !.messages = @ - 1]
\* A message from an interrupt handler, which takes no lock.
Message == c.messages > 0 /\ c' = [serial_putc_off(c, Handler) EXCEPT !.messages = @ - 1]

(* ------------------------------------------------------------------ input *)
input_getc(t) ==
    \/ c.th[t].pc = "idle" /\ c' = [c EXCEPT !.th[t].pc = "read"]
    \/ c.th[t].pc = "read" /\ intq_empty(c.inq) /\ c' = AcquireAndWait(c, t, "inlock", "not_empty", TRUE)
    \/ c.th[t].pc = "read" /\ ~intq_empty(c.inq)
       /\ c' = [serial_notify(intq_getc(c, "inq", "not_full_in")) EXCEPT
                  !.got = Append(@, Head(c.inq)), !.th[t].pc = "idle"]
    \/ c.th[t].pc = "locked" /\ c.inlock = Nobody
       /\ c' = wait(c, t, "inlock", "not_empty", intq_empty(c.inq))
\* Back from thread_block the queue's lock is released and the loop goes on.
Woken(t) == /\ c.th[t].pc = "woken"
            /\ c' = IF t \in Writers THEN [c EXCEPT !.txlock = Nobody, !.th[t].pc = "put"]
                    ELSE [c EXCEPT !.inlock = Nobody, !.th[t].pc = "read"]

(* --------------------------------------------------------------- keyboard *)
\* The top half: a full buffer drops the scancode, the wake-up comes anyway.
keyboard_interrupt(k) ==
    /\ c.hits > 0
    /\ c' = [c EXCEPT !.hits = @ - 1, !.sema = @ + 1,
                      !.raw = IF Len(@) < RAW_BUFFER_SIZE - 1 THEN Append(@, k) ELSE @]
\* An ordinary key asks input_full, which asserts that interrupts are off;
\* the bottom half runs with interrupts on.
process_scancode(x, k) ==
    CASE k.key = "caps" -> [x EXCEPT !.caps = (@ # k.press)]
      [] k.key \in Modifiers -> [x EXCEPT !.down = IF k.press THEN @ \cup {k.key} ELSE @ \ {k.key}]
      [] OTHER -> IF k.press THEN ConsolePanic(x) ELSE x
\* Mutant of kbd_bottom_half: the semaphore is cleared after the last scancode.
BottomHalfClears ==
    \/ ~c.awake /\ c.sema > 0 /\ c' = [c EXCEPT !.sema = @ - 1, !.awake = TRUE]
    \/ c.awake /\ c.raw # <<>>
       /\ c' = [process_scancode([c EXCEPT !.raw = Tail(@)], Head(c.raw)) EXCEPT !.sema = 0, !.awake = FALSE]
kbd_bottom_half ==
    \/ ~c.awake /\ c.sema > 0 /\ c' = [c EXCEPT !.sema = @ - 1, !.awake = TRUE]
    \/ c.awake /\ c.raw = <<>> /\ c' = [c EXCEPT !.awake = FALSE]
    \/ c.awake /\ c.raw # <<>> /\ c' = process_scancode([c EXCEPT !.raw = Tail(@)], Head(c.raw))

(* ---------------------------------------------------------- specification *)
\* The UART has sent its byte, or has received one.
UartSent == c.busy /\ c' = [c EXCEPT !.busy = FALSE]
UartReceived == /\ c.rbr = 0 /\ Len(c.typed) < c.max.typed
                /\ LET b == Len(c.typed) + 1 IN c' = [c EXCEPT !.rbr = b, !.typed = Append(@, b)]

init_poll == [mode |-> "POLL", boot |-> "poll", txq |-> <<>>, busy |-> FALSE, ier |-> {}, out |-> <<>>,
              put |-> <<>>, txlock |-> Nobody, not_full |-> Nobody, not_empty_tx |-> Nobody]
input_init == [inq |-> <<>>, rbr |-> 0, typed |-> <<>>, got |-> <<>>,
               inlock |-> Nobody, not_empty |-> Nobody, not_full_in |-> Nobody]
kbd_init == [raw |-> <<>>, sema |-> 0, awake |-> FALSE, down |-> {}, caps |-> FALSE]
console_init == [con |-> Nobody, depth |-> 0]
ConsoleInit ==
    \E max \in ConsoleBudgets :
      c = [max |-> max, messages |-> max.messages, hits |-> max.hits, kernel |-> "up",
           th |-> [t \in Writers \cup Readers |-> [pc |-> "idle", left |-> max.len]]]
          @@ init_poll @@ input_init @@ kbd_init @@ console_init

Thread(t) == Woken(t) \/ (t \in Writers /\ putbuf(t)) \/ (t \in Readers /\ c.max.typed > 0 /\ input_getc(t))
ConsoleNext ==
    /\ c.kernel = "up"
    /\ \/ serial_init_queue \/ serial_interrupt \/ serial_flush \/ UartSent \/ UartReceived
       \/ Message \/ kbd_bottom_half
       \/ \E t \in Writers \cup Readers : Thread(t)
       \/ \E t \in Writers : Nested(t)
       \/ \E k \in [key : Keys, press : BOOLEAN] : keyboard_interrupt(k)
\* Interrupts that are due come, the UART sends, and threads are scheduled.
(* ------------------------------------------------------------- properties *)
\* The queues stay within their buffers, and the console lock's depth is back
\* at zero between two calls (console.c, intq.c, kbd.c).
ConsoleTypeOK ==
    /\ Len(c.txq) < INTQ_BUFSIZE /\ Len(c.inq) < INTQ_BUFSIZE /\ Len(c.raw) < RAW_BUFFER_SIZE
    /\ c.con \in Writers \cup {Nobody} /\ c.depth = 0
    /\ c.mode \in {"POLL", "QUEUE"} /\ c.ier \subseteq {"xmit", "recv"}

\* What serial_putc is given goes out once and in order, whether it is polled,
\* queued, sent by the interrupt handler or flushed (serial.c).
OutputInOrder == c.out \o c.txq = c.put

\* No character of another thread comes between two of a thread's string: only
\* an interrupt handler's do.  A nested printf keeps the lock (console.c).
OutputNotMixed ==
    \A i, j, k \in 1 .. Len(c.put) :
      i < j /\ j < k /\ c.put[i] = c.put[k] /\ c.put[i] \in Writers => c.put[j] \in {c.put[i], Handler}

\* The bytes that come in are read once and in order, and none is dropped for
\* want of room: the receive interrupt is off while input is full (serial.c).
InputInOrder == c.got \o c.inq \o (IF c.rbr = 0 THEN <<>> ELSE <<c.rbr>>) = c.typed

\* The bottom half sleeps only when every buffered scancode is processed or
\* another wake-up is due: no key waits for the next one (kbd.c).
NoKeyWaits == ~c.awake /\ c.raw # <<>> => c.sema > 0

\* Nothing is left to be written, sent, processed or read.
ConsoleQuiet == /\ c.txq = <<>> /\ c.inq = <<>> /\ c.rbr = 0 /\ c.raw = <<>>
                /\ \A t \in Writers : c.th[t].left = 0 /\ c.th[t].pc = "idle"

\* Every string is written and sent, and every byte received is read, unless the
\* kernel panics: no writer, reader or byte is left waiting (serial.c, intq.c).
ConsoleProgress == ~ConsoleQuiet ~> (ConsoleQuiet \/ c.kernel = "panicked")

\* Output is exact: characters go out once, in order and not mixed between
\* threads, over polling, queueing and interrupts, and the console lock's depth
\* comes back to zero (console.c, serial.c).
OutputExact == ConsoleTypeOK /\ OutputInOrder /\ OutputNotMixed

\* Input is exact: bytes are read once and in order, none is dropped and no key
\* waits for the next one (serial.c, intq.c, kbd.c).
InputExact == InputInOrder /\ NoKeyWaits
=============================================================================
