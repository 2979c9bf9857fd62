-------------------------------- MODULE Uart --------------------------------
(***************************************************************************)
(* rtl/three_sipp_es_uart.sv: the transmit half of a UART and the receive  *)
(* half it is wired to, its own or another's.  One step is one clock edge  *)
(* of the receiver.  Bytes and shift registers are sequences of bits in    *)
(* the order they are sent.                                                *)
(***************************************************************************)
EXTENDS Integers, Sequences

CONSTANTS
    Bits,           \* data bits of a frame
    CountMod,       \* the counters of clocks count modulo this
    BAUD_DIV_RST,   \* clocks per bit after a reset
    Divisors        \* those software sets

\* The rates at which the receiver can count one and a half bits: up to two
\* thirds of its counter's range (and not 0, which stands for the whole range).
Rates == {d \in 1 .. CountMod - 1 : d + d \div 2 <= CountMod}

Byte == [1 .. Bits -> {0, 1}]

\* By how many clocks of the receiver a bit of the sender is longer: none when
\* they share a clock, and over a frame less than half a bit when they do not.
Skews(d) == {s \in {-1, 0, 1} : (2 * Bits + 2) * s * s < d}

VARIABLES
    baud_div,       \* the same at both ends
    skew,           \* of the sender's clock, for the frame it sends
    tx,             \* tx_shift, tx_bit_count, tx_baud_cnt, tx_busy_q
    serial_tx,
    rx_sync,        \* the last two samples of the line, the older one last
    rx,             \* rx_shift, rx_bit_count, rx_baud_cnt, rx_busy_q, rx_data_q
    rx_ready_q, rx_overrun_q, rx_irq,
    line,           \* history: the bytes loaded and not yet received
    unread,         \* history: software has not read the byte in rx_data_q
    lost            \* history: a byte was overwritten unread and not yet reported

flags == <<rx_ready_q, rx_overrun_q>>
vars == <<baud_div, skew, tx, serial_tx, rx_sync, rx, flags, rx_irq, line, unread, lost>>

Zeros == [n \in 1 .. Bits |-> 0]
Init ==
    /\ baud_div = BAUD_DIV_RST /\ skew = 0
    /\ tx = [shift |-> [n \in 1 .. Bits + 2 |-> 1], bits |-> 0, cnt |-> 0, busy |-> FALSE]
    /\ serial_tx = 1 /\ rx_sync = <<1, 1>>
    /\ rx = [shift |-> Zeros, bits |-> 0, cnt |-> 0, busy |-> FALSE, data |-> Zeros]
    /\ rx_ready_q = FALSE /\ rx_overrun_q = FALSE /\ rx_irq = FALSE
    /\ line = <<>> /\ unread = FALSE /\ lost = FALSE

\* The counter's value for a wait of n clocks.
Wait(n) == (n - 1) % CountMod
ShiftIn(s, bit) == Append(Tail(s), bit)

----------------------------------------------------------------------------
\* A write to the data register of a busy transmitter has no effect.
tx_load(send) == send # <<>> /\ ~tx.busy

\* Start bit, data, stop bit; the transmitter is free again when it puts the
\* stop bit on the line.
TxEdge(send) ==
    IF tx_load(send)
    THEN /\ skew' \in Skews(baud_div)
         /\ tx' = [shift |-> <<0>> \o send \o <<1>>, bits |-> Bits + 2, cnt |-> Wait(baud_div), busy |-> TRUE]
         /\ UNCHANGED serial_tx
    ELSE IF tx.busy /\ tx.cnt = 0
    THEN /\ serial_tx' = Head(tx.shift)
         /\ tx' = [shift |-> ShiftIn(tx.shift, 1), bits |-> tx.bits - 1, cnt |-> Wait(baud_div + skew),
                   busy |-> tx.bits # 1]
         /\ UNCHANGED skew
    ELSE /\ tx' = IF tx.busy THEN [tx EXCEPT !.cnt = @ - 1] ELSE tx
         /\ UNCHANGED <<serial_tx, skew>>

SyncEdge == rx_sync' = <<serial_tx, rx_sync[1]>>

\* From the edge of the start bit to the middle of the first data bit.
FirstSample_Fault == Wait(baud_div)
FirstSample == Wait(baud_div \div 2 + baud_div)

Samples   == rx.busy /\ rx.cnt = 0 /\ rx.bits # 0
Completes == rx.busy /\ rx.cnt = 0 /\ rx.bits = 0       \* in the stop bit, which it does not test
RxEdge ==
    /\ rx' = IF ~rx.busy
             THEN IF rx_sync[2] = 0 THEN [rx EXCEPT !.busy = TRUE, !.bits = Bits, !.cnt = FirstSample] ELSE rx
             ELSE IF Samples
             THEN [rx EXCEPT !.shift = ShiftIn(@, rx_sync[2]), !.bits = @ - 1, !.cnt = Wait(baud_div)]
             ELSE IF Completes THEN [rx EXCEPT !.busy = FALSE, !.data = rx.shift]
             ELSE [rx EXCEPT !.cnt = @ - 1]
    /\ rx_irq' = Completes

\* Fault: a read in the cycle in which a byte completes clears the flag that
\* cycle sets.
Flags_Fault(read) ==
    /\ rx_ready_q' = (read # "data" /\ (rx_ready_q \/ Completes))
    /\ rx_overrun_q' = (read # "status" /\ (rx_overrun_q \/ (Completes /\ rx_ready_q)))
\* A read clears its flag, unless the same edge sets it.
Flags(read) ==
    /\ rx_ready_q' = ((rx_ready_q /\ read # "data") \/ Completes)
    /\ rx_overrun_q' = ((rx_overrun_q /\ read # "status") \/ (Completes /\ rx_ready_q))

History(send, read) ==
    /\ line' = (IF Completes /\ line # <<>> THEN Tail(line) ELSE line)
               \o (IF send # <<>> /\ ~tx.busy THEN <<send>> ELSE <<>>)
    /\ unread' = ((unread /\ read # "data") \/ Completes)
    /\ lost' = ((lost /\ ~(read = "status" /\ rx_overrun_q)) \/ (Completes /\ unread /\ read # "data"))

\* A clock edge while the sender's software writes a byte or nothing, and the
\* receiver's reads a register or none.
Clock ==
    \E send \in {<<>>} \cup IF baud_div \in Rates THEN Byte ELSE {}, read \in {"none", "status", "data"} :
        /\ TxEdge(send) /\ SyncEdge /\ RxEdge /\ Flags(read) /\ History(send, read)
        /\ UNCHANGED baud_div

\* A write to the rate, by software that has nothing on its way (uart_init).
SetBaud ==
    /\ ~tx.busy /\ ~rx.busy /\ line = <<>>
    /\ baud_div' \in Divisors
    /\ TxEdge(<<>>) /\ SyncEdge /\ RxEdge /\ Flags("none") /\ History(<<>>, "none")

Reset ==
    /\ baud_div' = BAUD_DIV_RST /\ skew' = 0
    /\ tx' = [shift |-> [n \in 1 .. Bits + 2 |-> 1], bits |-> 0, cnt |-> 0, busy |-> FALSE]
    /\ serial_tx' = 1 /\ rx_sync' = <<1, 1>>
    /\ rx' = [shift |-> Zeros, bits |-> 0, cnt |-> 0, busy |-> FALSE, data |-> Zeros]
    /\ rx_ready_q' = FALSE /\ rx_overrun_q' = FALSE /\ rx_irq' = FALSE
    /\ line' = <<>> /\ unread' = FALSE /\ lost' = FALSE

Next == Clock \/ SetBaud \/ Reset
Spec == Init /\ [][Next]_vars

----------------------------------------------------------------------------
\* Whatever the phase between the line and the receiver, and however soon after
\* the last one the next frame follows: the receiver completes the bytes that
\* were loaded, once each, in their order.
Delivered == [][Completes /\ Clock => line # <<>> /\ rx'.data = Head(line)]_vars

\* Software that reads the flags misses nothing: a byte that waits shows as
\* ready, and one that was overwritten unread shows as overrun until the status
\* has been read, also when the read and the byte's arrival share a clock edge.
NothingMissed == rx_ready_q = unread /\ (lost => rx_overrun_q)
=============================================================================
