-------------------------------- MODULE Uart --------------------------------
(***************************************************************************)
(* The 16550 behind the kernel's serial port, as far as arch_serial_init   *)
(* and arch_serial_putc use it: its divisor latch, its line format and its *)
(* transmit buffer.  The kernel writes its ports; it sends by itself.      *)
(***************************************************************************)
EXTENDS Integers, Sequences

CONSTANT FifoSize   \* the bytes the transmit buffer holds

ASSUME FifoAssumption == FifoSize \in Nat \ {0}

UartState ==
    [fifo : Seq(Int), dlab : BOOLEAN, divisor : Int, format : Int, interrupts : BOOLEAN]

(* One write to a port.  While DLAB is set the first two ports are the     *)
(* divisor.  A byte that does not fit into the buffer is lost.             *)
Outb(u, port, value) ==
    CASE port = "DATA" -> IF u.dlab THEN [u EXCEPT !.divisor = value]
                          ELSE IF Len(u.fifo) = FifoSize THEN u
                          ELSE [u EXCEPT !.fifo = Append(@, value)]
      [] port = "INTERRUPT"    -> IF u.dlab THEN u ELSE [u EXCEPT !.interrupts = value # 0]
      [] port = "FIFO"         -> [u EXCEPT !.fifo = << >>]
      [] port = "LINE_CONTROL" -> [u EXCEPT !.dlab = value >= 128, !.format = value % 128]
      [] OTHER                 -> u

(* The byte that arrives at the other end of the line: one sent at another *)
(* speed or in another format than 38400 8N1 arrives as something else.    *)
Arriving(u) == IF u.divisor = 3 /\ u.format = 3 THEN Head(u.fifo) ELSE -1

Sent(u) == [u EXCEPT !.fifo = Tail(@)]
=============================================================================
