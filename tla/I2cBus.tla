------------------------------- MODULE I2cBus -------------------------------
(***************************************************************************)
(* user/i2c-common.c: two open-drain lines driven bit by bit.  A session   *)
(* on the bus is a record:                                                 *)
(*                                                                         *)
(*   line     the lines, and what the devices on them have understood so   *)
(*            far (Moved)                                                  *)
(*   nacks    which of the bytes sent, counted from 1, are not             *)
(*            acknowledged; sent counts them                               *)
(*   data     the bytes the device will send; after them nobody pulls the  *)
(*            data line low                                                *)
(*   got      the result of the last call                                  *)
(*   d        what the driver has stored                                   *)
(*                                                                         *)
(* The code writes levels to clock and data (C0, C1, D0, D1); a device     *)
(* pulls data low and lets go (S0, S1).  Delays are left out.              *)
(***************************************************************************)
EXTENDS Integers, Sequences

-----------------------------------------------------------------------------
(* The lines, as the devices hear them *)

\* What an I2C device hears is a sequence of bytes and of these marks: a
\* transaction begins, it ends, and one of the two in the middle of a byte.
START  == -1
STOP   == -2
BROKEN == -3

\* next is the bit of a byte and its acknowledgement that comes next, from 1 to 9;
\* 0 after a start until the clock falls, FREE outside of a transaction.
FREE == -1

Device(next, byte, heard) == [next |-> next, byte |-> byte, heard |-> heard]

Quiet == [wires |-> [clock |-> 1, master |-> 1, slave |-> 1],
          i2c   |-> Device(FREE, 0, <<>>),
          sht   |-> [stage |-> 0, starts |-> 0]]

Level(w) == IF w.master = 1 /\ w.slave = 1 THEN 1 ELSE 0

\* A falling clock ends a bit, but for the one after the start.
FallingClock(dev, level) ==
  CASE dev.next = FREE    -> dev
    [] dev.next = 0       -> Device(1, 0, dev.heard)
    [] dev.next \in 1 .. 8 -> Device(dev.next + 1, 2 * dev.byte + level, dev.heard)
    [] dev.next = 9       -> Device(1, 0, Append(dev.heard, dev.byte))

Mark(dev, mark) == Append(dev.heard, IF dev.next \in 2 .. 9 THEN BROKEN ELSE mark)

Starts(dev) == Device(0, 0, Mark(dev, START))

Stops(dev) == IF dev.next = FREE THEN dev ELSE Device(FREE, 0, Mark(dev, STOP))

\* What happens on the lines when they go from v to w.
Edge(v, w) ==
  CASE v.clock = 1 /\ w.clock = 0                                     -> "down"
    [] v.clock = 0 /\ w.clock = 1                                     -> "up"
    [] v.clock = w.clock /\ Level(v) = Level(w)                       -> "none"
    [] v.clock = 0 /\ w.clock = 0 /\ Level(v) # Level(w)              -> "changes"
    [] v.clock = 1 /\ w.clock = 1 /\ Level(v) = 1 /\ Level(w) = 0     -> "falls"
    [] v.clock = 1 /\ w.clock = 1 /\ Level(v) = 0 /\ Level(w) = 1     -> "rises"

\* An I2C device hears the data line fall while the clock is high, which begins
\* a transaction, and rise, which ends it; in between a bit is what the line was
\* while the clock was high.
I2cHears(dev, edge, level) ==
  CASE edge = "down"  -> FallingClock(dev, level)
    [] edge = "falls" -> Starts(dev)
    [] edge = "rises" -> Stops(dev)
    [] OTHER          -> dev

\* An SHT1x begins when the data line falls while the clock is high (stage 1), the
\* clock goes down (2) and up (3), and the line rises, with nothing in between.
Stage(stage, edge) ==
  CASE edge = "none"                -> stage
    [] edge = "falls"               -> 1
    [] edge = "down" /\ stage = 1   -> 2
    [] edge = "up" /\ stage = 2     -> 3
    [] OTHER                        -> 0

ShtHears(s, edge) ==
  [stage  |-> Stage(s.stage, edge),
   starts |-> IF edge = "rises" /\ s.stage = 3 THEN s.starts + 1 ELSE s.starts]

\* The lines become w, which is heard as edge.
Hears(l, w, edge) ==
  [wires |-> w, i2c |-> I2cHears(l.i2c, edge, Level(l.wires)), sht |-> ShtHears(l.sht, edge)]

Moved(l, w) == Hears(l, w, Edge(l.wires, w))

C0(l) == Moved(l, [l.wires EXCEPT !.clock = 0])
C1(l) == Moved(l, [l.wires EXCEPT !.clock = 1])

\* The driver, or a device, lets the data line go (1) or pulls it low (0).
Data(l, bit)  == Moved(l, [l.wires EXCEPT !.master = bit])
Slave(l, bit) == Moved(l, [l.wires EXCEPT !.slave = bit])

D0(l) == Data(l, 0)
D1(l) == Data(l, 1)
S0(l) == Slave(l, 0)
S1(l) == Slave(l, 1)

\* Both lines are high and no transaction is open.
Released(b) ==
  b.line.wires = [clock |-> 1, master |-> 1, slave |-> 1] /\ b.line.i2c.next = FREE

-----------------------------------------------------------------------------
(* A session *)

Bus(line, nacks, sent, data, got, d) ==
  [d |-> d, nacks |-> nacks, sent |-> sent, data |-> data, got |-> got, line |-> line]

Session(nacks, data) == Bus(Quiet, nacks, 0, data, 0, <<>>)

Drive(b, line) == Bus(line, b.nacks, b.sent, b.data, b.got, b.d)

Got(b, result) == Bus(b.line, b.nacks, b.sent, b.data, result, b.d)

\* What a driver stores.
Put(b, d) == Bus(b.line, b.nacks, b.sent, b.data, b.got, d)

\* How it goes on after a call that returns 0, or a byte that is acknowledged.
IfDone(b, Then(_), Else(_)) == IF b.got = 0 THEN Then(b) ELSE Else(b)

Same(b) == b

\* The device answers what it was sent: 0 is an acknowledgement.
Answered(b) ==
  Bus(b.line, b.nacks, b.sent + 1, b.data, IF b.sent + 1 \in b.nacks THEN 1 ELSE 0, b.d)

\* The next byte of the device.
Sends(b) ==
  IF b.data = <<>> THEN Got(b, 255)
  ELSE Bus(b.line, b.nacks, b.sent, Tail(b.data), Head(b.data), b.d)

Pulse(l) == C0(C1(l))

MasterBit(l, bit) == Pulse(Data(l, bit))

\* A device changes the line while the clock is low, and lets go of it after.
SlaveBit(l, bit) == S1(Pulse(Slave(D1(l), bit)))

\* The bits of a byte, the highest first.
ForBits(l, byte, Clocked(_, _)) ==
  LET Two(x, weight)  == Clocked(Clocked(x, (byte \div (2 * weight)) % 2), (byte \div weight) % 2)
  IN Two(Two(Two(Two(l, 64), 16), 4), 1)

-----------------------------------------------------------------------------
(* Low level functions: what is written first is innermost *)

i2cInit(b) == Drive(b, C1(D1(b.line)))

i2cSendStart(b) == Drive(b, C0(D0(D1(C1(b.line)))))

i2cSendStop(b) == Drive(b, D1(C1(D0(b.line))))

Acknowledged(b) == Drive(b, SlaveBit(b.line, b.got))

\* The result is the bit the device answers with, 0 for an acknowledgement.
i2cWriteByte(b, byte) == Acknowledged(Answered(Drive(b, ForBits(b.line, byte, MasterBit))))

i2cReadByte(b, ack) ==
  LET read == Sends(b)
  IN Drive(read, MasterBit(ForBits(read.line, read.got, SlaveBit), IF ack THEN 0 ELSE 1))

-----------------------------------------------------------------------------
(* Reading and writing registers: what a call does next depends on the result  *)
(* of the last one, in got                                                     *)

Stopped(b, rtn) == Got(i2cSendStop(b), rtn)

\* After the value of a command.
Commanded(b, sendstop) ==
  IF b.got # 0 THEN Stopped(b, -1) ELSE IF sendstop THEN Stopped(b, 0) ELSE b

i2cWriteCmd_NoStop(b, device, value, sendstop) ==
  LET Addressed(x) ==
        IF x.got # 0 THEN Got(x, -1) ELSE Commanded(i2cWriteByte(x, value), sendstop)
  IN Addressed(i2cWriteByte(i2cSendStart(b), 2 * device))

\* After the address.
Addressed(b, value, sendstop) ==
  IF b.got # 0 THEN Stopped(b, -1) ELSE Commanded(i2cWriteByte(b, value), sendstop)

\* 0, or -1 if the device does not acknowledge its address or the value.
i2cWriteCmd(b, device, value, sendstop) ==
  Addressed(i2cWriteByte(i2cSendStart(b), 2 * device), value, sendstop)

\* After the value of a register.
RegisterWritten(b) == Stopped(b, IF b.got = 1 THEN -1 ELSE 0)

\* After the register's number.
Selected(b, value) == IF b.got # 0 THEN b ELSE RegisterWritten(i2cWriteByte(b, value))

i2cWriteRegister8(b, device, addr, value) == Selected(i2cWriteCmd(b, device, addr, FALSE), value)

\* A byte behind those read before.
Behind(high, byte) == 256 * high + byte

Both(high, b) == Got(b, Behind(high.got, b.got))

More(b, ack) == Both(b, i2cReadByte(b, ack))

\* The bytes of i2cReadRegister8, 16 and 24, the highest first; all but the last
\* one are acknowledged.
ByteIf(k, b, bytes) == IF k > bytes THEN b ELSE More(b, k < bytes)

ReadBytes(b, bytes) == ByteIf(3, ByteIf(2, i2cReadByte(b, bytes > 1), bytes), bytes)

\* After the second address, and after the command that selects the register; 0 if
\* the device does not answer: that is no error.
Opened(b, bytes) == IF b.got # 0 THEN Stopped(b, 0) ELSE i2cSendStop(ReadBytes(b, bytes))

Readable(b, device, bytes) ==
  IF b.got # 0 THEN Got(b, 0)
  ELSE Opened(i2cWriteByte(i2cSendStart(b), 2 * device + 1), bytes)

ReadRegister(b, device, value, bytes) ==
  Readable(i2cWriteCmd(b, device, value, FALSE), device, bytes)

i2cReadRegister8(b, device, value)  == ReadRegister(b, device, value, 1)
i2cReadRegister16(b, device, value) == ReadRegister(b, device, value, 2)
i2cReadRegister24(b, device, value) == ReadRegister(b, device, value, 3)

i2cReadRegister16LE(b, device, value) ==
  LET read == i2cReadRegister16(b, device, value)
  IN Got(read, (read.got % 256) * 256 + read.got \div 256)
=============================================================================
