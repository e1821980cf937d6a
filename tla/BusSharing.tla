----------------------------- MODULE BusSharing -----------------------------
(***************************************************************************)
(* What the drivers of SensorDrivers owe each other, because all of them   *)
(* hang on the same two lines.                                             *)
(***************************************************************************)
EXTENDS SensorDrivers, Conversions

Drivers ==
  {"sht3Init", "sht3Read", "bmpInit", "bmpRead", "bmx280Init", "bmx280Read", "bme280Read",
   "msInit", "msRead", "shtInit", "shtRead"}

Driver(driver, b) ==
  CASE driver = "sht3Init"   -> sht3Init(b)
    [] driver = "sht3Read"   -> sht3Read(b)
    [] driver = "bmpInit"    -> bmpInit(b)
    [] driver = "bmpRead"    -> bmpRead(b)
    [] driver = "bmx280Init" -> bmx280Init(b)
    [] driver \in {"bmx280Read", "bme280Read"} -> bmx280Read(b, driver = "bme280Read")
    [] driver = "msInit"     -> msInit(b)
    [] driver = "msRead"     -> msRead(b)
    [] driver = "shtInit"    -> shtInit(b)
    [] driver = "shtRead"    -> shtRead(Put(b, <<0, 0>>))

\* The I2C sensors and an SHT1x have the same two lines.  No I2C driver ever sends
\* what starts an SHT1x or breaks off a byte, and whatever is said to an SHT1x, no
\* I2C device hears as much as one byte of a transaction (shtStart, shtSendAck).
NeighboursUndisturbed(driver, line) ==
  IF driver \in {"shtInit", "shtRead"} THEN line.i2c.heard \in Seq({START, STOP})
  ELSE line.sht.starts = 0 /\ line.i2c.heard \in Seq({START, STOP} \cup 0 .. 255)

\* Whichever of the bytes a driver sends are not acknowledged, afterwards both
\* lines are high and no transaction is open, so that the next driver finds the bus as it
\* needs it, and its neighbours are undisturbed (i2cWriteCmd and every driver).
DriversShareBus ==
  input.kind = "bus" =>
    LET x == input.of
        Fine(after) == Released(after) /\ NeighboursUndisturbed(x.driver, after.line)
    IN Fine(Driver(x.driver, Session(x.nacks, x.data)))

ValueOfBytes(bytes) ==
  CASE Len(bytes) = 1 -> bytes[1]
    [] Len(bytes) = 2 -> 256 * bytes[1] + bytes[2]
    [] Len(bytes) = 3 -> 65536 * bytes[1] + 256 * bytes[2] + bytes[3]

\* A register is read by one transaction that writes its number and, begun again
\* without a stop in between, reads its bytes; it is written by one that has
\* number and value; the result is the value, the highest byte first, or 0 if the
\* device does not answer (i2cReadRegister8, 16 and 24, i2cWriteRegister8).
RegisterTransfer ==
  input.kind = "register" =>
    LET x        == input.of
        Accepted == x.nacks \cap {1, 2, 3} = {}
        Read(b) ==
          /\ Released(b)
          /\ b.got = IF Accepted THEN ValueOfBytes(x.data) ELSE 0
          /\ Accepted =>
               b.line.i2c.heard =
                 <<START, 2 * x.device, x.register, START, 2 * x.device + 1>> \o x.data \o <<STOP>>
        Written(b) ==
          /\ Released(b)
          /\ b.got = IF Accepted THEN 0 ELSE -1
          /\ Accepted => b.line.i2c.heard = <<START, 2 * x.device, x.register, x.data[1], STOP>>
    IN /\ Read(ReadRegister(Session(x.nacks, x.data), x.device, x.register, Len(x.data)))
       /\ Written(i2cWriteRegister8(Session(x.nacks, <<>>), x.device, x.register, x.data[1]))

-----------------------------------------------------------------------------

\* The sensors share the two lines of the bus without a driver leaving them in use,
\* disturbing a neighbour, or reading another register than it means.
BusShared == DriversShareBus /\ RegisterTransfer
=============================================================================
