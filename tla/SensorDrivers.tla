--------------------------- MODULE SensorDrivers ---------------------------
(***************************************************************************)
(* The drivers of user/: what each Init and Read does on the bus, and      *)
(* which readings it takes.  got is what it returns, d what it stored.     *)
(*                                                                         *)
(* SHT1x is no I2C device but hangs on the same two pins; DHT22 has a pin  *)
(* of its own.  The arithmetic that turns readings into values is left     *)
(* out, but for that of SHT3x: d holds the raw readings.                   *)
(***************************************************************************)
EXTENDS I2cBus

SENSOR_RTN_FAILED == -1
SENSOR_RTN_OK     == 0

SHT3x_ADDR  == 68    \* 0x44
BMX280_ADDR == 119   \* 0x77, also BMP180_ADDR
MS5637_ADDR == 118   \* 0x76

Returns(b, rtn) == Got(b, rtn)

Stores(b, rtn, d) == Put(Got(b, rtn), d)

\* What was read last is stored behind the rest.
Stored(d, b) == Put(b, Append(d, b.got))

Failed(b) == Returns(b, SENSOR_RTN_FAILED)

\* The rest of a driver: a call that fails makes the driver fail.
After(b, Rest(_)) == IfDone(b, Rest, Failed)

-----------------------------------------------------------------------------
(* Checksums *)

\* Bit by bit, for numbers of 16 bits.
Xor16(a, b) ==
  LET high[k \in 0 .. 16] ==
        IF k = 0 THEN 0
        ELSE (((a \div 2 ^ (16 - k)) + (b \div 2 ^ (16 - k))) % 2) + 2 * high[k - 1]
  IN high[16]

\* The bits of a byte, the highest first, and the byte they make.
ByteBits(byte) == [k \in 1 .. 8 |-> (byte \div 2 ^ (8 - k)) % 2]

ByteOf(bits) ==
  LET value[k \in 0 .. 8] == IF k = 0 THEN 0 ELSE 2 * value[k - 1] + bits[k] IN value[8]

Crc8Step(crc) == IF crc >= 128 THEN Xor16((2 * crc) % 256, 49) ELSE 2 * crc

Crc8(start, byte) ==
  LET crc[k \in 0 .. 8] == IF k = 0 THEN Xor16(start, byte) ELSE Crc8Step(crc[k - 1]) IN crc[8]

sht3CalculateCRC(start, word) == Crc8(Crc8(start, word \div 256), word % 256)

shtReverseByte(a) == ByteOf([k \in 1 .. 8 |-> ByteBits(a)[9 - k]])

sht_crc_table == <<
    0,  49,  98,  83, 196, 245, 166, 151, 185, 136, 219, 234, 125,  76,  31,  46,
   67, 114,  33,  16, 135, 182, 229, 212, 250, 203, 152, 169,  62,  15,  92, 109,
  134, 183, 228, 213,  66, 115,  32,  17,  63,  14,  93, 108, 251, 202, 153, 168,
  197, 244, 167, 150,   1,  48,  99,  82, 124,  77,  30,  47, 184, 137, 218, 235,
   61,  12,  95, 110, 249, 200, 155, 170, 132, 181, 230, 215,  64, 113,  34,  19,
  126,  79,  28,  45, 186, 139, 216, 233, 199, 246, 165, 148,   3,  50,  97,  80,
  187, 138, 217, 232, 127,  78,  29,  44,   2,  51,  96,  81, 198, 247, 164, 149,
  248, 201,  54, 171,  60,  13,  94, 111,  65, 112,  35,  18, 133, 180, 231, 214,
  122,  75,  24,  41, 190, 143, 220, 237, 195, 242, 161, 144,   7,  54, 101,  84,
   57,   8,  91, 106, 253, 204, 159, 174, 128, 177, 226, 211,  68, 117,  38,  23,
  252, 205, 158, 175,  56,   9,  90, 107,  69, 116,  39,  22, 129, 176, 227, 210,
  191, 142, 221, 236, 123,  74,  25,  40,   6,  55, 100,  85, 194, 243, 160, 145,
   71, 118,  37,  20, 131, 178, 225, 208, 254, 207, 156, 173,  58,  11,  88, 105,
    4,  53, 102,  87, 192, 241, 162, 147, 189, 140, 223, 238, 121,  72,  27,  42,
  193, 240, 163, 146,   5,  52, 103,  86, 120,  73,  26,  43, 188, 141, 222, 239,
  130, 179, 224, 209,  70, 119,  36,  21,  59,  10,  89, 104, 255, 206, 157, 172>>

shtCalculateCRC(start, byte0, byte1, byte2) ==
  LET Next(crc, byte) == sht_crc_table[Xor16(byte, crc) + 1]
  IN shtReverseByte(Next(Next(Next(shtReverseByte(start), byte0), byte1), byte2))

Crc4Step(crc) == IF crc >= 32768 THEN Xor16((2 * crc) % 65536, 12288) ELSE 2 * crc

\* Four bits over the sixteen bytes of the words, the old checksum in the first
\* word left out, the eighth word cleared.
msCheckCRC(c) ==
  LET eep     == [c EXCEPT ![1] = @ % 4096, ![8] = 0]
      byte(n) == IF n % 2 = 1 THEN eep[n \div 2 + 1] % 256 ELSE eep[n \div 2 + 1] \div 256
      shifted[crc \in 0 .. 65535, k \in 0 .. 8] ==
        IF k = 0 THEN crc ELSE Crc4Step(shifted[crc, k - 1])
      crc[n \in 0 .. 16] == IF n = 0 THEN 0 ELSE shifted[Xor16(crc[n - 1], byte(n - 1)), 8]
  IN crc[16] \div 4096

-----------------------------------------------------------------------------
(* SHT3x *)

sht3Init(b) ==
  LET Reset(x) == Stores(x, SENSOR_RTN_OK, <<0, 0>>)
  IN After(i2cWriteRegister8(i2cInit(b), SHT3x_ADDR, 48, 162), Reset)

\* The sensor does not acknowledge its address before it has measured: 25 tries,
\* each after one that got another answer than 0.
Sht3Wait(b) ==
  LET Again(x) == Stopped(x, 1)
      Try(x)   == IfDone(i2cWriteByte(i2cSendStart(x), 2 * SHT3x_ADDR + 1), Same, Again)
      tried[k \in 0 .. 25] ==
        IF k = 0 THEN Got(b, 1) ELSE IfDone(tried[k - 1], Same, Try)
  IN tried[25]

\* Six bytes, the last one not acknowledged: temperature and humidity, each with
\* its checksum.
Sht3Bytes(b) ==
  LET Next(x) == Stored(x.d, i2cReadByte(x, TRUE))
      Last(x) == Stored(x.d, i2cReadByte(x, FALSE))
  IN i2cSendStop(Last(Next(Next(Next(Next(Next(Put(b, <<>>))))))))

\* In hundredths; the products fit into 32 bits.
Sht3Values(raw) ==
  <<(4375 * (256 * raw[1] + raw[2])) \div 2 ^ 14 - 4500,
    (625 * (256 * raw[4] + raw[5])) \div 2 ^ 12>>

\* After the wait, and after the command that starts a measurement.
Sht3Ready(b, Checked(_)) == IF b.got # 0 THEN Failed(b) ELSE Checked(Sht3Bytes(b))

Sht3Started(b, Checked(_)) == IF b.got # 0 THEN Failed(b) ELSE Sht3Ready(Sht3Wait(b), Checked)

sht3Read_OneChecksum(b) ==
  LET Checked(x) ==
        IF x.d[3] # sht3CalculateCRC(255, 256 * x.d[1] + x.d[2])
          THEN Stores(x, SENSOR_RTN_FAILED, b.d)
        ELSE Stores(x, SENSOR_RTN_OK, Sht3Values(x.d))
  IN Sht3Started(i2cWriteRegister8(b, SHT3x_ADDR, 36, 0), Checked)

sht3Read(b) ==
  LET Checked(x) ==
        IF \/ x.d[3] # sht3CalculateCRC(255, 256 * x.d[1] + x.d[2])
           \/ x.d[6] # sht3CalculateCRC(255, 256 * x.d[4] + x.d[5])
          THEN Stores(x, SENSOR_RTN_FAILED, b.d)
        ELSE Stores(x, SENSOR_RTN_OK, Sht3Values(x.d))
  IN Sht3Started(i2cWriteRegister8(b, SHT3x_ADDR, 36, 0), Checked)

-----------------------------------------------------------------------------
(* BMP180, BMP280 and BME280, MS5637 *)

\* Registers read one after the other; what they say is appended to d.
Kept(b, device, register) == Stored(b.d, ReadRegister(b, device, register[1], register[2]))

ReadRegisters(b, device, registers) ==
  LET read[k \in 0 .. Len(registers)] ==
        IF k = 0 THEN b
        ELSE Kept(read[k - 1], device, registers[k])
  IN read[Len(registers)]

Calibration(b, device, registers) == ReadRegisters(Put(b, <<>>), device, registers)

Words(first, n) == [k \in 1 .. n |-> <<first + 2 * (k - 1), 2>>]

\* Before they know their chip both drivers reset what has their address.
ChipId(b) == IF b.got # 0 THEN Got(b, 0) ELSE i2cReadRegister8(b, BMX280_ADDR, 208)

Identified(b) == ChipId(i2cWriteRegister8(i2cInit(b), BMX280_ADDR, 224, 182))

\* The registers are read of a chip that is known only.
Calibrated(b, chips, registers) ==
  IF b.got \notin chips THEN Failed(b)
  ELSE Returns(Calibration(b, BMX280_ADDR, registers), SENSOR_RTN_OK)

bmpInit(b) == Calibrated(Identified(b), {85}, Words(170, 11))

BmeHumidity == <<<<161, 1>>, <<225, 2>>, <<227, 1>>, <<228, 2>>, <<229, 2>>, <<231, 1>>>>

\* sensor_type is TYPE_BME280 for a chip with humidity.
BmxCalibrated(b) ==
  Calibrated(b, {86, 87, 88, 96}, Words(136, 12) \o (IF b.got = 96 THEN BmeHumidity ELSE <<>>))

bmx280Init(b) == BmxCalibrated(Identified(b))

\* A measurement has been started; when it is over, the registers are read.
Measured(b, device, registers) ==
  IF b.got # 0 THEN Failed(b) ELSE Returns(ReadRegisters(b, device, registers), SENSOR_RTN_OK)

BmpTemperature(b) == Measured(i2cWriteRegister8(b, BMX280_ADDR, 244, 46), BMX280_ADDR, <<<<246, 2>>>>)
BmpPressure(b)    == Measured(i2cWriteRegister8(b, BMX280_ADDR, 244, 180), BMX280_ADDR, <<<<246, 3>>>>)

bmpRead(b) == After(BmpTemperature(Put(b, <<>>)), BmpPressure)

BmeForced(b) == i2cWriteRegister8(b, BMX280_ADDR, 242, 1)

BmxMeasured(b, bme280) ==
  LET Registers == <<<<250, 3>>, <<247, 3>>>> \o (IF bme280 THEN <<<<253, 2>>>> ELSE <<>>)
  IN IF b.got # 0 THEN Failed(b)
     ELSE Measured(i2cWriteRegister8(b, BMX280_ADDR, 244, 37), BMX280_ADDR, Registers)

bmx280Read(b, bme280) ==
  BmxMeasured(IF bme280 THEN BmeForced(Put(b, <<>>)) ELSE Got(Put(b, <<>>), 0), bme280)

\* The seven words of the PROM have a checksum of four bits in the first.
PromChecked(b, c) ==
  Stores(b, IF c[1] \div 4096 # msCheckCRC(c) THEN SENSOR_RTN_FAILED ELSE SENSOR_RTN_OK, c)

PromRead(b) == PromChecked(b, Append(b.d, 0))

MsCalibrated(b) == PromRead(Calibration(b, MS5637_ADDR, Words(160, 7)))

msInit(b) == After(i2cWriteCmd(i2cInit(b), MS5637_ADDR, 30, TRUE), MsCalibrated)

\* A conversion is started by a command without a value.
MsPressure(b)    == Measured(i2cWriteCmd(b, MS5637_ADDR, 70, TRUE), MS5637_ADDR, <<<<0, 3>>>>)
MsTemperature(b) == Measured(i2cWriteCmd(b, MS5637_ADDR, 86, TRUE), MS5637_ADDR, <<<<0, 3>>>>)

msRead(b) == After(MsPressure(Put(b, <<>>)), MsTemperature)

-----------------------------------------------------------------------------
(* SHT1x *)

shtReset(b) ==
  LET Three(l) == Pulse(Pulse(Pulse(l)))
  IN Drive(b, Three(Three(Three(C0(D1(b.line))))))

shtStart(b) == Drive(b, C0(D1(C1(C0(D0(C1(C0(D1(b.line)))))))))

shtSendAck(b) == Drive(b, D1(Pulse(D0(b.line))))

\* 1 if the sensor does not pull the line low in time.
shtReadAck(b) ==
  LET Pulled(x) == Drive(x, S1(Pulse(S0(x.line))))
  IN IfDone(Answered(Drive(b, D1(b.line))), Pulled, Same)

shtRead8(b) ==
  LET Bit(l, bit) == S1(Pulse(Slave(l, bit)))
      Read(x)     == Drive(x, ForBits(x.line, x.got, Bit))
  IN Read(Sends(Drive(b, C0(D1(b.line)))))

shtRead16(b) ==
  LET Next(high, x) == Got(x, 256 * high.got + x.got)
      Low(x)        == Next(x, shtRead8(shtSendAck(x)))
  IN Low(shtRead8(b))

shtWrite8(b, data) == Drive(b, D1(ForBits(C0(D1(b.line)), data, MasterBit)))

\* The sensor pulls the line low when it has measured, 1 if that takes too long.
shtWaitForConversion(b) ==
  LET Pulled(x) == Drive(x, S0(x.line))
  IN IfDone(Answered(Drive(b, C0(D1(b.line)))), Pulled, Same)

\* Both lines up: they have the same pull-ups as I2C.
shtInit(b) ==
  LET Finished(x, rtn) == Returns(Drive(x, C1(x.line)), rtn)
      Found(x)         == Put(Finished(shtSendAck(shtRead16(x)), SENSOR_RTN_OK), <<0, 0>>)
      Missing(x)       == Finished(x, SENSOR_RTN_FAILED)
      Asked(x)         == shtReadAck(shtWrite8(shtStart(shtReset(x)), 7))
  IN IfDone(Asked(Drive(b, C0(D1(b.line)))), Found, Missing)

\* One of the two measurements: it returns the reading, or -1.
ShtMeasure(b, command) ==
  LET None(x)          == Got(x, -1)
      Checked(word, x) == Got(x, IF x.got = shtCalculateCRC(0, command, word \div 256, word % 256)
                                   THEN word ELSE -1)
      Read(x)          == Checked(x.got, shtSendAck(shtRead8(shtSendAck(x))))
      Ready(x)         == Read(shtRead16(x))
      Asked(x)         == IfDone(shtWaitForConversion(x), Ready, None)
  IN IfDone(shtReadAck(shtWrite8(shtStart(b), command)), Asked, None)

shtRead(b) ==
  LET Finished(x, rtn, d) == Stores(Drive(x, D1(C1(x.line))), rtn, d)
      Second(t, x) == IF x.got = -1 THEN Finished(x, SENSOR_RTN_FAILED, <<t, b.d[2]>>)
                      ELSE Finished(x, SENSOR_RTN_OK, <<t, x.got>>)
      First(x) == IF x.got = -1 THEN Finished(x, SENSOR_RTN_FAILED, b.d)
                  ELSE Second(x.got, ShtMeasure(x, 5))
  IN First(ShtMeasure(b, 3))

-----------------------------------------------------------------------------
(* DHT22: a pulse is the microseconds the line is low, then high *)

\* The response, then 40 bits; the checksum is the sum of the first four bytes.
\* With a wrong one the values stay reset to 0, and the result is still OK.
dht22Read(response, pulses) ==
  LET answered == response[1] < 85 /\ response[2] < 85
      received == \A k \in 1 .. 40 : pulses[k][1] < 55 /\ pulses[k][2] <= 75
      rawdata  == [n \in 1 .. 5 |-> ByteOf([k \in 1 .. 8 |->
                     IF pulses[8 * (n - 1) + k][2] > 33 THEN 1 ELSE 0])]
      chksum   == (rawdata[1] + rawdata[2] + rawdata[3] + rawdata[4]) % 256
      Int16(n) == IF n >= 32768 THEN n - 65536 ELSE n
  IN IF ~answered \/ ~received THEN [rtn |-> SENSOR_RTN_FAILED, humidity |-> 0, temperature |-> 0]
     ELSE IF rawdata[5] # chksum THEN [rtn |-> SENSOR_RTN_OK, humidity |-> 0, temperature |-> 0]
     ELSE [rtn         |-> SENSOR_RTN_OK,
           humidity    |-> 256 * rawdata[1] + rawdata[2],
           temperature |-> Int16(256 * rawdata[3] + rawdata[4])]
=============================================================================
