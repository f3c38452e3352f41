--------------------------------- MODULE I2c ---------------------------------
(***************************************************************************)
(* peripherals/i2c.h, i2c.cpp: the I2C master with an LM75 sensor.         *)
(*                                                                         *)
(* A register of the sensor is a pair of bytes.  The register number that  *)
(* a write through CR uses is taken from bits 15:8 of the word, in which   *)
(* bit 8 is RW, bit 9 START and bit 10 STOP.                               *)
(***************************************************************************)
EXTENDS Integers, Sequences

CONSTANTS
  Slaves, DEFAULT_ADDR,   \* the addresses in use, and the sensor's
  Words,                  \* 16-bit values written to the sensor, <<hi, lo>>
  Temps                   \* arguments of set_temperature_c10 and set_temperature_raw

ASSUME I2cAssumption ==
  /\ DEFAULT_ADDR \in Slaves
  /\ Words \subseteq (0..255) \X (0..255)
  /\ Temps \subseteq Int

VARIABLES
  regs,       \* Lm75::regs_, by register
  i2c_sr,     \* sr_, as the set of its bits
  reg_addr,   \* reg_addr_
  rx_queue,   \* rx_queue_
  last_read   \* history: what the last read transfer fetched

i2cVars == <<regs, i2c_sr, reg_addr, rx_queue, last_read>>

REG_TEMP == 0
Nothing16 == <<0, 0>>

I2cInit ==
  /\ regs = [r \in 0..3 |-> CASE r = 0 -> <<25, 0>> [] r = 1 -> <<0, 0>>
                               [] r = 2 -> <<80, 0>> [] OTHER -> <<75, 0>>]
  /\ i2c_sr = {} /\ reg_addr = 0
  /\ rx_queue = <<>> /\ last_read = Nothing16

read_reg16(r) == IF r > 3 THEN Nothing16 ELSE regs[r]

\* regs after write_reg16, which ignores a register that does not exist.
Written(r, w) == IF r > 3 THEN regs ELSE [regs EXCEPT ![r] = w]

-----------------------------------------------------------------------------
\* dispatch_read and the status its callers set.
dispatch_read(slave, r) ==
  \/ /\ slave = DEFAULT_ADDR
     /\ rx_queue' = read_reg16(r)
     /\ last_read' = read_reg16(r)
     /\ i2c_sr' = {"ACK_OK", "RX_READY"}
  \/ /\ slave # DEFAULT_ADDR
     /\ i2c_sr' = {"NACK"}
     /\ UNCHANGED <<rx_queue, last_read>>

\* dispatch_write of two bytes and the status its callers set.
dispatch_write(slave, r, w) ==
  \/ slave = DEFAULT_ADDR /\ regs' = Written(r, w) /\ i2c_sr' = {"ACK_OK"}
  \/ slave # DEFAULT_ADDR /\ UNCHANGED regs /\ i2c_sr' = {"NACK"}

\* write_reg(REG_CR) with START and RW.
CrRead(slave) ==
  /\ dispatch_read(slave, reg_addr)
  /\ UNCHANGED <<regs, reg_addr>>

\* Bits 15:8 of a word with START and without RW; high stands for the bits
\* above STOP.
CrRegister(high, stop) == (IF high THEN 8 ELSE 0) + (IF stop THEN 4 ELSE 0) + 2

\* write_reg(REG_CR) with START, without RW.
CrWrite(slave, high, stop, w) ==
  /\ reg_addr' = CrRegister(high, stop)
  /\ \/ stop /\ dispatch_write(slave, CrRegister(high, stop), w)
     \/ ~stop /\ i2c_sr' = {"ACK_OK"} /\ UNCHANGED regs
  /\ UNCHANGED <<rx_queue, last_read>>

I2cWriteRegAddr(r) ==
  /\ reg_addr' = r
  /\ UNCHANGED <<regs, i2c_sr, rx_queue, last_read>>

\* Mutant: RX_READY stays when the last byte is read.
ReadKeepsReady ==
  /\ rx_queue # <<>>
  /\ rx_queue' = Tail(rx_queue)
  /\ UNCHANGED <<regs, i2c_sr, reg_addr, last_read>>

\* read_reg(REG_DR); an empty queue changes nothing.
I2cReadDR ==
  /\ rx_queue # <<>>
  /\ rx_queue' = Tail(rx_queue)
  /\ i2c_sr' = IF Len(rx_queue) = 1 THEN i2c_sr \ {"RX_READY"} ELSE i2c_sr
  /\ UNCHANGED <<regs, reg_addr, last_read>>

read_sensor_reg(slave, r) ==
  /\ reg_addr' = r
  /\ dispatch_read(slave, r)
  /\ UNCHANGED regs

write_sensor_reg(slave, r, w) ==
  /\ dispatch_write(slave, r, w)
  /\ UNCHANGED <<reg_addr, rx_queue, last_read>>

\* Division of C++, which rounds towards zero.
Quotient(t)  == IF t < 0 THEN -((-t) \div 10) ELSE t \div 10
Remainder(t) == t - 10 * Quotient(t)

\* The two bytes of a temperature, the upper as uint8_t.
EncodeTemp(t) == <<Quotient(t) % 256, IF Remainder(t) >= 5 THEN 128 ELSE 0>>

\* temperature_c(), in 0.1 degrees.
temperature_c(w) ==
  10 * (IF w[1] < 128 THEN w[1] ELSE w[1] - 256) + (IF w[2] >= 128 THEN 5 ELSE 0)

set_temperature_c10(t) ==
  /\ regs' = [regs EXCEPT ![REG_TEMP] = EncodeTemp(t)]
  /\ UNCHANGED <<i2c_sr, reg_addr, rx_queue, last_read>>

\* raw counts half degrees; the shift keeps the sign.
set_temperature_raw(raw) ==
  /\ regs' = [regs EXCEPT ![REG_TEMP] = <<(raw \div 2) % 256, (raw % 2) * 128>>]
  /\ UNCHANGED <<i2c_sr, reg_addr, rx_queue, last_read>>

I2cNext ==
  \/ \E s \in Slaves :
       \/ CrRead(s)
       \/ \E high, stop \in BOOLEAN, w \in Words : CrWrite(s, high, stop, w)
       \/ \E r \in 0..4 :
            \/ read_sensor_reg(s, r)
            \/ \E w \in Words : write_sensor_reg(s, r, w)
  \/ \E r \in 0..4 : I2cWriteRegAddr(r)
  \/ I2cReadDR
  \/ \E t \in Temps : set_temperature_c10(t) \/ set_temperature_raw(t)

I2cSpec == I2cInit /\ [][I2cNext]_i2cVars

-----------------------------------------------------------------------------
(* Properties.                                                             *)

\* While RX_READY is set, DR gives the bytes of the last read transfer, in
\* order and never ones left over from a transfer before it.
ReadyMeansFresh ==
  "RX_READY" \in i2c_sr =>
    /\ rx_queue # <<>>
    /\ rx_queue = SubSeq(last_read, 3 - Len(rx_queue), 2)

\* What i2c.h says of the sensor, "9-bit signed +-0.5 C resolution": a
\* temperature that is set in tenths of a degree is read back with an error
\* of less than half a degree, below 0 as above.
TemperatureIsClose ==
  [][\A t \in Temps : set_temperature_c10(t) =>
       LET back == temperature_c(regs'[REG_TEMP])
       IN  back - t < 5 /\ t - back < 5]_i2cVars
=============================================================================
