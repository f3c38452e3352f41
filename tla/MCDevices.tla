----------------------------- MODULE MCDevices -----------------------------
(* The instance of the machine and of the peripherals that TLC checks.     *)
(* They share no state, so a behaviour exercises one of them, chosen at    *)
(* the beginning.                                                          *)
EXTENDS PeripheralBus, Uart, Spi, I2c, Can, Loader

VARIABLE device

DevicesInit ==
  /\ BusInit /\ UartInit /\ SpiInit /\ I2cInit /\ CanInit /\ CpuInit /\ LoaderInit
  /\ device \in {"bus", "uart", "spi", "i2c", "can", "machine"}

DevicesNext ==
  /\ UNCHANGED device
  /\ \/ /\ device = "bus" /\ BusNext
        /\ UNCHANGED <<uartVars, spiVars, i2cVars, canVars, simVars>>
     \/ /\ device = "uart" /\ UartNext
        /\ UNCHANGED <<entries, spiVars, i2cVars, canVars, simVars>>
     \/ /\ device = "spi" /\ SpiNext
        /\ UNCHANGED <<entries, uartVars, i2cVars, canVars, simVars>>
     \/ /\ device = "i2c" /\ I2cNext
        /\ UNCHANGED <<entries, uartVars, spiVars, canVars, simVars>>
     \/ /\ device = "can" /\ CanNext
        /\ UNCHANGED <<entries, uartVars, spiVars, i2cVars, simVars>>
     \/ /\ device = "machine" /\ MachineNext
        /\ UNCHANGED <<entries, uartVars, spiVars, i2cVars, canVars>>

DevicesSpec ==
  DevicesInit
  /\ [][DevicesNext]_<<entries, uartVars, spiVars, i2cVars, canVars, simVars, device>>

Num(n) == [cmd |-> "other", val |-> n]
Cmd(c) == [cmd |-> c, val |-> 0]

\* A burst of one word sends a command and its address.  In a burst of two
\* the second word is data: PAGE_PROGRAM then clears a cell and more data
\* arrives than a page holds, READ_DATA goes past the end of the flash.
FirmwareWords ==
  [k \in 0..1 |-> IF k = 1 THEN {<<Num(0), Num(0), Num(0), Num(0)>>} ELSE
    {<<Cmd("PAGE_PROGRAM"), Num(0), Num(0), Num(0)>>,
     <<Cmd("SECTOR_ERASE"), Num(0), Num(1), Num(0)>>,
     <<Cmd("READ_DATA"), Num(0), Num(0), Num(1)>>}]

OneWord == {<<1, 128>>}

\* Both ends of the sensor's range, and both sides of zero and of a half.
Temperatures == {-1280, -255, -9, 4, 1279}

\* Opcodes: every group of the decoder, shifts by 0, 1 and 15, forward and
\* backward branches, opcodes that are undefined.
Opcodes ==
  {2048 * op + 64 * n : op \in 0..2, n \in {0, 1, 15}}
  \cup {16392 + 64 * op : op \in 0..15}
  \cup {6208, 6720, 7232, 7744, 8193, 10241, 12543, 14337,
        17543, 17793, 18049, 18063, 18184, 18288, 18312,
        18432, 18687, 20616, 22664, 21640, 23688, 21128,
        24584, 26632, 28680, 30728, 24648, 32776, 34824, 36864, 38912,
        40961, 43009, 45057, 45185,
        46083, 46339, 48131, 48387, 48896, 48640, 45760,
        49413, 49411, 51461, 51459,
        53502, 55297, 56061, 56832, 57088, 57345, 59390, 59392,
        61440, 63487, 63489, 65534}

Regs(a, b, sp, lr) ==
  [r \in 0..15 |-> CASE r = 0 -> a [] r = 1 -> b [] r = 8 -> 3
                     [] r = SP -> sp [] r = LR -> lr [] OTHER -> 0]

RegisterFiles ==
  {Regs(a, b, 12, 3) : a \in {0, 1, 32767, 32768, 65535},
                       b \in {0, 1, 2, 15, 16, 17, 255, 256, 8192, 32767, 32768, 65535}}
  \cup {Regs(1, 2, sp, lr) : sp \in {0, 8, 12, 16, 8196}, lr \in {2, 5}}

\* The last byte of a record is its checksum.
Rec(bytes) == [kind |-> "record", bytes |-> bytes]

\* Overlapping data, both kinds of extended address (the linear one of SRAM),
\* two start addresses, the end; and records that are refused.
HexLines ==
  {Rec(<<2, 0, 0, 0, 5, 10, 15>>), Rec(<<2, 0, 1, 0, 7, 0, 6>>), Rec(<<2, 0, 15, 0, 1, 1, 13>>),
   Rec(<<2, 0, 0, 2, 0, 1, 11>>), Rec(<<2, 0, 0, 4, 2, 0, 8>>),
   Rec(<<4, 0, 0, 5, 0, 0, 0, 3, 4>>), Rec(<<4, 0, 0, 5, 1, 0, 0, 6, 0>>),
   Rec(<<0, 0, 0, 1, 15>>), Rec(<<15, 0, 0, 0, 1, 0>>), Rec(<<0, 0, 0, 3, 13>>),
   Rec(<<2, 0, 0, 0, 1, 1, 1>>),
   Rec(<<0, 0>>),
   [kind |-> "garbled", bytes |-> <<0>>], [kind |-> "text", bytes |-> <<>>]}

Images == {<<>>, <<1, 2>>, <<1, 2, 3, 4, 5>>}
============================================================================
