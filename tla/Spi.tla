--------------------------------- MODULE Spi ---------------------------------
(***************************************************************************)
(* peripherals/spi.h, spi.cpp: the SPI master and the W25Q32 flash behind  *)
(* it.  A transaction runs from the assertion of chip select to its        *)
(* release, which commits what the transaction's bytes asked for.  The     *)
(* firmware sends single bytes through DR, or a whole transaction by       *)
(* writing the burst registers, in any mixture.                            *)
(*                                                                         *)
(* A byte is [cmd, val]: the command it stands for and its value as a part *)
(* of an address or as data.  Values have one bit, so that 1 is an erased  *)
(* cell and the AND of two values their minimum.  Answers are the numbers  *)
(* of the code, an erased cell being 255.  burst_rx_ is not a variable:    *)
(* only the firmware reads it, and BurstRx is what do_burst writes to it.  *)
(***************************************************************************)
EXTENDS Naturals, Sequences

CONSTANTS
  CAPACITY, SECTOR_SIZE, PAGE_SIZE,
  WORD_BYTES,   \* bytes of a burst register, 4 in the code
  MAX_WORDS,    \* burst registers, 16 in the code
  BurstWords,   \* the words the firmware writes to each burst register
  MaxRx         \* bound on the answers that wait in rx_queue_

Commands == {"READ_ID", "READ_DATA", "PAGE_PROGRAM", "SECTOR_ERASE",
             "READ_STATUS", "WRITE_ENABLE", "other"}
SpiBytes == [cmd : Commands, val : 0..1]

ASSUME SpiAssumption ==
  /\ {CAPACITY, SECTOR_SIZE, PAGE_SIZE, WORD_BYTES, MAX_WORDS} \subseteq Nat \ {0}
  /\ CAPACITY % SECTOR_SIZE = 0
  /\ \A k \in 0..(MAX_WORDS - 1) : \A w \in BurstWords[k] :
       Len(w) = WORD_BYTES /\ w \in Seq(SpiBytes)

VARIABLES
  flash,       \* the members of W25Q32Flash
  cs_active,   \* cs_active_
  nss_low,     \* the bit NSS_LOW of cr_; no other bit has an effect
  burst_len,   \* burst_len_
  burst_tx,    \* burst_tx_, as words
  spi_rx,      \* rx_queue_
  sent         \* history: the bytes sent in the transaction that is open

spiVars == <<flash, cs_active, nss_low, burst_len, burst_tx, spi_rx, sent>>

Cells == 0..(CAPACITY - 1)

SpiInit ==
  /\ flash = [state |-> "IDLE", cmd |-> "other", addr |-> 0, addr_bytes |-> 0,
              buf |-> <<>>, wel |-> FALSE, data |-> [a \in Cells |-> 1]]
  /\ cs_active = FALSE /\ nss_low = FALSE
  /\ burst_len = 1
  /\ burst_tx = [k \in 0..(MAX_WORDS - 1) |->
                   [j \in 1..WORD_BYTES |-> [cmd |-> "other", val |-> 0]]]
  /\ spi_rx = <<>> /\ sent = <<>>

-----------------------------------------------------------------------------
(* W25Q32Flash: each operator is the flash after a call.                   *)

cs_assert(f) == [f EXCEPT !.state = "CMD", !.buf = <<>>]

\* Mutant: WRITE_ENABLE is answered before the command is latched.
ReceiveUnlatched(f, tx) ==
  [f EXCEPT !.cmd = IF tx.cmd = "WRITE_ENABLE" THEN @ ELSE tx.cmd,
            !.addr = 0, !.addr_bytes = 0, !.buf = <<>>,
            !.wel = @ \/ tx.cmd = "WRITE_ENABLE",
            !.state = CASE tx.cmd = "WRITE_ENABLE" -> "IDLE"
                        [] tx.cmd \in {"READ_ID", "READ_STATUS"} -> "DATA"
                        [] OTHER -> "ADDR"]

ReceiveCommand(f, tx) ==
  [f EXCEPT !.cmd = tx.cmd, !.addr = 0, !.addr_bytes = 0, !.buf = <<>>,
            !.wel = @ \/ tx.cmd = "WRITE_ENABLE",
            !.state = CASE tx.cmd = "WRITE_ENABLE" -> "IDLE"
                        [] tx.cmd \in {"READ_ID", "READ_STATUS"} -> "DATA"
                        [] OTHER -> "ADDR"]

\* Three bytes, of which the capacity keeps the lower bits.
ReceiveAddress(f, tx) ==
  LET a == f.addr * 2 + tx.val
  IN  IF f.addr_bytes = 2
      THEN [f EXCEPT !.addr = a % CAPACITY, !.addr_bytes = 3, !.state = "DATA"]
      ELSE [f EXCEPT !.addr = a, !.addr_bytes = @ + 1]

handle_data(f, tx) ==
  CASE f.cmd \in {"READ_ID", "PAGE_PROGRAM"} -> [f EXCEPT !.buf = Append(@, tx.val)]
    [] f.cmd = "READ_DATA" -> [f EXCEPT !.addr = (@ + 1) % CAPACITY]
    [] OTHER -> f

exchange(f, tx) ==
  CASE f.state = "CMD"  -> ReceiveCommand(f, tx)
    [] f.state = "ADDR" -> ReceiveAddress(f, tx)
    [] f.state = "DATA" -> handle_data(f, tx)
    [] OTHER -> f

\* The byte of a cell.
Byte(v) == IF v = 1 THEN 255 ELSE 0

ID == <<239, 64, 22>>   \* id_seq

\* What exchange returns.
Response(f) ==
  CASE f.state = "DATA" /\ f.cmd = "READ_ID" /\ Len(f.buf) < 3 -> ID[Len(f.buf) + 1]
    [] f.state = "DATA" /\ f.cmd = "READ_STATUS" -> IF f.wel THEN 2 ELSE 0
    [] f.state = "DATA" /\ f.cmd = "READ_DATA" -> Byte(f.data[f.addr])
    [] OTHER -> 255

\* The page programmed starts at the page's base, whatever the address.
Programmed(f) ==
  LET base == f.addr - (f.addr % PAGE_SIZE)
      byte(a) == f.buf[a - base + 1]
  IN  [a \in Cells |->
         IF a \in base..(base + PAGE_SIZE - 1) /\ a - base < Len(f.buf) /\ byte(a) = 0
         THEN 0 ELSE f.data[a]]

\* An address beyond the capacity, which an incomplete one may be, erases
\* nothing.
erase_sector(f, addr) ==
  LET base == (addr \div SECTOR_SIZE) * SECTOR_SIZE
  IN  [a \in Cells |-> IF a \in base..(base + SECTOR_SIZE - 1) THEN 1 ELSE f.data[a]]

\* Mutant: a program that was not enabled is carried out.
CommitAlways(f) ==
  IF f.cmd = "PAGE_PROGRAM" /\ f.buf # <<>>
  THEN [f EXCEPT !.data = Programmed(f), !.wel = FALSE]
  ELSE IF f.cmd = "SECTOR_ERASE" /\ f.wel
  THEN [f EXCEPT !.data = erase_sector(f, f.addr), !.wel = FALSE]
  ELSE f

commit(f) ==
  IF f.cmd = "PAGE_PROGRAM" /\ f.wel /\ f.buf # <<>>
  THEN [f EXCEPT !.data = Programmed(f), !.wel = FALSE]
  ELSE IF f.cmd = "SECTOR_ERASE" /\ f.wel
  THEN [f EXCEPT !.data = erase_sector(f, f.addr), !.wel = FALSE]
  ELSE f

cs_deassert(f) == [commit(f) EXCEPT !.state = "IDLE", !.buf = <<>>]

-----------------------------------------------------------------------------
(* Spi.                                                                    *)

\* write_reg(REG_CR): set_nss does nothing when the level does not change.
SpiWriteCR(low) ==
  /\ nss_low' = low
  /\ cs_active' = low
  /\ flash' = IF low = cs_active THEN flash
              ELSE IF low THEN cs_assert(flash) ELSE cs_deassert(flash)
  /\ sent' = IF low = cs_active THEN sent ELSE <<>>
  /\ UNCHANGED <<burst_len, burst_tx, spi_rx>>

\* The transfers the model explores: a command, then numbers, at most one byte
\* more than a page or than the identification holds, and numbers other than 0
\* only where they have a meaning.
Sendable(tx) ==
  /\ Len(spi_rx) < MaxRx
  /\ Len(sent) <= 4 + PAGE_SIZE
  /\ flash.state = "CMD" => tx.val = 0
  /\ flash.state # "CMD" => tx.cmd = "other"
  /\ flash.state = "DATA" /\ flash.cmd # "PAGE_PROGRAM" => tx.val = 0

\* write_reg(REG_DR): transfer_byte, whose answer is queued.
SpiWriteDR(tx) ==
  /\ Sendable(tx)
  /\ \/ /\ cs_active
        /\ flash' = exchange(flash, tx)
        /\ spi_rx' = Append(spi_rx, Response(flash))
        /\ sent' = Append(sent, tx)
     \/ /\ ~cs_active
        /\ spi_rx' = Append(spi_rx, 255)
        /\ UNCHANGED <<flash, sent>>
  /\ UNCHANGED <<cs_active, nss_low, burst_len, burst_tx>>

\* read_reg(REG_DR); an empty queue changes nothing.
SpiReadDR ==
  /\ spi_rx # <<>>
  /\ spi_rx' = Tail(spi_rx)
  /\ UNCHANGED <<flash, cs_active, nss_low, burst_len, burst_tx, sent>>

SpiWriteBurstLen(v) ==
  /\ burst_len' = IF v < MAX_WORDS THEN v ELSE MAX_WORDS
  /\ UNCHANGED <<flash, cs_active, nss_low, burst_tx, spi_rx, sent>>

\* The bytes of a burst.
BurstBytes(words) ==
  [k \in 1..(burst_len * WORD_BYTES) |->
     words[(k - 1) \div WORD_BYTES][((k - 1) % WORD_BYTES) + 1]]

\* The flash, and the bytes it has answered, after one more byte.
transfer_byte(s, tx) ==
  [flash |-> exchange(s.flash, tx), rx |-> Append(s.rx, Response(s.flash))]

\* The flash and the answers after each number of bytes of a burst, which
\* continues a transaction that is open, and at its end.
Exchanged(bytes) ==
  LET upTo[n \in 0..Len(bytes)] ==
        IF n = 0 THEN [flash |-> IF cs_active THEN flash ELSE cs_assert(flash), rx |-> <<>>]
        ELSE transfer_byte(upTo[n - 1], bytes[n])
  IN  upTo

Burst(words) == Exchanged(BurstBytes(words))[burst_len * WORD_BYTES]

\* The bytes of burst_rx_ that the burst writes.
BurstRx(words) == Burst(words).rx

\* Mutant: the register still shows chip select asserted.
BurstKeepsNss(words) ==
  /\ flash' = cs_deassert(Burst(words).flash)
  /\ cs_active' = FALSE
  /\ sent' = <<>>
  /\ UNCHANGED nss_low

do_burst(words) ==
  /\ flash' = cs_deassert(Burst(words).flash)
  /\ cs_active' = FALSE
  /\ nss_low' = FALSE
  /\ sent' = <<>>

\* write_reg(REG_BURST_TX + 4 * k): the last word of the burst triggers it.
SpiWriteBurstTx(k, word) ==
  /\ burst_tx' = [burst_tx EXCEPT ![k] = word]
  /\ \/ k + 1 >= burst_len /\ do_burst(burst_tx')
     \/ k + 1 < burst_len /\ UNCHANGED <<flash, cs_active, nss_low, sent>>
  /\ UNCHANGED <<burst_len, spi_rx>>

\* W25Q32Flash::write_byte and erase_sector, which tests call on flash().
TestWrites ==
  /\ \E a \in Cells : \E data \in {[flash.data EXCEPT ![a] = 0], erase_sector(flash, a)} :
       flash' = [flash EXCEPT !.data = data]
  /\ UNCHANGED <<cs_active, nss_low, burst_len, burst_tx, spi_rx, sent>>

SpiNext ==
  \/ TestWrites
  \/ \E low \in BOOLEAN : SpiWriteCR(low)
  \/ \E tx \in SpiBytes : SpiWriteDR(tx)
  \/ \E v \in 0..(MAX_WORDS + 1) : SpiWriteBurstLen(v)
  \/ SpiReadDR
  \/ \E k \in 0..(MAX_WORDS - 1) : \E word \in BurstWords[k] : SpiWriteBurstTx(k, word)

SpiSpec == SpiInit /\ [][SpiNext]_spiVars

-----------------------------------------------------------------------------
(* Properties.                                                             *)

\* A step of the firmware changes cells.
Committed == flash'.data # flash.data /\ ~TestWrites

\* The cells that a step changes.
Changed == {a \in Cells : flash'.data[a] # flash.data[a]}

\* The cells are protected: they change only where the write enable latch is
\* set, and the change clears it, so that each WRITE_ENABLE is good for one
\* program or erase.  "write 0s only": bits are set only by the erase of a
\* whole sector, and one transaction changes cells of one page or of one
\* sector only.
FlashProtected ==
  [][Committed =>
       /\ flash.wel /\ ~flash'.wel
       /\ \A a \in Changed :
            \/ /\ flash'.data[a] = 0
               /\ \A b \in Changed : b \div PAGE_SIZE = a \div PAGE_SIZE
            \/ \A b \in Cells :
                 IF b \div SECTOR_SIZE = a \div SECTOR_SIZE
                 THEN flash'.data[b] = 1 ELSE b \notin Changed]_spiVars

\* cmd_ and addr_ survive a transaction, and commit() looks at them whatever
\* the next one sent: one that sent nothing, or WRITE_ENABLE, must not carry
\* out the program or erase of an earlier one, whether it is ended by the
\* control register or by a burst of length 0.
NoStaleCommand ==
  [][Committed /\ (SpiWriteCR(FALSE) \/ burst_len = 0)
       => flash.state \in {"ADDR", "DATA"}]_spiVars

\* The answer to byte n of a transaction that has sent the bytes s, by the
\* protocol: identification and status follow the command, data the address.
Answer(s, n) ==
  LET start == s[2].val * 4 + s[3].val * 2 + s[4].val
  IN  CASE n > 1 /\ s[1].cmd = "READ_ID" /\ n <= 4  -> ID[n - 1]
        [] n > 1 /\ s[1].cmd = "READ_STATUS" -> IF flash.wel THEN 2 ELSE 0
        [] n > 4 /\ s[1].cmd = "READ_DATA" -> Byte(flash.data[(start + n - 5) % CAPACITY])
        [] OTHER -> 255

\* The firmware reads what the protocol promises: the flash answers the byte
\* sent next through DR by its position in the transaction, and a burst of
\* the words in the registers would return the answers to its bytes, also
\* when it continues a transaction begun through DR, whatever earlier ones
\* left in cmd_, addr_ and buf_; and CR shows chip select as it is.
AnswersAreRight ==
  /\ cs_active => Response(flash) = Answer(sent, Len(sent) + 1)
  /\ BurstRx(burst_tx) = [k \in 1..(burst_len * WORD_BYTES) |->
                            Answer(sent \o BurstBytes(burst_tx), Len(sent) + k)]
  /\ nss_low = cs_active
=============================================================================
