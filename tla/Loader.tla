-------------------------------- MODULE Loader --------------------------------
(***************************************************************************)
(* src/loader.h, loader.cpp and run_simulation of main.cpp: a program is   *)
(* read from a raw binary or from the records of an Intel HEX file, and    *)
(* then run.                                                               *)
(*                                                                         *)
(* A line of a HEX file is [kind, bytes]: a record, text that does not     *)
(* begin with a colon, or a record with something else than hex digits.    *)
(* Its bytes are those of the line, the checksum included; the sizes of    *)
(* addresses follow from those of a byte and of a word.                    *)
(***************************************************************************)
EXTENDS Cpu

Folding == INSTANCE SequencesExt

CONSTANTS
  SEG,         \* unit of a segment address, 16 in the code
  Lines,       \* lines of HEX files
  Binaries,    \* the contents of binary files
  LoadAddrs,   \* their addresses
  MainSteps,   \* the option --steps
  MaxLines     \* bound on the lines of a file

\* The values of a byte.
Octets == 0..(CELL - 1)

ASSUME LoaderAssumption ==
  /\ SEG \in Nat \ {0} /\ MaxLines \in Nat /\ MainSteps \in Nat
  /\ \A line \in Lines : line.bytes \in Seq(Octets)
  /\ Binaries \subseteq Seq(Octets) /\ LoadAddrs \subseteq WordSet

VARIABLES
  base_addr,     \* locals of load_ihex
  entry_point,
  file           \* history: the lines loaded, until the first instruction

loaderVars == <<base_addr, entry_point, file>>

LoaderInit == base_addr = 0 /\ entry_point = 0 /\ file = <<>>

-----------------------------------------------------------------------------
(* Records.                                                                *)

verify_checksum(bytes) == Folding!FoldLeft(+, 0, bytes) % CELL = 0

\* The number in the bytes at k and k + 1 of a record, high byte first.
Number(bytes, k) == bytes[k] * CELL + bytes[k + 1]

ByteCount(bytes) == bytes[1]
Offset(bytes)    == Number(bytes, 2)
RecType(bytes)   == bytes[4]

\* The bytes that each record type reads after its header.
Needed(bytes) ==
  CASE RecType(bytes) = 0 -> ByteCount(bytes)
    [] RecType(bytes) \in {2, 4} -> 2
    [] RecType(bytes) = 5 -> 4
    [] OTHER -> 0

Data(bytes) == SubSeq(bytes, 5, 4 + ByteCount(bytes))
DataAddr(bytes) == Wrap(base_addr + Offset(bytes))

\* The lines that load_ihex accepts as records: other ones, and a load that
\* faults, end it with an exception.
WellFormed(line) ==
  /\ line.kind = "record"
  /\ Len(line.bytes) >= 5
  /\ verify_checksum(line.bytes)
  /\ RecType(line.bytes) \in {0, 1, 2, 4, 5}
  /\ Len(line.bytes) >= 4 + Needed(line.bytes)
  /\ RecType(line.bytes) = 0 => Accessible(DataAddr(line.bytes), ByteCount(line.bytes))

\* Mutant: the segment address is added to the base in force.
BaseAccumulates(bytes) ==
  CASE RecType(bytes) = 2 -> Wrap(base_addr + Number(bytes, 5) * SEG)
    [] RecType(bytes) = 4 -> Number(bytes, 5) * CELL * CELL
    [] OTHER -> base_addr

BaseAfter(bytes) ==
  CASE RecType(bytes) = 2 -> Number(bytes, 5) * SEG
    [] RecType(bytes) = 4 -> Number(bytes, 5) * CELL * CELL
    [] OTHER -> base_addr

\* The entry point's former bits are shifted out by four new bytes.
EntryAfter(bytes) ==
  LET Into(v, b) == Wrap(v * CELL) + b
  IN  IF RecType(bytes) = 5
      THEN Into(Into(Into(Into(entry_point, bytes[5]), bytes[6]), bytes[7]), bytes[8])
      ELSE entry_point

-----------------------------------------------------------------------------
(* Loading and running.                                                    *)

\* An exception ends run_simulation.
LoadFails ==
  /\ phase' = "failed"
  /\ UNCHANGED <<core, steps, max_steps, printed, loaderVars>>

\* The rest of run_simulation, with the machine s.
Launch(s, entry) ==
  /\ core' = SetReg(s, PC, Even(entry))
  /\ StartRun(MainSteps)
  /\ UNCHANGED <<printed, loaderVars>>

load_binary(bytes, addr) ==
  /\ phase = "idle"
  /\ IF bytes = <<>> \/ ~Accessible(addr, Len(bytes)) THEN LoadFails
     ELSE Launch([core EXCEPT !.mem = Loaded(@, addr, bytes)], addr)

\* load_ihex opens the file.
load_ihex ==
  /\ phase = "idle"
  /\ phase' = "load"
  /\ base_addr' = 0 /\ entry_point' = 0 /\ file' = <<>>
  /\ UNCHANGED <<core, steps, max_steps, printed>>

\* One pass of load_ihex's loop over the lines.
ReadLine(line) ==
  /\ phase = "load" /\ Len(file) < MaxLines
  /\ \/ line.kind = "text" /\ UNCHANGED <<cpuVars, loaderVars>>
     \/ line.kind # "text" /\ ~WellFormed(line) /\ LoadFails
     \/ /\ WellFormed(line) /\ RecType(line.bytes) = 1
        /\ Launch(core, entry_point)
     \/ /\ WellFormed(line) /\ RecType(line.bytes) # 1
        /\ core' = IF RecType(line.bytes) # 0 THEN core
                   ELSE [core EXCEPT !.mem = Loaded(@, DataAddr(line.bytes), Data(line.bytes))]
        /\ base_addr' = BaseAfter(line.bytes)
        /\ entry_point' = EntryAfter(line.bytes)
        /\ file' = Append(file, line)
        /\ UNCHANGED <<phase, steps, max_steps, printed>>

\* A file may end without the record that says so.
EndOfFile == phase = "load" /\ Launch(core, entry_point)

\* The loader's locals, and the history, end with the loader.
Forget == base_addr' = 0 /\ entry_point' = 0 /\ file' = <<>>

MachineNext ==
  \/ /\ phase = "idle"
     /\ \E start \in Starts, n \in RunSteps : Begin(start, n)
     /\ UNCHANGED loaderVars
  \/ \E bytes \in Binaries, addr \in LoadAddrs : load_binary(bytes, addr)
  \/ load_ihex
  \/ phase = "load" /\ \E line \in Lines : ReadLine(line)
  \/ EndOfFile
  \/ phase = "run" /\ \E i \in Instrs : step(i) /\ Forget
  \/ RunReturns /\ Forget
  \/ \E n \in RunSteps : RunAgain(n) /\ UNCHANGED loaderVars
  \/ StartOver /\ Forget

simVars == <<cpuVars, loaderVars>>

MachineSpec == CpuInit /\ LoaderInit /\ [][MachineNext]_simVars

-----------------------------------------------------------------------------
(* Properties.                                                             *)

\* The last of some lines.
Latest(L) == CHOOSE j \in L : \A e \in L : e <= j

\* The base address in force at line j of the file: that of the last extended
\* address record before it.
BaseAt(j) ==
  LET E == {e \in 1..(j - 1) : RecType(file[e].bytes) \in {2, 4}}
  IN  IF E = {} THEN 0
      ELSE LET b == file[Latest(E)].bytes
           IN  (b[5] * CELL + b[6]) * (IF RecType(b) = 2 THEN SEG ELSE CELL * CELL)

\* The first cell that the data record at line j fills.
FirstCell(j) == translate((BaseAt(j) + Offset(file[j].bytes)) % Span)

\* The data records that cover a cell.
Covering(k) ==
  {j \in DOMAIN file : /\ RecType(file[j].bytes) = 0
                       /\ k >= FirstCell(j)
                       /\ k < FirstCell(j) + ByteCount(file[j].bytes)}

\* The image is the file's: while it is loaded, and when the first instruction
\* is fetched, each cell holds the byte of the last record that covers it, at
\* the base address then in force and through either window, or 0; and the
\* program starts at the address of the last start record, or at 0.
ImageIsRight ==
  file # <<>> \/ phase = "load" =>
    /\ \A k \in Index :
         core.mem[k] = IF Covering(k) = {} THEN 0
                       ELSE LET j == Latest(Covering(k))
                            IN  file[j].bytes[5 + k - FirstCell(j)]
    /\ LET starts == {j \in DOMAIN file : RecType(file[j].bytes) = 5}
           b      == file[Latest(starts)].bytes
           entry  == IF starts = {} THEN 0
                     ELSE ((b[5] * CELL + b[6]) * CELL + b[7]) * CELL + b[8]
       IN  /\ entry_point = entry
           /\ phase = "run" => core.regs[PC] = Even(entry)
=============================================================================
