------------------------------- MODULE W25qxx -------------------------------
(***************************************************************************)
(* The driver of the W25Q serial flash (driver/winbond/sm_w25qxx.c): pages, *)
(* sectors and blocks are erased, programmed, read and checked over SPI.    *)
(*                                                                          *)
(* A call is one step: there is one caller, so that Lock only matters when  *)
(* a call never returns.  The chip is modelled by what the driver's         *)
(* transfers do to it: a chip that is left selected takes every further     *)
(* byte for the clock of the read that is under way.                        *)
(***************************************************************************)
EXTENDS Integers, Sequences, SequencesExt

CONSTANTS PageSize, SectorSize, BlockSize,
          BlockCount,  \* of the blocks in use; the driver does not look at the chip's
          BufSize,     \* bytes that a check for emptiness reads at a time
          BusLimit,    \* 2^16: the length of a transfer is a uint16_t
          ChipIds,     \* last byte of the identification of the chips there are
          Lengths,     \* that calls are given
          MaxCalls     \* calls that erase, program or check a page

ASSUME W25Assumption ==
  /\ {PageSize, SectorSize, BlockSize, BlockCount, BufSize, BusLimit} \subseteq Nat \ {0}
  /\ SectorSize % PageSize = 0 /\ BlockSize % SectorSize = 0 /\ PageSize % BufSize = 0
  /\ MaxCalls \in Nat /\ Lengths \subseteq Nat /\ ChipIds \subseteq 0..255

VARIABLES flash,  \* the driver's record: is it up, and the chip's number of blocks
          id,     \* what the chip says it is
          chip,   \* the chip's memory and the state of its interface
          asked,  \* the memory as the calls made so far ask for it (history)
          calls
vars == <<flash, id, chip, asked, calls>>

Size == BlockCount * BlockSize
Addr == 0..Size - 1

\* A byte is the place in a buffer it came from.  Programming clears bits, so
\* that two different bytes leave a mixture of which only the lowest bit is known.
Buffers == {"odd", "even"}
ERASED == <<"erased", 0>>
NOISE == <<"noise", 0>>
LowBit(byte) == byte[1] \in {"erased", "odd", "mixed odd"}
And(x, y) ==
  CASE x = ERASED -> y
    [] x # ERASED /\ (y = ERASED \/ y = x) -> x
    [] OTHER -> <<IF LowBit(x) /\ LowBit(y) THEN "mixed odd" ELSE "mixed even", 0>>

-----------------------------------------------------------------------------
\* The chip.  chip.at is NONE, or the address the next clock of a read brings.
NONE == -1
Released(c) == [c EXCEPT !.at = NONE]
Selected(c) == c.at # NONE

\* The n bytes that a read at addr brings after a header of some bytes; it lacks
\* one of them if the command wants a dummy byte that is not sent.
Comes(c, header, addr, n, lacks) ==
  [i \in 1..n |->
     IF Selected(c) THEN c.mem[(c.at + header + i - 1) % Size]
     ELSE IF c.busy \/ i <= lacks THEN NOISE
     ELSE c.mem[(addr + i - 1 - lacks) % Size]]

EraseCmd(c, area) ==
  IF ~c.wel \/ c.busy THEN c
  ELSE [c EXCEPT !.mem = [a \in Addr |-> IF a \in area THEN ERASED ELSE @[a]],
                 !.wel = FALSE, !.busy = TRUE]

\* Programming goes round at the end of the page.
ProgramCmd(c, addr, data) ==
  LET page == addr - (addr % PageSize)
      place(i) == page + ((addr + i) % PageSize)
      last(a) == {i \in DOMAIN data : place(i) = a /\ \A j \in DOMAIN data : j > i => place(j) # a}
  IN IF ~c.wel \/ c.busy THEN c
     ELSE [c EXCEPT !.mem = [a \in Addr |-> IF last(a) = {} THEN @[a]
                                            ELSE And(@[a], data[CHOOSE i \in last(a) : TRUE])],
                    !.wel = FALSE, !.busy = TRUE]

-----------------------------------------------------------------------------
\* The parts of a call: every one of them selects the chip first, which a chip
\* that is selected does not notice, and the ones here release it in the end.
Wide == flash.blocks >= 512  \* ID >= W25Q256: addresses of four bytes
ShortHeader == IF Wide THEN 5 ELSE 4
LongHeader == ShortHeader + 1  \* with a dummy byte

\* Of a chip that reads on, the bytes of its memory are taken for its status.
MutWaitForWriteEnd(c) == Released(c)  \* does not wait

WaitForWriteEnd(c) ==
  IF ~Selected(c) THEN [c EXCEPT !.busy = FALSE]
  ELSE IF \E a \in Addr : ~LowBit(c.mem[a]) THEN Released(c)
  ELSE [c EXCEPT !.hung = TRUE]

WriteEnable(c) ==
  IF c.hung THEN c
  ELSE IF Selected(c) THEN Released(c)
  ELSE [c EXCEPT !.wel = ~c.busy]

Area(size, k) == k * size..(k + 1) * size - 1

EraseChip(c) == WaitForWriteEnd(EraseCmd(WriteEnable(c), Addr))
EraseSector(c, s) ==
  WaitForWriteEnd(EraseCmd(WriteEnable(WaitForWriteEnd(c)), Area(SectorSize, s)))
EraseBlock(c, b) ==
  WaitForWriteEnd(EraseCmd(WriteEnable(WaitForWriteEnd(c)), Area(BlockSize, b)))

\* The bytes of a buffer from one place on.
Data(buf, from, n) == [i \in 0..n - 1 |-> <<buf, from + i>>]

WriteByte(c, buf, a) ==
  WaitForWriteEnd(ProgramCmd(WriteEnable(WaitForWriteEnd(c)), a, Data(buf, 0, 1)))

MutWritePage(c, page, off, buf, from, n) ==  \* not cut at the end of the page
  LET m == IF n = 0 THEN PageSize - off ELSE n
  IN WaitForWriteEnd(ProgramCmd(WriteEnable(WaitForWriteEnd(c)),
                                page * PageSize + off, Data(buf, from, m)))

WritePage(c, page, off, buf, from, n) ==
  LET m == IF n + off > PageSize \/ n = 0 THEN PageSize - off ELSE n
  IN WaitForWriteEnd(ProgramCmd(WriteEnable(WaitForWriteEnd(c)),
                                page * PageSize + off, Data(buf, from, m)))

\* How much of a sector or block a call concerns, and the pages it goes through.
Concerned(size, off, n) ==
  LET m == IF n > size \/ n = 0 THEN size ELSE n
  IN IF off + m > size THEN size - off ELSE m

MutPieces(off, total) ==  \* the offset in the first page is kept for the others
  LET local == off % PageSize
      done(j) == IF j = 1 THEN 0 ELSE (j - 1) * PageSize - local
  IN [j \in 1..(local + total + PageSize - 1) \div PageSize |->
        [page |-> off \div PageSize + j - 1, local |-> local,
         done |-> done(j), left |-> total - done(j)]]

Pieces(off, total) ==
  LET local == off % PageSize
      done(j) == IF j = 1 THEN 0 ELSE (j - 1) * PageSize - local
  IN [j \in 1..(local + total + PageSize - 1) \div PageSize |->
        [page |-> off \div PageSize + j - 1, local |-> IF j = 1 THEN local ELSE 0,
         done |-> done(j), left |-> total - done(j)]]

PagesOf(size) == size \div PageSize

WriteSector(c, s, off, buf, from, n) ==
  IF off >= SectorSize THEN c
  ELSE FoldLeft(LAMBDA d, p : WritePage(d, s * PagesOf(SectorSize) + p.page, p.local,
                                        buf, from + p.done, p.left),
                c, Pieces(off, Concerned(SectorSize, off, n)))

WriteBlock(c, b, off, buf, n) ==
  IF off >= BlockSize THEN c
  ELSE FoldLeft(LAMBDA d, p : WritePage(d, b * PagesOf(BlockSize) + p.page, p.local,
                                        buf, p.done, p.left),
                c, Pieces(off, Concerned(BlockSize, off, n)))

\* The sectors that a stretch of memory lies in, with the part in each.
Spans(addr, len) ==
  LET room == SectorSize - (addr % SectorSize)
      first == IF len <= room THEN len ELSE room
      done(j) == IF j = 1 THEN 0 ELSE first + (j - 2) * SectorSize
  IN [j \in 1..1 + (len - first + SectorSize - 1) \div SectorSize |->
        [sector |-> (addr + done(j)) \div SectorSize, off |-> (addr + done(j)) % SectorSize,
         done |-> done(j),
         len |-> IF j = 1 THEN first
                 ELSE IF len - done(j) > SectorSize THEN SectorSize ELSE len - done(j)]]

Write(c, addr, buf, len) ==
  FoldLeft(LAMBDA d, p : WriteSector(d, p.sector, p.off, buf, p.done, p.len), c, Spans(addr, len))

-----------------------------------------------------------------------------
\* What the reads give.  Each of them releases the chip.
Lacks == IF Wide THEN 1 ELSE 0  \* the wide chips' command wants a dummy byte

ReadByte(c, a) == Comes(c, ShortHeader, a, 1, Lacks)
ReadBytes(c, a, n) == Comes(c, ShortHeader, a, n % BusLimit, Lacks)

MutReadPage(c, page, off, n) ==  \* without the dummy byte
  Comes(c, ShortHeader, page * PageSize + off, Concerned(PageSize, off, n), 1)

ReadPage(c, page, off, n) ==
  Comes(c, LongHeader, page * PageSize + off, Concerned(PageSize, off, n), 0)

ReadPages(c, page, off, total) ==
  FoldLeft(LAMBDA got, p : got \o ReadPage(IF p.done = 0 THEN c ELSE Released(c),
                                           page + p.page, p.local, p.left),
           <<>>, Pieces(off, total))

ReadSector(c, s, off, n) ==
  IF off >= SectorSize THEN <<>>
  ELSE ReadPages(c, s * PagesOf(SectorSize), off, Concerned(SectorSize, off, n))

ReadBlock(c, b, off, n) ==
  IF off >= BlockSize THEN <<>>
  ELSE ReadPages(c, b * PagesOf(BlockSize), off, Concerned(BlockSize, off, n))

Read(c, addr, len) ==
  FoldLeft(LAMBDA got, p : got \o ReadSector(IF p.done = 0 THEN c ELSE Released(c),
                                             p.sector, p.off, p.len),
           <<>>, Spans(addr, len))

\* The checks read by bufferfuls to the end of the page, sector or block: the
\* number of bytes to check is not looked at, and the last buffer may reach beyond.
MutChunks(size, off) == [j \in 1..size \div BufSize |-> (j - 1) * BufSize]  \* from the unit's start

Chunks(size, off) == [j \in 1..(size - off + BufSize - 1) \div BufSize |-> off + (j - 1) * BufSize]

Blank(bytes) == \A i \in DOMAIN bytes : bytes[i] = ERASED

IsEmptySector(c, s, off) ==
  LET chunks == Chunks(SectorSize, off)
      base == s * SectorSize
      turned(i) == IF i = off THEN c ELSE Released(c)
  IN /\ \A j \in DOMAIN chunks :
          Blank(Comes(turned(chunks[j]), LongHeader, base + chunks[j], BufSize, 0))
     /\ (SectorSize + off) % BufSize # 0 =>
          \A i \in chunks[Len(chunks)]..SectorSize - 1 :
             Blank(Comes(Released(c), LongHeader, base + i, 1, 0))

IsEmptyBlock(c, b, off) ==
  LET chunks == Chunks(BlockSize, off)
      base == b * BlockSize
      turned(i) == IF i = off THEN c ELSE Released(c)
  IN /\ \A j \in DOMAIN chunks :
          Blank(Comes(turned(chunks[j]), LongHeader, base + chunks[j], BufSize, 0))
     /\ (BlockSize + off) % BufSize # 0 =>
          \A i \in chunks[Len(chunks)]..BlockSize - 1 :
             Blank(Comes(Released(c), LongHeader, base + i, 1, 0))

\* The check of a page does not release the chip between its buffers, nor at its
\* end: the header of the next command takes bytes of the read.  Its last part
\* releases it, and sends one command byte too many.
ReadOn(c, addr) ==
  [c EXCEPT !.at = ((IF Selected(c) THEN @ + LongHeader ELSE addr) + BufSize) % Size]

Scan(c, page, off) ==
  FoldLeft(LAMBDA s, i : IF ~s.empty THEN s
                         ELSE [empty |-> Blank(Comes(s.chip, LongHeader, page * PageSize + i, BufSize, 0)),
                               chip |-> ReadOn(s.chip, page * PageSize + i)],
           [empty |-> TRUE, chip |-> c], Chunks(PageSize, off))

OneTooMany(a) == IF Wide THEN 786432 + a \div 65536 + 2 ELSE 720896 + a \div 256 + 1

IsEmptyPage(c, page, off) ==
  LET scan == Scan(c, page, off)
      last == Chunks(PageSize, off)[Len(Chunks(PageSize, off))]
  IN IF ~scan.empty \/ (PageSize + off) % BufSize = 0 THEN scan
     ELSE [empty |-> /\ Blank(Comes(scan.chip, LongHeader + 1, 0, 1, 0))
                     /\ \A i \in last + 1..PageSize - 1 :
                          Blank(Comes(Released(c), LongHeader + 1,
                                      OneTooMany(page * PageSize + i), 1, 0)),
           chip |-> Released(c)]

-----------------------------------------------------------------------------
\* The calls.  The chip of an earlier run holds other data, or nothing.
Init ==
  /\ flash = [up |-> FALSE, blocks |-> 0]
  /\ id \in ChipIds
  /\ \E mem \in {[a \in Addr |-> ERASED], [a \in Addr |-> <<"odd", a>>]} :
       /\ asked = mem
       /\ chip = [mem |-> mem, wel |-> FALSE, busy |-> FALSE, at |-> NONE, hung |-> FALSE]
  /\ calls = 0

BlockCountOf == [i \in 17..25 \cup {32} |-> IF i = 32 THEN 1024 ELSE 2 ^ (i - 16)]

W25Init ==
  /\ ~flash.up
  /\ id \in DOMAIN BlockCountOf
  /\ flash' = [up |-> TRUE, blocks |-> BlockCountOf[id]]
  /\ UNCHANGED <<id, chip, asked, calls>>

\* A call that does not return keeps Lock, for which every other one waits.
Calling == flash.up /\ ~chip.hung

Changes(c, wanted) ==
  /\ calls < MaxCalls
  /\ calls' = calls + 1
  /\ chip' = c
  /\ asked' = IF c.hung THEN asked ELSE wanted
  /\ UNCHANGED <<flash, id>>

\* What is asked for: the memory without an area, or with some bytes programmed.
Without(area) == [a \in Addr |-> IF a \in area THEN ERASED ELSE asked[a]]
With(buf, addr, n) ==
  [a \in Addr |-> IF a \in addr..addr + n - 1 THEN And(asked[a], <<buf, a - addr>>) ELSE asked[a]]

\* A chip that a page's check left selected does not hear that it is to be erased.
EraseChipCall ==
  Calling /\ Changes(EraseChip(chip), IF Selected(chip) THEN asked ELSE Without(Addr))
EraseSectorCall ==
  Calling /\ \E s \in 0..Size \div SectorSize - 1 :
               Changes(EraseSector(chip, s), Without(Area(SectorSize, s)))
EraseBlockCall ==
  Calling /\ \E b \in 0..BlockCount - 1 :
               Changes(EraseBlock(chip, b), Without(Area(BlockSize, b)))

\* Every place in every unit of a size.
Places(size) == (0..Size \div size - 1) \X (0..size - 1)

WriteByteCall ==
  Calling /\ \E buf \in Buffers, a \in Addr : Changes(WriteByte(chip, buf, a), With(buf, a, 1))
WritePageCall ==
  Calling /\ \E buf \in Buffers, u \in Places(PageSize), n \in Lengths :
               Changes(WritePage(chip, u[1], u[2], buf, 0, n),
                       With(buf, u[1] * PageSize + u[2], Concerned(PageSize, u[2], n)))
WriteSectorCall ==
  Calling /\ \E buf \in Buffers, u \in Places(SectorSize), n \in Lengths :
               Changes(WriteSector(chip, u[1], u[2], buf, 0, n),
                       With(buf, u[1] * SectorSize + u[2], Concerned(SectorSize, u[2], n)))
WriteBlockCall ==
  Calling /\ \E buf \in Buffers, u \in Places(BlockSize), n \in Lengths :
               Changes(WriteBlock(chip, u[1], u[2], buf, n),
                       With(buf, u[1] * BlockSize + u[2], Concerned(BlockSize, u[2], n)))

\* The run's calls have no length 0, which w25qxx_write takes for the rest of a
\* sector.
WriteCall ==
  Calling /\ \E buf \in Buffers, a \in Addr, n \in Lengths \ {0} :
               a + n <= Size /\ Changes(Write(chip, a, buf, n), With(buf, a, n))

\* A read or a check of a sector or block; what it answers is a matter of the state.
ReadCall == Calling /\ chip' = Released(chip) /\ UNCHANGED <<flash, id, asked, calls>>

IsEmptyPageCall ==
  Calling /\ \E u \in Places(PageSize) : Changes(IsEmptyPage(chip, u[1], u[2]).chip, asked)

Next ==
  \/ W25Init \/ EraseChipCall \/ EraseSectorCall \/ EraseBlockCall
  \/ WriteByteCall \/ WritePageCall \/ WriteSectorCall \/ WriteBlockCall \/ WriteCall
  \/ ReadCall \/ IsEmptyPageCall

Spec == Init /\ [][Next]_vars

-----------------------------------------------------------------------------
\* The memory is what the calls asked for, over the ends of pages, sectors and
\* blocks, whatever came before; and no call leaves the chip busy or open to a
\* write (w25qxx_WritePage, w25qxx_WriteSector, w25qxx_WriteBlock, w25qxx_write).
MemoryIsAsAsked == chip.mem = asked /\ ~chip.busy /\ ~chip.wel

\* What a read of n bytes has to give, no more than up to the end of its unit.
Wanted(addr, n) == [i \in 1..n |-> asked[addr + i - 1]]
WantedOf(size, u, n) ==
  Wanted(u[1] * size + u[2], IF n = 0 \/ n > size - u[2] THEN size - u[2] ELSE n)
Erased(from, to) == \A a \in from..to : asked[a % Size] = ERASED

\* Reading by addresses, sectors, blocks and pages gives the bytes of the memory.
ReadsAreTrue ==
  /\ \A a \in Addr : \A n \in Lengths \cap (1..Size - a) : Read(chip, a, n) = Wanted(a, n)
  /\ \A u \in Places(PageSize), n \in Lengths :
       ReadPage(chip, u[1], u[2], n) = WantedOf(PageSize, u, n)
  /\ \A u \in Places(SectorSize), n \in Lengths :
       ReadSector(chip, u[1], u[2], n) = WantedOf(SectorSize, u, n)
  /\ \A u \in Places(BlockSize), n \in Lengths :
       ReadBlock(chip, u[1], u[2], n) = WantedOf(BlockSize, u, n)

\* Reading bytes does so on the chips with addresses of three bytes, as far as
\* the bus carries it.
ByteReadsAreTrue ==
  ~Wide => \A a \in Addr :
    /\ ReadByte(chip, a) = Wanted(a, 1)
    /\ \A n \in Lengths \cap (1..Size - a) : n < BusLimit => ReadBytes(chip, a, n) = Wanted(a, n)

\* What a check finds empty is erased to its end; what it finds not empty is
\* not, or the bytes behind it that its last buffer reads are not.  Of a page this
\* holds for the last buffer only: behind each the check skips a header's bytes.
CheckIsTrue(empty, from, to) ==
  /\ empty => Erased(from, to)
  /\ ~empty => ~Erased(from, from + ((to - from) \div BufSize + 1) * BufSize - 1)
ChecksAreTrue ==
  /\ \A u \in Places(SectorSize) :
       CheckIsTrue(IsEmptySector(chip, u[1], u[2]), u[1] * SectorSize + u[2], (u[1] + 1) * SectorSize - 1)
  /\ \A u \in Places(BlockSize) :
       CheckIsTrue(IsEmptyBlock(chip, u[1], u[2]), u[1] * BlockSize + u[2], (u[1] + 1) * BlockSize - 1)
  /\ \A page \in 0..Size \div PageSize - 1 :
       LET from == (page + 1) * PageSize - BufSize
       IN CheckIsTrue(IsEmptyPage(chip, page, PageSize - BufSize).empty, from, from + BufSize - 1)

\* What the driver answers is true of what it was asked to store before; unless
\* a page's check has left the chip selected and nothing has been called since.
AnswersAreTrue ==
  Calling /\ ~Selected(chip) => ReadsAreTrue /\ ByteReadsAreTrue /\ ChecksAreTrue
=============================================================================
