-------------------------------- MODULE Region --------------------------------
(* Region files (core/src/region.c): a header of one entry a chunk, which says  *)
(* in which run of sectors its payload lies, and the sectors.  A handle keeps    *)
(* the header and a map of the used sectors in memory; minecpp_region_write_raw  *)
(* finds a run, writes the sectors one after the other and then the header.      *)
(* Between two of these writes the process may die or the disk may fail.         *)
(*                                                                              *)
(* A payload is its identity and the sectors it needs; timestamps, versions and  *)
(* bad arguments are left out.  One handle at a time has the file open.          *)
EXTENDS Integers

CONSTANTS Chunks, Payloads,
          Need,         \* sectors of each payload with its frame of 5 bytes
          BYTE,         \* numbers an entry can count (256)
          MaxSectors,   \* bound: length of the file
          DiskFails,    \* whether fseek or fwrite may fail
          AllocFails,   \* whether realloc may fail
          BeyondStray   \* bound: whether to follow a handle with stray entries

Empty == "empty"
Unknown == "unknown"

ASSUME RegionConstants ==
  /\ Need \in [Payloads -> Nat \ {0}]
  /\ BYTE \in Nat \ {0} /\ MaxSectors \in Nat /\ MaxSectors >= 2
  /\ Empty \notin Payloads /\ Unknown \notin Payloads
  /\ {DiskFails, AllocFails, BeyondStray} \subseteq BOOLEAN

VARIABLES
  open,      \* whether there is a handle
  off,       \* its entries
  used,      \* its map of the sectors: those in use
  nsectors,  \* the sectors it takes the file to have
  op,        \* the write in progress: chunk, payload, where, sectors written
  header,    \* the entries in the file
  data,      \* the sectors in the file
  size,      \* the sectors the file has
  last,      \* history: the payload last written with success, or Unknown
             \* since a write began
  stray      \* history: a failed write has left an entry for sectors that are
             \* not in the file, or not in the map

handle == <<open, off, used, nsectors>>
file   == <<header, data, size>>
ghost  == <<last, stray>>
vars   == <<handle, op, file, ghost>>

-------------------------------------------------------------------------------
NoEntry == [sector |-> 0, count |-> 0]
Entries == [sector : Nat, count : 0..BYTE - 1]

Span(s, n) == s..(s + n - 1)
Run(e) == Span(e.sector, e.count)

\* The entry lies in a file of n sectors, behind the header.
Valid(e, n) == e.count > 0 /\ e.sector >= 2 /\ e.sector + e.count <= n

Blank == [payload |-> Empty, part |-> 0]
Part(p, i) == [payload |-> p, part |-> i]

NoWrite == [chunk |-> Empty, payload |-> Empty, at |-> 0, done |-> 0]

\* minecpp_region_read_raw succeeds with p: the first sector of the run is the
\* first of p, the run is long enough and the other parts follow.
ReadsAs(e, n, p) ==
  /\ Valid(e, n) /\ Need[p] <= e.count
  /\ \A i \in 1..Need[p] : data[e.sector + i - 1] = Part(p, i)

NoHandle ==
  /\ open' = FALSE /\ off' = [c \in Chunks |-> NoEntry]
  /\ used' = {} /\ nsectors' = 0

Init ==
  /\ open = FALSE /\ off = [c \in Chunks |-> NoEntry] /\ used = {} /\ nsectors = 0
  /\ op = NoWrite
  /\ header = [c \in Chunks |-> NoEntry]
  /\ data = [s \in 0..MaxSectors - 1 |-> Blank] /\ size = 2
  /\ last = [c \in Chunks |-> Empty] /\ stray = FALSE

-------------------------------------------------------------------------------
(* minecpp_region_open and minecpp_region_close.                               *)

\* Entries beyond the end of the file are left out of the map.
Open ==
  /\ ~open /\ open' = TRUE
  /\ off' = header /\ nsectors' = size
  /\ used' = {0, 1} \cup UNION {Run(header[c]) : c \in {d \in Chunks : Valid(header[d], size)}}
  /\ UNCHANGED <<op, file, ghost>>

\* The header is flushed once more, and nobody hears of it if that fails.
Close ==
  /\ open /\ op = NoWrite
  /\ NoHandle
  /\ \/ header' = off
     \/ DiskFails /\ header' = header
  /\ UNCHANGED <<op, data, size, ghost>>

-------------------------------------------------------------------------------
(* minecpp_region_write_raw.                                                   *)

\* The run of c is long enough to be written over.
InPlace(c, p) == Valid(off[c], nsectors) /\ Need[p] <= off[c].count

\* The map once the old run of c is given up.
Freed(c) == IF Valid(off[c], nsectors) THEN used \ Run(off[c]) ELSE used

\* Mutant of Fits: the last sector of a run is not looked at.
FitsButLast(c, n) ==
  {s \in 2..nsectors : s + n <= nsectors /\ Span(s, n - 1) \cap Freed(c) = {}}

\* Where n free sectors in a row begin.
Fits(c, n) ==
  {s \in 2..nsectors : s + n <= nsectors /\ Span(s, n) \cap Freed(c) = {}}

\* The first fit, or the end of the file.
Place(c, n) ==
  IF Fits(c, n) = {} THEN nsectors
  ELSE CHOOSE s \in Fits(c, n) : \A t \in Fits(c, n) : s <= t

Followed == stray => BeyondStray

Starts(c, p, at) ==
  /\ op' = [chunk |-> c, payload |-> p, at |-> at, done |-> 0]
  /\ last' = [last EXCEPT ![c] = Unknown]
  /\ UNCHANGED <<open, file, stray>>

Overwrite(c, p) ==
  /\ open /\ op = NoWrite /\ Followed
  /\ InPlace(c, p)
  /\ Starts(c, p, off[c].sector)
  /\ UNCHANGED <<off, used, nsectors>>

\* An entry counts its sectors in a byte.
Relocate(c, p) ==
  LET at == Place(c, Need[p]) IN
  /\ open /\ op = NoWrite /\ Followed
  /\ ~InPlace(c, p) /\ at + Need[p] <= MaxSectors
  /\ off' = [off EXCEPT ![c] = [sector |-> at, count |-> Need[p] % BYTE]]
  /\ used' = Freed(c) \cup Span(at, Need[p])
  /\ nsectors' = IF at = nsectors THEN at + Need[p] ELSE nsectors
  /\ Starts(c, p, at)

\* The map cannot grow: NOMEM, but the old run has been given up.
GrowFails(c, p) ==
  /\ open /\ op = NoWrite /\ Followed
  /\ AllocFails /\ ~InPlace(c, p) /\ Fits(c, Need[p]) = {}
  /\ used' = Freed(c)
  /\ stray' = (stray \/ Valid(off[c], nsectors))
  /\ last' = [last EXCEPT ![c] = Unknown]
  /\ UNCHANGED <<open, off, nsectors, op, file>>

WriteSector ==
  LET s == op.at + op.done IN
  /\ op # NoWrite /\ op.done < Need[op.payload]
  /\ data' = [data EXCEPT ![s] = Part(op.payload, op.done + 1)]
  /\ size' = IF s < size THEN size ELSE s + 1
  /\ op' = [op EXCEPT !.done = @ + 1]
  /\ UNCHANGED <<handle, header, ghost>>

\* Mutant of WriteHeader: the header goes out before the sectors.
WriteHeaderFirst ==
  /\ op # NoWrite
  /\ header' = off
  /\ IF op.done = Need[op.payload]
     THEN op' = NoWrite /\ last' = [last EXCEPT ![op.chunk] = op.payload]
     ELSE UNCHANGED <<op, last>>
  /\ UNCHANGED <<handle, data, size, stray>>

WriteHeader ==
  /\ op # NoWrite /\ op.done = Need[op.payload]
  /\ header' = off
  /\ op' = NoWrite
  /\ last' = [last EXCEPT ![op.chunk] = op.payload]
  /\ UNCHANGED <<handle, data, size, stray>>

\* The entry is for sectors the file does not have.
Beyond(e) == e.count > 0 /\ e.sector + e.count > size

\* A write to the disk fails: the call returns IO and undoes nothing.
WriteFails ==
  /\ DiskFails /\ op # NoWrite
  /\ op' = NoWrite
  /\ stray' = (stray \/ Beyond(off[op.chunk]))
  /\ UNCHANGED <<handle, file, last>>

Crash ==
  /\ open
  /\ NoHandle /\ op' = NoWrite
  /\ UNCHANGED <<file, ghost>>

Next ==
  \/ Open \/ Close
  \/ \E c \in Chunks, p \in Payloads :
       Overwrite(c, p) \/ Relocate(c, p) \/ GrowFails(c, p)
  \/ WriteSector \/ WriteHeader \/ WriteFails
  \/ Crash

Spec == Init /\ [][Next]_vars

-------------------------------------------------------------------------------
TypeOK ==
  /\ open \in BOOLEAN /\ stray \in BOOLEAN
  /\ off \in [Chunks -> Entries] /\ header \in [Chunks -> Entries]
  /\ nsectors \in 0..MaxSectors /\ size \in 2..MaxSectors
  /\ used \subseteq 0..nsectors - 1
  /\ data \in [0..MaxSectors - 1 -> [payload : Payloads \cup {Empty}, part : Nat]]
  /\ \/ op = NoWrite
     \/ op \in [chunk : Chunks, payload : Payloads, at : 2..MaxSectors - 1, done : Nat]
  /\ last \in [Chunks -> Payloads \cup {Empty, Unknown}]

\* "Bitmap de setores" (region.c:140): no two chunks share a sector, and the
\* map has the sectors of every chunk, so that none is given away twice, but for
\* entries that went astray.
RunsDisjoint ==
  /\ \A c \in Chunks : Run(off[c]) \subseteq used \/ stray
  /\ \A c, d \in Chunks : c # d => Run(off[c]) \cap Run(off[d]) = {}

\* Payloads whose length an entry can tell.
Small == {p \in Payloads : Need[p] < BYTE}

\* Whoever opens the file next reads of every chunk what was last written to it
\* with success, whatever else is written, and wherever the process dies.  A
\* payload of 256 sectors or more is taken, and cannot be read (region.c:271).
Durable ==
  \A c \in Chunks :
    /\ last[c] \in Small => ReadsAs(header[c], size, last[c])
    /\ last[c] = Empty => header[c] = NoEntry

\* The handle reads the same, between any two writes ("Vizinho intacto",
\* tests/test_region.c:243).
ReadsBack ==
  open => \A c \in Chunks :
            /\ last[c] \in Small => ReadsAs(off[c], nsectors, last[c])
            /\ last[c] = Empty => off[c] = NoEntry

\* What the file holds of a chunk whose payload is known.
Stored(c) ==
  IF last[c] = Unknown \/ last[c] \in Payloads \ Small THEN Unknown
  ELSE IF header[c] = NoEntry THEN Empty
  ELSE CHOOSE p \in Payloads : ReadsAs(header[c], size, p)

\* A region file is a store of chunks.
Store == INSTANCE ChunkStore WITH Payloads <- Small, store <- [c \in Chunks |-> Stored(c)]
ImplementsStore == Store!Spec

===============================================================================
