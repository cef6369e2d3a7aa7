----------------------------- MODULE RegionProofs -----------------------------
(* What Region keeps true for any number of chunks, any payloads and any length *)
(* of the file.                                                                *)
EXTENDS Region, WellFoundedInduction, TLAPS

-------------------------------------------------------------------------------
(* The inductive invariant.  That a file can be trusted rests on the handle:    *)
(* its runs lie apart and inside the map, it knows what the header says of each *)
(* chunk whose payload is known, and the write in progress touches no run of    *)
(* another chunk.                                                              *)

\* The write in progress ends inside what the handle takes the file to be.
Bounds ==
  /\ open => size <= nsectors
  /\ op # NoWrite => /\ open /\ op.done <= Need[op.payload]
                     /\ op.at + Need[op.payload] <= nsectors

\* Every run is in the file as the handle sees it, and in its map.
Mapped ==
  \A c \in Chunks : off[c].count > 0 => Valid(off[c], nsectors) /\ Run(off[c]) \subseteq used

Apart == \A c, d \in Chunks : c # d => Run(off[c]) \cap Run(off[d]) = {}

\* Every run is in the file as it is, or will be when the write is done.
InFile ==
  \A c \in Chunks : off[c].count > 0 =>
    \/ off[c].sector + off[c].count <= size
    \/ /\ op # NoWrite /\ op.chunk = c
       /\ off[c].sector + off[c].count <= op.at + Need[op.payload]

\* What has been written, where, and that nobody else has his run there.
Writing ==
  op # NoWrite =>
    /\ last[op.chunk] = Unknown
    /\ off[op.chunk].sector = op.at
    /\ op.payload \in Small => Need[op.payload] <= off[op.chunk].count
    /\ op.done > 0 => op.at + op.done <= size
    /\ \A i \in 1..op.done : data[op.at + i - 1] = Part(op.payload, i)
    /\ \A c \in Chunks \ {op.chunk} : Span(op.at, Need[op.payload]) \cap Run(off[c]) = {}

\* The handle and the file agree on every chunk that no write has failed on.
Agreed == open => \A c \in Chunks : last[c] # Unknown => header[c] = off[c]

\* The header could be opened.
Filed ==
  /\ \A c \in Chunks : header[c].count > 0 => Valid(header[c], size)
  /\ \A c, d \in Chunks : c # d => Run(header[c]) \cap Run(header[d]) = {}

Trusted == Mapped /\ Apart /\ InFile /\ Writing /\ Agreed /\ Filed /\ Durable

IInv == TypeOK /\ Bounds /\ (~stray => Trusted)

-------------------------------------------------------------------------------
\* What an entry's byte makes of a length.
LEMMA Byte ==
  ASSUME NEW n \in Nat
  PROVE  n % BYTE \in 0..BYTE - 1 /\ n % BYTE <= n /\ (n < BYTE => n % BYTE = n)
BY RegionConstants

\* A set of sectors has a first one.
Earlier == {ss \in Nat \X Nat : ss[1] < ss[2]}

LEMMA First ==
  ASSUME NEW S \in SUBSET Nat, S # {}
  PROVE  \E s \in S : \A t \in S : s <= t
<1>1. OpToRel(<, Nat) = Earlier
  BY DEF OpToRel, Earlier
<1>2. IsWellFoundedOn(Earlier, Nat)
  BY <1>1, NatLessThanWellFounded
<1>3. PICK s \in S : \A t \in S : ~(<<t, s>> \in Earlier)
  BY <1>2, WFMin
<1>4. ASSUME NEW t \in S PROVE s <= t
  <2>1. s \in Nat /\ t \in Nat
    OBVIOUS
  <2>2. t < s => <<t, s>> \in Earlier
    BY <2>1 DEF Earlier
  <2>3. QED BY <1>3, <2>1, <2>2
<1>5. QED BY <1>4

\* A run that is found lies in the file or at its end, and takes no sector of the
\* map without the old run.
LEMMA Found ==
  ASSUME NEW c \in Chunks, NEW n \in Nat \ {0}, TypeOK, nsectors >= 2
  PROVE  /\ Place(c, n) \in 2..nsectors
         /\ Place(c, n) # nsectors => Place(c, n) + n <= nsectors
         /\ Span(Place(c, n), n) \cap Freed(c) = {}
<1>0. nsectors \in Nat /\ used \subseteq 0..nsectors - 1 /\ Freed(c) \subseteq used
  BY DEF TypeOK, Freed
<1>1. CASE Fits(c, n) = {}
  <2>1. Place(c, n) = nsectors
    BY <1>1 DEF Place
  <2>2. Span(nsectors, n) \cap Freed(c) = {}
    BY <1>0 DEF Span
  <2>3. QED BY <1>0, <2>1, <2>2
<1>2. CASE Fits(c, n) # {}
  <2>1. Fits(c, n) \in SUBSET Nat
    BY <1>0 DEF Fits
  <2>2. \E s \in Fits(c, n) : \A t \in Fits(c, n) : s <= t
    BY <1>2, <2>1, First
  <2>3. Place(c, n) \in Fits(c, n)
    BY <1>2, <2>2 DEF Place
  <2>4. QED BY <1>0, <2>3 DEF Fits
<1>3. QED BY <1>1, <1>2

\* The run found for one chunk is apart from the runs of all others.
LEMMA FoundApart ==
  ASSUME NEW c \in Chunks, NEW n \in Nat \ {0}, TypeOK, nsectors >= 2, Mapped, Apart
  PROVE  \A d \in Chunks \ {c} : Span(Place(c, n), n) \cap Run(off[d]) = {}
<1>1. SUFFICES ASSUME NEW d \in Chunks \ {c}
               PROVE  Run(off[d]) \subseteq Freed(c)
  BY Found
<1>2. off[d].count \in Nat /\ off[d].sector \in Nat
  BY DEF TypeOK, Entries
<1>3. Run(off[d]) \subseteq used
  BY <1>2 DEF Mapped, Run, Span
<1>4. Run(off[d]) \cap Run(off[c]) = {}
  BY DEF Apart
<1>5. QED BY <1>3, <1>4 DEF Freed

-------------------------------------------------------------------------------
(* Each action keeps the invariant.                                            *)

LEMMA Initial == Init => IInv
<1> SUFFICES ASSUME Init PROVE IInv
  OBVIOUS
<1>1. \A c \in Chunks : off[c] = NoEntry /\ header[c] = NoEntry /\ last[c] = Empty
  BY DEF Init
<1>2. TypeOK
  <2>1. NoEntry \in Entries
    BY RegionConstants DEF NoEntry, Entries
  <2>2. off \in [Chunks -> Entries] /\ header \in [Chunks -> Entries]
    BY <2>1 DEF Init
  <2>3. nsectors \in 0..MaxSectors /\ size \in 2..MaxSectors /\ used \subseteq 0..nsectors - 1
    BY RegionConstants DEF Init
  <2>4. data \in [0..MaxSectors - 1 -> [payload : Payloads \cup {Empty}, part : Nat]]
    BY DEF Init, Blank
  <2>5. QED BY <2>2, <2>3, <2>4 DEF Init, TypeOK
<1>3. Bounds
  BY DEF Init, Bounds
<1>4. Mapped /\ Apart /\ InFile
  BY <1>1 DEF Mapped, Apart, InFile, Run, Span, NoEntry
<1>5. Writing /\ Agreed
  BY DEF Init, Writing, Agreed
<1>6. Filed
  BY <1>1 DEF Filed, Run, Span, NoEntry
<1>7. Durable
  BY <1>1, RegionConstants DEF Durable, Small
<1>8. QED BY <1>2, <1>3, <1>4, <1>5, <1>6, <1>7 DEF IInv, Trusted

LEMMA OpenKeeps == IInv /\ Open => IInv'
<1> SUFFICES ASSUME IInv, Open PROVE IInv'
  OBVIOUS
<1> USE DEF IInv
<1>1. off' = header /\ nsectors' = size /\ open' = TRUE /\ op' = op
      /\ header' = header /\ data' = data /\ size' = size /\ last' = last /\ stray' = stray
  BY DEF Open, file, ghost
<1>2. op = NoWrite
  BY DEF Open, Bounds
<1>3. used' \subseteq 0..size - 1 /\ \A c \in Chunks : Valid(header[c], size) => Run(header[c]) \subseteq used'
  <2>1. \A c \in Chunks : Valid(header[c], size) => Run(header[c]) \subseteq 0..size - 1
    BY DEF TypeOK, Entries, Valid, Run, Span
  <2>2. {0, 1} \subseteq 0..size - 1
    BY DEF TypeOK
  <2>3. used' = {0, 1} \cup UNION {Run(header[c]) : c \in {d \in Chunks : Valid(header[d], size)}}
    BY DEF Open
  <2>4. QED BY <2>1, <2>2, <2>3
<1>4. TypeOK'
  BY <1>1, <1>3 DEF TypeOK
<1>5. Bounds'
  BY <1>1, <1>2 DEF Bounds, TypeOK
<1>6. ASSUME ~stray PROVE Trusted'
  <2> USE <1>6 DEF Trusted
  <2>1. Mapped'
    BY <1>1, <1>3 DEF Filed, Mapped, Valid, Run, Span
  <2>2. Apart' /\ Filed'
    BY <1>1 DEF Filed, Apart, Valid, Run, Span
  <2>3. InFile'
    BY <1>1 DEF Filed, InFile, Valid
  <2>4. Writing' /\ Agreed'
    BY <1>1, <1>2 DEF Writing, Agreed
  <2>5. Durable'
    BY <1>1 DEF Durable, ReadsAs, Valid
  <2>6. QED BY <2>1, <2>2, <2>3, <2>4, <2>5
<1>7. QED BY <1>1, <1>4, <1>5, <1>6

\* Without a handle there is little to keep.
LEMMA Closed ==
  ASSUME TypeOK, NoHandle, op' = NoWrite
  PROVE  /\ off' \in [Chunks -> Entries] /\ nsectors' \in 0..MaxSectors
         /\ used' \subseteq 0..nsectors' - 1
         /\ Bounds' /\ Mapped' /\ Apart' /\ InFile' /\ Writing' /\ Agreed'
<1>1. NoEntry \in Entries /\ NoEntry.count = 0 /\ NoEntry.sector = 0
  BY RegionConstants DEF NoEntry, Entries
<1>2. off' \in [Chunks -> Entries] /\ \A c \in Chunks : off'[c] = NoEntry
  BY <1>1 DEF NoHandle
<1>3. nsectors' \in 0..MaxSectors /\ used' \subseteq 0..nsectors' - 1
  BY RegionConstants DEF NoHandle
<1>4. Bounds' /\ Writing' /\ Agreed'
  BY DEF NoHandle, Bounds, Writing, Agreed
<1>5. Mapped' /\ InFile'
  BY <1>1, <1>2 DEF Mapped, InFile
<1>6. \A c \in Chunks : Run(off'[c]) = {}
  BY <1>1, <1>2 DEF Run, Span
<1>7. Apart'
  BY <1>6 DEF Apart, Run, Span
<1>8. QED BY <1>2, <1>3, <1>4, <1>5, <1>7

LEMMA CrashKeeps == IInv /\ Crash => IInv'
<1> SUFFICES ASSUME IInv, Crash PROVE IInv'
  OBVIOUS
<1> USE DEF IInv
<1>1. /\ NoHandle /\ op' = NoWrite
      /\ header' = header /\ data' = data /\ size' = size /\ last' = last /\ stray' = stray
  BY DEF Crash, file, ghost
<1>2. TypeOK'
  <2>1. open' \in BOOLEAN
    BY <1>1 DEF NoHandle
  <2>2. QED BY <1>1, <2>1, Closed DEF TypeOK
<1>3. ~stray => Filed' /\ Durable'
  BY <1>1 DEF Trusted, Filed, Durable, Valid, ReadsAs, Run, Span
<1>4. QED BY <1>1, <1>2, <1>3, Closed DEF Trusted

LEMMA CloseKeeps == IInv /\ Close => IInv'
<1> SUFFICES ASSUME IInv, Close PROVE IInv'
  OBVIOUS
<1> USE DEF IInv
<1>1. /\ open /\ op = NoWrite /\ NoHandle /\ op' = NoWrite
      /\ header' = off \/ header' = header
      /\ data' = data /\ size' = size /\ last' = last /\ stray' = stray
  BY DEF Close, ghost
<1>2. TypeOK'
  <2>1. open' \in BOOLEAN
    BY <1>1 DEF NoHandle
  <2>2. QED BY <1>1, <2>1, Closed DEF TypeOK
<1>3. ASSUME ~stray PROVE Filed' /\ Durable'
  <2> USE <1>3 DEF Trusted
  <2>1. CASE header' = header
    BY <1>1, <2>1 DEF Filed, Durable, Valid, ReadsAs, Run, Span
  <2>2. CASE header' = off
    <3>1. \A c \in Chunks : off[c].count > 0 => Valid(off[c], size)
      BY <1>1 DEF Mapped, InFile, Valid
    <3>2. Filed'
      BY <1>1, <2>2, <3>1 DEF Filed, Apart, Valid, Run, Span
    <3>3. \A c \in Chunks : last[c] # Unknown => header'[c] = header[c]
      BY <1>1, <2>2 DEF Agreed
    <3>4. \A c \in Chunks : last[c] \in Small \cup {Empty} => last[c] # Unknown
      BY RegionConstants DEF Small, Empty, Unknown
    <3>5. Durable'
      BY <1>1, <3>3, <3>4 DEF Durable, ReadsAs, Valid
    <3>6. QED BY <3>2, <3>5
  <2>3. QED BY <1>1, <2>1, <2>2
<1>4. QED BY <1>1, <1>2, <1>3, Closed DEF Trusted

\* A write that begins puts only its own chunk at risk.
LEMMA Begun ==
  ASSUME TypeOK, NEW c \in Chunks, UNCHANGED file, last' = [last EXCEPT ![c] = Unknown],
         Filed, Durable
  PROVE  Filed' /\ Durable'
<1>1. \A d \in Chunks : last'[d] # Unknown => d # c /\ last'[d] = last[d]
  BY DEF TypeOK
<1>2. \A d \in Chunks : last'[d] \in Small \cup {Empty} => last'[d] # Unknown
  BY RegionConstants DEF Small, Empty, Unknown
<1>3. Durable'
  BY <1>1, <1>2 DEF Durable, ReadsAs, Valid, file
<1>4. Filed'
  BY DEF Filed, Valid, Run, Span, file
<1>5. QED BY <1>3, <1>4

LEMMA OverwriteKeeps ==
  ASSUME NEW c \in Chunks, NEW p \in Payloads, IInv, Overwrite(c, p)
  PROVE  IInv'
<1> USE DEF IInv
<1>1. /\ open /\ op = NoWrite /\ InPlace(c, p) /\ UNCHANGED <<open, off, used, nsectors>>
      /\ op' = [chunk |-> c, payload |-> p, at |-> off[c].sector, done |-> 0]
      /\ last' = [last EXCEPT ![c] = Unknown]
      /\ UNCHANGED file /\ stray' = stray
  BY DEF Overwrite, Starts
<1>2. /\ off[c].sector \in Nat /\ off[c].count \in Nat /\ Need[p] \in Nat \ {0}
      /\ off[c].sector >= 2 /\ off[c].sector + Need[p] <= nsectors
      /\ Need[p] <= off[c].count
  BY <1>1, RegionConstants DEF TypeOK, Entries, InPlace, Valid
<1>3. TypeOK'
  <2>1. op' \in [chunk : Chunks, payload : Payloads, at : 2..MaxSectors - 1, done : Nat]
    BY <1>1, <1>2, RegionConstants DEF TypeOK
  <2>2. last' \in [Chunks -> Payloads \cup {Empty, Unknown}]
    BY <1>1 DEF TypeOK
  <2>3. QED BY <1>1, <2>1, <2>2 DEF TypeOK, file
<1>4. Bounds'
  BY <1>1, <1>2 DEF Bounds, file
<1>5. ASSUME ~stray PROVE Trusted'
  <2> USE <1>5 DEF Trusted
  <2>1. Mapped' /\ Apart'
    BY <1>1 DEF Mapped, Apart, Valid, Run, Span
  <2>2. InFile'
    BY <1>1 DEF InFile, file
  <2>3. Writing'
    <3>1. Span(off[c].sector, Need[p]) \subseteq Run(off[c])
      BY <1>2 DEF Span, Run
    <3>2. \A d \in Chunks \ {c} : Span(off[c].sector, Need[p]) \cap Run(off[d]) = {}
      BY <3>1 DEF Apart
    <3>3. last'[c] = Unknown
      BY <1>1 DEF TypeOK
    <3>4. QED BY <1>1, <1>2, <3>2, <3>3 DEF Writing, Run, Span
  <2>4. Agreed'
    BY <1>1 DEF Agreed, TypeOK, file
  <2>5. Filed' /\ Durable'
    BY <1>1, Begun
  <2>6. QED BY <2>1, <2>2, <2>3, <2>4, <2>5
<1>6. QED BY <1>1, <1>3, <1>4, <1>5

LEMMA RelocateKeeps ==
  ASSUME NEW c \in Chunks, NEW p \in Payloads, IInv, Relocate(c, p)
  PROVE  IInv'
<1> USE DEF IInv
<1> DEFINE at == Place(c, Need[p])
           n == Need[p]
           entry == [sector |-> at, count |-> n % BYTE]
<1>1. /\ open /\ op = NoWrite /\ open' = open /\ UNCHANGED file /\ stray' = stray
      /\ at + n <= MaxSectors
      /\ off' = [off EXCEPT ![c] = entry]
      /\ used' = Freed(c) \cup Span(at, n)
      /\ nsectors' = IF at = nsectors THEN at + n ELSE nsectors
      /\ op' = [chunk |-> c, payload |-> p, at |-> at, done |-> 0]
      /\ last' = [last EXCEPT ![c] = Unknown]
  BY DEF Relocate, Starts
<1>2. /\ n \in Nat \ {0} /\ nsectors \in Nat /\ nsectors >= 2 /\ nsectors <= MaxSectors
      /\ MaxSectors \in Nat /\ size \in Nat /\ size <= nsectors
  BY <1>1, RegionConstants DEF TypeOK, Bounds
<1>3. /\ at \in 2..nsectors
      /\ at # nsectors => at + n <= nsectors
      /\ Span(at, n) \cap Freed(c) = {}
  BY <1>2, Found
<1> HIDE DEF at, n
<1>4. nsectors' \in Nat /\ nsectors' >= nsectors /\ at + n <= nsectors' /\ nsectors' <= MaxSectors
  BY <1>1, <1>2, <1>3
<1>5. /\ entry \in Entries /\ entry.sector = at /\ entry.count \in Nat /\ entry.count <= n
      /\ n < BYTE => entry.count = n
  BY <1>2, <1>3, Byte DEF Entries
<1> HIDE DEF entry
<1>6. off'[c] = entry /\ \A d \in Chunks \ {c} : off'[d] = off[d]
  BY <1>1 DEF TypeOK
<1>7. TypeOK'
  <2>1. Freed(c) \subseteq used /\ used \subseteq 0..nsectors - 1
    BY DEF Freed, TypeOK
  <2>2. Span(at, n) \subseteq 0..nsectors' - 1
    <3>1. at \in Nat /\ at >= 2
      BY <1>2, <1>3
    <3>2. \A m \in Nat : at + n <= m => Span(at, n) \subseteq 0..m - 1
      BY <1>2, <3>1 DEF Span
    <3>3. QED BY <1>4, <3>2
  <2>3. 0..nsectors - 1 \subseteq 0..nsectors' - 1
    <3>1. \A m \in Nat : nsectors <= m => 0..nsectors - 1 \subseteq 0..m - 1
      BY <1>2
    <3>2. QED BY <1>2, <1>4, <3>1
  <2>4. op' \in [chunk : Chunks, payload : Payloads, at : 2..MaxSectors - 1, done : Nat]
    BY <1>1, <1>2, <1>3
  <2>5. last' \in [Chunks -> Payloads \cup {Empty, Unknown}]
    BY <1>1 DEF TypeOK
  <2>6. off' \in [Chunks -> Entries]
    BY <1>1, <1>5 DEF TypeOK
  <2>7. used' \subseteq 0..nsectors' - 1
    BY <1>1, <2>1, <2>2, <2>3
  <2>8. nsectors' \in 0..MaxSectors
    BY <1>2, <1>4
  <2>9. QED BY <1>1, <2>4, <2>5, <2>6, <2>7, <2>8 DEF TypeOK, file
<1>8. Bounds'
  BY <1>1, <1>2, <1>4 DEF Bounds, file, n
<1>9. ASSUME ~stray PROVE Trusted'
  <2> USE <1>9 DEF Trusted
  <2>1. Run(entry) \subseteq Span(at, n)
    BY <1>2, <1>3, <1>5 DEF Run, Span
  <2>2. \A d \in Chunks \ {c} : Span(at, n) \cap Run(off[d]) = {}
    BY <1>2, FoundApart DEF at, n
  <2>3. Mapped'
    <3>1. ASSUME NEW d \in Chunks \ {c}, off[d].count > 0
          PROVE  Valid(off[d], nsectors') /\ Run(off[d]) \subseteq used'
      <4>1. Valid(off[d], nsectors) /\ Run(off[d]) \subseteq used
        BY <3>1 DEF Mapped
      <4>2. Run(off[d]) \cap Run(off[c]) = {}
        BY DEF Apart
      <4>3. Run(off[d]) \subseteq Freed(c)
        BY <4>1, <4>2 DEF Freed
      <4>4. Valid(off[d], nsectors')
        BY <4>1, <1>2, <1>4 DEF Valid, TypeOK, Entries
      <4>5. QED BY <1>1, <4>3, <4>4
    <3>2. entry.count > 0 => Valid(entry, nsectors') /\ Run(entry) \subseteq used'
      BY <1>1, <1>2, <1>3, <1>4, <1>5, <2>1 DEF Valid
    <3>3. QED BY <1>6, <3>1, <3>2 DEF Mapped, Valid, Run, Span
  <2>4. Apart'
    <3>1. \A d \in Chunks \ {c} : Run(entry) \cap Run(off[d]) = {}
      BY <2>1, <2>2
    <3>2. QED BY <1>6, <3>1 DEF Apart, Run, Span
  <2>5. InFile'
    <3>1. \A d \in Chunks \ {c} : off[d].count > 0 => off[d].sector + off[d].count <= size
      BY <1>1 DEF InFile
    <3>2. op' # NoWrite /\ op'.chunk = c /\ entry.sector + entry.count <= op'.at + Need[op'.payload]
      <4>1. op'.payload # Empty /\ op'.payload = p /\ op'.at = at /\ op'.chunk = c
        BY <1>1, RegionConstants
      <4>2. QED BY <4>1, <1>2, <1>3, <1>5 DEF NoWrite, n
    <3>3. QED BY <1>1, <1>6, <3>1, <3>2 DEF InFile, file
  <2>6. Writing'
    <3>1. last'[c] = Unknown
      BY <1>1 DEF TypeOK
    <3>2. p \in Small => n <= entry.count
      BY <1>2, <1>5 DEF Small, n
    <3>3. \A d \in Chunks \ {c} : Span(at, n) \cap Run(off'[d]) = {}
      BY <1>6, <2>2 DEF Run, Span
    <3>4. QED BY <1>1, <1>5, <1>6, <3>1, <3>2, <3>3 DEF Writing, Run, Span, Small, n
  <2>7. Agreed'
    BY <1>1, <1>6 DEF Agreed, TypeOK, file
  <2>8. Filed' /\ Durable'
    BY <1>1, Begun
  <2>9. QED BY <2>3, <2>4, <2>5, <2>6, <2>7, <2>8
<1>10. QED BY <1>1, <1>7, <1>8, <1>9

LEMMA GrowFailsKeeps ==
  ASSUME NEW c \in Chunks, NEW p \in Payloads, IInv, GrowFails(c, p)
  PROVE  IInv'
<1> USE DEF IInv
<1>1. /\ open /\ op = NoWrite /\ UNCHANGED <<open, off, nsectors, op>> /\ UNCHANGED file
      /\ used' = Freed(c)
      /\ stray' = (stray \/ Valid(off[c], nsectors))
      /\ last' = [last EXCEPT ![c] = Unknown]
  BY DEF GrowFails
<1>2. TypeOK'
  <2>1. used' \subseteq 0..nsectors' - 1
    BY <1>1 DEF TypeOK, Freed
  <2>2. last' \in [Chunks -> Payloads \cup {Empty, Unknown}]
    BY <1>1 DEF TypeOK
  <2>3. stray' \in BOOLEAN
    BY <1>1 DEF TypeOK, Valid
  <2>4. QED BY <1>1, <2>1, <2>2, <2>3 DEF TypeOK, file
<1>3. Bounds'
  BY <1>1 DEF Bounds, file
<1>4. ASSUME ~stray' PROVE Trusted'
  <2>1. ~stray /\ ~Valid(off[c], nsectors) /\ used' = used
    BY <1>1, <1>4 DEF Freed
  <2> USE <2>1 DEF Trusted
  <2>2. Mapped' /\ Apart'
    BY <1>1 DEF Mapped, Apart, Valid, Run, Span
  <2>3. InFile'
    BY <1>1 DEF InFile, file
  <2>4. Writing' /\ Agreed'
    BY <1>1 DEF Writing, Agreed, TypeOK, file
  <2>5. Filed' /\ Durable'
    BY <1>1, Begun
  <2>6. QED BY <2>2, <2>3, <2>4, <2>5
<1>5. QED BY <1>1, <1>2, <1>3, <1>4

\* A sector of the write in progress is in no run of another chunk, so what is
\* read there stays.
LEMMA WriteSectorKeeps == IInv /\ WriteSector => IInv'
<1> SUFFICES ASSUME IInv, WriteSector PROVE IInv'
  OBVIOUS
<1> USE DEF IInv
<1> DEFINE s == op.at + op.done
           p == op.payload
<1>1. /\ op # NoWrite /\ op.done < Need[p]
      /\ data' = [data EXCEPT ![s] = Part(p, op.done + 1)]
      /\ size' = IF s < size THEN size ELSE s + 1
      /\ op' = [op EXCEPT !.done = @ + 1]
      /\ UNCHANGED <<open, off, used, nsectors>> /\ header' = header
      /\ last' = last /\ stray' = stray
  BY DEF WriteSector, handle, ghost
<1>2. /\ op \in [chunk : Chunks, payload : Payloads, at : 2..MaxSectors - 1, done : Nat]
      /\ open /\ op.at + Need[p] <= nsectors
      /\ nsectors \in Nat /\ nsectors <= MaxSectors /\ MaxSectors \in Nat
      /\ Need[p] \in Nat \ {0}
      /\ size \in Nat /\ size >= 2 /\ size <= nsectors
  BY <1>1, RegionConstants DEF TypeOK, Bounds
<1>3. /\ op' \in [chunk : Chunks, payload : Payloads, at : 2..MaxSectors - 1, done : Nat]
      /\ op'.chunk = op.chunk /\ op'.payload = p /\ op'.at = op.at /\ op'.done = op.done + 1
      /\ op' # NoWrite
  <2>1. Empty \notin Payloads
    BY RegionConstants
  <2>2. QED BY <1>1, <1>2, <2>1 DEF NoWrite
<1>4. s \in 0..MaxSectors - 1 /\ s \in Nat /\ s < nsectors /\ s >= 2
  BY <1>1, <1>2
<1>5. size' \in Nat /\ size' >= size /\ size' <= nsectors /\ size' >= s + 1
  BY <1>1, <1>2, <1>4
<1>6. /\ data'[s] = Part(p, op.done + 1)
      /\ \A t \in 0..MaxSectors - 1 : t # s => data'[t] = data[t]
  BY <1>1, <1>4 DEF TypeOK
<1> HIDE DEF s
<1>7. TypeOK'
  <2>1. data' \in [0..MaxSectors - 1 -> [payload : Payloads \cup {Empty}, part : Nat]]
    BY <1>1, <1>2, <1>4 DEF TypeOK, Part
  <2>2. size' \in 2..MaxSectors
    BY <1>2, <1>5
  <2>3. QED BY <1>1, <1>3, <2>1, <2>2 DEF TypeOK
<1>8. Bounds'
  BY <1>1, <1>2, <1>3, <1>5 DEF Bounds
<1>9. ASSUME ~stray PROVE Trusted'
  <2> USE <1>9 DEF Trusted
  <2>1. Mapped' /\ Apart'
    BY <1>1 DEF Mapped, Apart, Valid, Run, Span
  <2>2. InFile'
    <3>1. \A c \in Chunks : off[c].count \in Nat /\ off[c].sector \in Nat
      BY DEF TypeOK, Entries
    <3>2. QED BY <1>1, <1>2, <1>3, <1>5, <3>1 DEF InFile
  <2>3. Writing'
    <3>1. ASSUME NEW i \in 1..op.done + 1
          PROVE  data'[op.at + i - 1] = Part(p, i)
      <4>1. CASE i = op.done + 1
        BY <1>2, <1>6, <4>1 DEF s
      <4>2. CASE i # op.done + 1
        <5>1. i \in 1..op.done /\ op.at + i - 1 \in 0..MaxSectors - 1 /\ op.at + i - 1 # s
          BY <1>1, <1>2, <4>2 DEF s
        <5>2. data[op.at + i - 1] = Part(p, i)
          BY <1>1, <5>1 DEF Writing
        <5>3. QED BY <1>6, <5>1, <5>2
      <4>3. QED BY <4>1, <4>2
    <3>2. op'.at + op'.done <= size'
      BY <1>2, <1>3, <1>5 DEF s
    <3>3. /\ last'[op'.chunk] = Unknown /\ off'[op'.chunk].sector = op'.at
          /\ op'.payload \in Small => Need[op'.payload] <= off'[op'.chunk].count
      BY <1>1, <1>3 DEF Writing
    <3>4. \A d \in Chunks \ {op'.chunk} : Span(op'.at, Need[op'.payload]) \cap Run(off'[d]) = {}
      BY <1>1, <1>3 DEF Writing, Span, Run
    <3>5. \A i \in 1..op'.done : data'[op'.at + i - 1] = Part(op'.payload, i)
      BY <1>3, <3>1
    <3>6. QED BY <3>2, <3>3, <3>4, <3>5 DEF Writing, Small, Span, Run
  <2>4. Agreed'
    BY <1>1 DEF Agreed
  <2>5. Filed'
    <3>1. \A c \in Chunks : header[c].count \in Nat /\ header[c].sector \in Nat
      BY DEF TypeOK, Entries
    <3>2. \A c \in Chunks : Valid(header[c], size) => Valid(header[c], size')
      BY <1>2, <1>5, <3>1 DEF Valid
    <3>3. QED BY <1>1, <3>2 DEF Filed, Valid, Run, Span
  <2>6. Durable'
    <3>1. \A c \in Chunks : last'[c] = Empty => header'[c] = NoEntry
      BY <1>1 DEF Durable
    <3>2. ASSUME NEW c \in Chunks, last[c] \in Small
          PROVE  ReadsAs(header[c], size, last[c])'
      <4>1. c # op.chunk /\ header[c] = off[c]
        BY <1>1, <1>2, <3>2, RegionConstants DEF Writing, Agreed, Small
      <4>2. ReadsAs(header[c], size, last[c])
        BY <3>2 DEF Durable
      <4>3. Span(op.at, Need[p]) \cap Run(off[c]) = {}
        BY <1>1, <4>1 DEF Writing
      <4>4. s \in Span(op.at, Need[p])
        BY <1>1, <1>2 DEF Span, s
      <4>5. off[c].sector \in Nat /\ off[c].count \in Nat /\ Need[last[c]] \in Nat
        BY <3>2, RegionConstants DEF TypeOK, Entries, Small
      <4>6. ASSUME NEW i \in 1..Need[last[c]]
            PROVE  data'[header[c].sector + i - 1] = Part(last[c], i)
        <5>1. header[c].sector + i - 1 \in Run(off[c])
          BY <4>1, <4>2, <4>5 DEF ReadsAs, Valid, Run, Span
        <5>2. header[c].sector + i - 1 # s
          BY <4>3, <4>4, <5>1
        <5>3. header[c].sector + i - 1 \in 0..MaxSectors - 1
          BY <1>2, <4>1, <4>2, <4>5 DEF ReadsAs, Valid
        <5>4. QED BY <1>6, <4>2, <5>2, <5>3 DEF ReadsAs
      <4>7. Valid(header[c], size') /\ Need[last[c]] <= header[c].count
        BY <1>2, <1>5, <4>1, <4>2, <4>5 DEF ReadsAs, Valid
      <4>8. QED BY <1>1, <4>6, <4>7 DEF ReadsAs, Valid
    <3>3. QED BY <1>1, <3>1, <3>2 DEF Durable
  <2>7. QED BY <2>1, <2>2, <2>3, <2>4, <2>5, <2>6
<1>10. QED BY <1>1, <1>7, <1>8, <1>9

\* What was written is what the handle's entry tells.
LEMMA WriteHeaderKeeps == IInv /\ WriteHeader => IInv'
<1> SUFFICES ASSUME IInv, WriteHeader PROVE IInv'
  OBVIOUS
<1> USE DEF IInv
<1> DEFINE c == op.chunk
           p == op.payload
<1>1. /\ op # NoWrite /\ op.done = Need[p]
      /\ header' = off /\ op' = NoWrite
      /\ last' = [last EXCEPT ![c] = p]
      /\ UNCHANGED <<open, off, used, nsectors>>
      /\ data' = data /\ size' = size /\ stray' = stray
  BY DEF WriteHeader, handle
<1>2. /\ c \in Chunks /\ p \in Payloads /\ op.at \in Nat /\ op.at >= 2
      /\ Need[p] \in Nat \ {0} /\ open
  BY <1>1, RegionConstants DEF TypeOK, Bounds
<1>3. TypeOK'
  <2>1. last' \in [Chunks -> Payloads \cup {Empty, Unknown}]
    BY <1>1, <1>2 DEF TypeOK
  <2>2. QED BY <1>1, <2>1 DEF TypeOK
<1>4. Bounds'
  BY <1>1 DEF Bounds
<1>5. ASSUME ~stray PROVE Trusted'
  <2> USE <1>5 DEF Trusted
  <2>1. \A d \in Chunks : off[d].count \in Nat /\ off[d].sector \in Nat
    BY DEF TypeOK, Entries
  <2>2. \A d \in Chunks : off[d].count > 0 => off[d].sector + off[d].count <= size
    <3>1. op.at + Need[p] <= size
      BY <1>1, <1>2 DEF Writing
    <3>2. size \in Nat
      BY DEF TypeOK
    <3>3. QED BY <1>1, <1>2, <2>1, <3>1, <3>2 DEF InFile
  <2>3. Mapped' /\ Apart' /\ InFile'
    BY <1>1, <2>2 DEF Mapped, Apart, InFile, Valid, Run, Span
  <2>4. Writing' /\ Agreed'
    BY <1>1 DEF Writing, Agreed
  <2>5. Filed'
    BY <1>1, <2>2 DEF Filed, Mapped, Apart, Valid, Run, Span
  <2>6. Durable'
    <3>1. \A d \in Chunks \ {c} : last'[d] = last[d]
      BY <1>1 DEF TypeOK
    <3>2. ASSUME NEW d \in Chunks \ {c}
          PROVE  /\ last[d] \in Small => ReadsAs(off[d], size, last[d])
                 /\ last[d] = Empty => off[d] = NoEntry
      <4>1. last[d] \in Small \cup {Empty} => last[d] # Unknown
        BY RegionConstants DEF Small, Empty, Unknown
      <4>2. QED BY <1>2, <4>1 DEF Durable, Agreed
    <3>3. p \in Small => ReadsAs(off[c], size, p)
      <4>1. ASSUME p \in Small PROVE ReadsAs(off[c], size, p)
        <5>1. Need[p] <= off[c].count /\ off[c].sector = op.at
          BY <1>1, <4>1 DEF Writing
        <5>2. Valid(off[c], size)
          BY <1>2, <2>1, <2>2, <5>1 DEF Valid
        <5>3. \A i \in 1..Need[p] : data[off[c].sector + i - 1] = Part(p, i)
          BY <1>1, <5>1 DEF Writing
        <5>4. QED BY <5>1, <5>2, <5>3 DEF ReadsAs
      <4>2. QED BY <4>1
    <3>4. last'[c] = p /\ p # Empty
      BY <1>1, <1>2, RegionConstants DEF TypeOK
    <3>5. QED BY <1>1, <3>1, <3>2, <3>3, <3>4 DEF Durable, ReadsAs, Valid
  <2>7. QED BY <2>3, <2>4, <2>5, <2>6
<1>6. QED BY <1>1, <1>3, <1>4, <1>5

\* A failed write leaves its entry; either the file has its sectors, or it strays.
LEMMA WriteFailsKeeps == IInv /\ WriteFails => IInv'
<1> SUFFICES ASSUME IInv, WriteFails PROVE IInv'
  OBVIOUS
<1> USE DEF IInv
<1>1. /\ op # NoWrite /\ op' = NoWrite
      /\ stray' = (stray \/ Beyond(off[op.chunk]))
      /\ UNCHANGED <<open, off, used, nsectors>>
      /\ header' = header /\ data' = data /\ size' = size /\ last' = last
  BY DEF WriteFails, handle, file
<1>2. TypeOK'
  <2>1. stray' \in BOOLEAN
    BY <1>1 DEF TypeOK, Beyond
  <2>2. QED BY <1>1, <2>1 DEF TypeOK
<1>3. Bounds'
  BY <1>1 DEF Bounds
<1>4. ASSUME ~stray' PROVE Trusted'
  <2>1. ~stray /\ ~Beyond(off[op.chunk])
    BY <1>1, <1>4
  <2> USE <2>1 DEF Trusted
  <2>2. Mapped' /\ Apart' /\ Filed'
    BY <1>1 DEF Mapped, Apart, Filed, Valid, Run, Span
  <2>3. InFile'
    <3>1. \A c \in Chunks : off[c].count \in Nat /\ off[c].sector \in Nat /\ size \in Nat
      BY DEF TypeOK, Entries
    <3>2. QED BY <1>1, <2>1, <3>1 DEF InFile, Beyond
  <2>4. Writing' /\ Agreed'
    BY <1>1 DEF Writing, Agreed
  <2>5. Durable'
    BY <1>1 DEF Durable, ReadsAs, Valid
  <2>6. QED BY <2>2, <2>3, <2>4, <2>5
<1>5. QED BY <1>1, <1>2, <1>3, <1>4

LEMMA Stutters == IInv /\ UNCHANGED vars => IInv'
<1> SUFFICES ASSUME IInv, UNCHANGED vars PROVE IInv'
  OBVIOUS
<1>1. /\ UNCHANGED <<open, off, used, nsectors>> /\ op' = op
      /\ header' = header /\ data' = data /\ size' = size /\ last' = last /\ stray' = stray
  BY DEF vars, handle, file, ghost
<1>2. TypeOK' /\ Bounds'
  BY <1>1 DEF IInv, TypeOK, Bounds
<1>3. ASSUME ~stray PROVE Trusted'
  BY <1>1, <1>3 DEF IInv, Trusted, Mapped, Apart, InFile, Writing, Agreed, Filed, Durable,
                    ReadsAs, Valid, Run, Span
<1>4. QED BY <1>1, <1>2, <1>3 DEF IInv

LEMMA Inductive == IInv /\ [Next]_vars => IInv'
<1> SUFFICES ASSUME IInv, [Next]_vars PROVE IInv'
  OBVIOUS
<1>1. CASE Open BY <1>1, OpenKeeps
<1>2. CASE Close BY <1>2, CloseKeeps
<1>3. ASSUME NEW c \in Chunks, NEW p \in Payloads,
             Overwrite(c, p) \/ Relocate(c, p) \/ GrowFails(c, p)
      PROVE  IInv'
  BY <1>3, OverwriteKeeps, RelocateKeeps, GrowFailsKeeps
<1>4. CASE WriteSector BY <1>4, WriteSectorKeeps
<1>5. CASE WriteHeader BY <1>5, WriteHeaderKeeps
<1>6. CASE WriteFails BY <1>6, WriteFailsKeeps
<1>7. CASE Crash BY <1>7, CrashKeeps
<1>8. CASE UNCHANGED vars BY <1>8, Stutters
<1>9. QED BY <1>1, <1>2, <1>3, <1>4, <1>5, <1>6, <1>7, <1>8 DEF Next

LEMMA Invariance == Spec => []IInv
BY Initial, Inductive, PTL DEF Spec

\* Every variable has its type: no sector beyond the bounds is written, and the
\* map covers the sectors the handle believes in.
THEOREM TypeCorrect == Spec => []TypeOK
<1>1. IInv => TypeOK
  BY DEF IInv
<1>2. QED BY <1>1, Invariance, PTL

\* No two chunks share a sector and the map has the sectors of each, until a
\* failed write leaves an entry astray.
THEOREM RunsApart == Spec => [](~stray => RunsDisjoint)
<1>1. ASSUME IInv, ~stray PROVE RunsDisjoint
  <2>1. \A c \in Chunks : off[c].count \in Nat /\ off[c].sector \in Nat
    BY <1>1 DEF IInv, TypeOK, Entries
  <2>2. \A c \in Chunks : Run(off[c]) \subseteq used
    <3>1. ASSUME NEW c \in Chunks PROVE Run(off[c]) \subseteq used
      <4>1. CASE off[c].count > 0
        BY <1>1, <4>1 DEF IInv, Trusted, Mapped
      <4>2. CASE off[c].count = 0
        BY <2>1, <4>2 DEF Run, Span
      <4>3. QED BY <2>1, <4>1, <4>2
    <3>2. QED BY <3>1
  <2>3. \A c, d \in Chunks : c # d => Run(off[c]) \cap Run(off[d]) = {}
    BY <1>1 DEF IInv, Trusted, Apart
  <2>4. QED BY <2>2, <2>3 DEF RunsDisjoint
<1>2. QED BY <1>1, Invariance, PTL

\* Wherever the process dies, the file holds of every chunk what was last written
\* to it with success, until a failed write leaves an entry astray.
THEOREM FilesDurable == Spec => [](~stray => Durable)
<1>1. IInv => (~stray => Durable)
  BY DEF IInv, Trusted
<1>2. QED BY <1>1, Invariance, PTL

\* The open handle reads the same, also while a neighbour is being written.
THEOREM HandleReadsBack == Spec => [](~stray => ReadsBack)
<1>1. ASSUME IInv, ~stray, open, NEW c \in Chunks
      PROVE  /\ last[c] \in Small => ReadsAs(off[c], nsectors, last[c])
             /\ last[c] = Empty => off[c] = NoEntry
  <2>1. last[c] \in Small \cup {Empty} => header[c] = off[c]
    BY <1>1, RegionConstants DEF IInv, Trusted, Agreed, Small, Empty, Unknown
  <2>2. size <= nsectors /\ size \in Nat /\ nsectors \in Nat
    BY <1>1, RegionConstants DEF IInv, TypeOK, Bounds
  <2>3. off[c].count \in Nat /\ off[c].sector \in Nat
    BY <1>1 DEF IInv, TypeOK, Entries
  <2>4. Valid(off[c], size) => Valid(off[c], nsectors)
    BY <2>2, <2>3 DEF Valid
  <2>5. QED BY <1>1, <2>1, <2>4 DEF IInv, Trusted, Durable, ReadsAs
<1>2. IInv => (~stray => ReadsBack)
  BY <1>1 DEF ReadsBack
<1>3. QED BY <1>2, Invariance, PTL

-------------------------------------------------------------------------------
(* A region file implements a store of chunks.  What it holds of a chunk is a   *)
(* matter of what was last written: two payloads cannot be read from one run.   *)

Seen(x) == IF x \in Small \cup {Empty} THEN x ELSE Unknown

LEMMA Alike ==
  ASSUME IInv, ~stray, NEW c \in Chunks
  PROVE  Stored(c) = Seen(last[c])
<1>1. /\ last[c] \in Payloads \cup {Empty, Unknown}
      /\ Empty \notin Payloads /\ Unknown \notin Payloads /\ Empty # Unknown
  BY RegionConstants DEF IInv, TypeOK, Empty, Unknown
<1>2. CASE last[c] \in Small
  <2>1. ReadsAs(header[c], size, last[c]) /\ last[c] \in Payloads
    BY <1>2 DEF IInv, Trusted, Durable, Small
  <2>2. header[c] # NoEntry
    BY <2>1 DEF ReadsAs, Valid, NoEntry
  <2>3. ASSUME NEW p \in Payloads, ReadsAs(header[c], size, p)
        PROVE  p = last[c]
    <3>1. Need[p] \in Nat \ {0} /\ Need[last[c]] \in Nat \ {0}
      BY <2>1, RegionConstants
    <3>2. 1 \in 1..Need[p] /\ 1 \in 1..Need[last[c]]
      BY <3>1
    <3>3. Part(p, 1) = Part(last[c], 1)
      BY <2>1, <2>3, <3>2 DEF ReadsAs
    <3>4. QED BY <3>3 DEF Part
  <2>4. (CHOOSE p \in Payloads : ReadsAs(header[c], size, p)) = last[c]
    BY <2>1, <2>3
  <2>5. QED BY <1>1, <1>2, <2>2, <2>4 DEF Stored, Seen, Small
<1>3. CASE last[c] = Empty
  BY <1>1, <1>3 DEF IInv, Trusted, Durable, Stored, Seen
<1>4. CASE last[c] \notin Small \cup {Empty}
  BY <1>1, <1>4 DEF Stored, Seen
<1>5. QED BY <1>2, <1>3, <1>4

Mapping == [c \in Chunks |-> Stored(c)]
Told == [c \in Chunks |-> Seen(last[c])]

LEMMA SameStore == IInv /\ ~stray => Mapping = Told
BY Alike DEF Mapping, Told

LEMMA Stepwise ==
  ASSUME IInv, [Next]_vars, ~stray, ~stray'
  PROVE  (\E c \in Chunks : \/ Told' = [Told EXCEPT ![c] = Unknown]
                            \/ /\ Told[c] = Unknown
                               /\ \E p \in Small : Told' = [Told EXCEPT ![c] = p])
         \/ Told' = Told
<1>0. /\ last \in [Chunks -> Payloads \cup {Empty, Unknown}]
      /\ Unknown \notin Small \cup {Empty}
  BY RegionConstants DEF IInv, TypeOK, Small, Empty, Unknown
<1>1. CASE last' = last
  BY <1>1 DEF Told, Seen, Small
<1>2. ASSUME NEW c \in Chunks, last' = [last EXCEPT ![c] = Unknown]
      PROVE  Told' = [Told EXCEPT ![c] = Unknown]
  BY <1>0, <1>2 DEF Told, Seen, Small
<1>3. CASE WriteHeader
  <2>1. /\ op # NoWrite /\ last' = [last EXCEPT ![op.chunk] = op.payload]
    BY <1>3 DEF WriteHeader
  <2>2. op.chunk \in Chunks /\ op.payload \in Payloads
    BY <2>1 DEF IInv, TypeOK
  <2>3. last[op.chunk] = Unknown
    BY <2>1 DEF IInv, Trusted, Writing
  <2>4. Told[op.chunk] = Unknown
    BY <1>0, <2>2, <2>3 DEF Told, Seen
  <2>5. CASE op.payload \in Small
    <3>1. Told' = [Told EXCEPT ![op.chunk] = op.payload]
      BY <1>0, <2>1, <2>2, <2>5 DEF Told, Seen, Small
    <3>2. QED BY <2>2, <2>4, <2>5, <3>1
  <2>6. CASE op.payload \notin Small
    <3>1. op.payload # Empty
      BY <2>2, RegionConstants
    <3>2. Told' = Told
      BY <1>0, <2>1, <2>2, <2>3, <2>6, <3>1 DEF Told, Seen, Small
    <3>3. QED BY <3>2
  <2>7. QED BY <2>5, <2>6
<1>4. CASE Open \/ Close \/ WriteSector \/ WriteFails \/ Crash \/ UNCHANGED vars
  BY <1>1, <1>4 DEF Open, Close, WriteSector, WriteFails, Crash, ghost, vars
<1>5. ASSUME NEW c \in Chunks, NEW p \in Payloads,
             Overwrite(c, p) \/ Relocate(c, p) \/ GrowFails(c, p)
      PROVE  last' = [last EXCEPT ![c] = Unknown]
  BY <1>5 DEF Overwrite, Relocate, GrowFails, Starts
<1>6. QED BY <1>1, <1>2, <1>3, <1>4, <1>5 DEF Next

\* As long as no failed write leaves an entry astray, a region file is a store
\* of chunks: a write changes its own chunk only, in one step from Unknown to
\* what was written, whatever crashes come between.
THEOREM FilesAreStores == Spec /\ [](~stray) => ImplementsStore
<1>1. Init => Store!Init
  <2> SUFFICES ASSUME Init PROVE Store!Init
    OBVIOUS
  <2>1. IInv /\ ~stray
    BY Initial DEF Init
  <2>2. Told = [c \in Chunks |-> Empty]
    BY DEF Init, Told, Seen
  <2>3. QED BY <2>1, <2>2, SameStore DEF Store!Init, Mapping
<1>2. ASSUME IInv, IInv', [Next]_vars, ~stray, ~stray'
      PROVE  [Store!Next]_Mapping
  <2>1. Mapping = Told
    BY <1>2, SameStore
  <2>2. Mapping' = Told'
    <3>1. (IInv /\ ~stray => Mapping = Told)'
      BY SameStore, PTL
    <3>2. QED BY <1>2, <3>1
  <2>3. QED BY <1>2, <2>1, <2>2, Stepwise
        DEF Store!Next, Store!Begin, Store!Complete, Mapping
<1>3. QED BY <1>1, <1>2, Invariance, PTL DEF Spec, ImplementsStore, Store!Spec, Mapping

\* Where neither the disk nor the allocator fails, no entry goes astray.
LEMMA NeverStray ==
  ASSUME ~DiskFails, ~AllocFails
  PROVE  Spec => [](~stray)
<1>1. Init => ~stray
  BY DEF Init
<1>2. ~stray /\ [Next]_vars => ~stray'
  BY DEF Next, Open, Close, Overwrite, Relocate, Starts, GrowFails, WriteSector,
         WriteHeader, WriteFails, Crash, vars, ghost
<1>3. QED BY <1>1, <1>2, PTL DEF Spec

\* Crashes alone, at any moment, cannot take the file away from being a store.
THEOREM CrashSafe ==
  ASSUME ~DiskFails, ~AllocFails
  PROVE  Spec => ImplementsStore
BY NeverStray, FilesAreStores, PTL

===============================================================================
