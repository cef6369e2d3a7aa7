------------------------------ MODULE Columns ------------------------------
(* How a column becomes the data of a ChunkData or MapChunkBulk packet and   *)
(* is taken out of it again (ChunkDataBuild, ChunkDataApply, BulkBuild,      *)
(* BulkSplit).  A section is uniform: one block (id, meta) and one value of  *)
(* each light; a column maps the heights that have a section to it, and      *)
(* biomes is the one biome byte, or -1 for a column without biomes.          *)
EXTENDS Packets

BLOCKS == 4096
LIGHT_BYTES == 2048

(* 4096 little-endian words id << 4 | meta, then the two lights. *)
SectionNet(s) ==
    LET v    == 16 * s.id + s.meta
        low  == v % 256
        high == v \div 256
    IN  Join(IF low = high THEN Fill(low, 2 * BLOCKS)
             ELSE [i \in 1..2 * BLOCKS |-> <<IF i % 2 = 1 THEN low ELSE high, i>>],
             Join(Fill(s.light, LIGHT_BYTES), Fill(s.sky, LIGHT_BYTES)))

Mask(c) == SumSet({2^y : y \in DOMAIN c.sections})
RECURSIVE SectionsDownFrom(_, _), SectionsFrom(_, _)
SectionsDownFrom(c, y) ==
    IF y = 16 THEN <<>>
    ELSE IF y \notin DOMAIN c.sections THEN SectionsDownFrom(c, y + 1)
    ELSE Join(SectionsDownFrom(c, y + 1), SectionNet(c.sections[y]))
SectionsFrom(c, y) ==
    IF y = 16 THEN <<>>
    ELSE IF y \notin DOMAIN c.sections THEN SectionsFrom(c, y + 1)
    ELSE Join(SectionNet(c.sections[y]), SectionsFrom(c, y + 1))

SectionData(c) == SectionsFrom(c, 0)

(* NoData: the build fails, a full column has to have biomes. *)
NoData == <<>>
ChunkDataBuild(c, continuous) ==
    IF continuous /\ c.biomes = -1 THEN NoData
    ELSE [x |-> c.x, z |-> c.z, continuous |-> continuous, mask |-> Mask(c),
          data |-> IF continuous
                   THEN Join(SectionData(c), Fill(c.biomes, BIOME_BYTES))
                   ELSE SectionData(c)]

SectionOf(data) ==
    LET block == Cells(data, 2)
        v     == block[1] + 256 * block[2]
        At(n) == Cells(Drop(data, n), 1)[1]
    IN  [id |-> v \div 16, meta |-> v % 16,
         light |-> At(2 * BLOCKS), sky |-> At(2 * BLOCKS + LIGHT_BYTES)]

(* Onto a new Chunk; the data has to be exactly as long as the mask says. *)
ChunkDataApply(p) ==
    LET bits   == {y \in 0..15 : (p.mask \div 2^y) % 2 = 1}
        Nth(y) == Cardinality({b \in bits : b < y})
        secs   == Cardinality(bits) * SECTION_BYTES
        all    == IF p.continuous THEN secs + BIOME_BYTES ELSE secs
    IN  IF Size(p.data) # all THEN NoData
        ELSE [x |-> p.x, z |-> p.z,
              sections |-> [y \in bits |->
                              SectionOf(Drop(p.data, Nth(y) * SECTION_BYTES))],
              biomes |-> IF p.continuous
                         THEN Cells(Drop(p.data, secs), 1)[1] ELSE -1]

BulkBuild(cs, sky) ==
    IF cs = <<>> \/ Len(cs) > 64 \/ \E i \in DOMAIN cs : cs[i].biomes = -1
    THEN NoData
    ELSE [sky_light |-> sky,
          chunks |-> <<>> \o [i \in DOMAIN cs |->
                        [x |-> cs[i].x, z |-> cs[i].z, mask |-> Mask(cs[i]),
                         data |-> Join(SectionData(cs[i]),
                                       Fill(cs[i].biomes, BIOME_BYTES))]]]
BulkSplit(p) == [i \in DOMAIN p.chunks |-> With(p.chunks[i], "continuous", TRUE)]
=============================================================================
