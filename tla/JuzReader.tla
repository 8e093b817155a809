------------------------------ MODULE JuzReader ------------------------------
(***************************************************************************)
(* The juz endpoints of the Quran, juz.service.ts over juz-boundaries.ts:   *)
(* a juz is a range of verses in canonical order, read a page at a time;    *)
(* its size is walked over an index of the surahs that is cached for a      *)
(* week.  A verse is <<surah, number>>.  The mushaf and its division are    *)
(* any small ones; the code's are the real ones.                            *)
(***************************************************************************)
EXTENDS Naturals, FiniteSets, Sequences

CONSTANTS
    Surahs,         \* 1 .. n
    MaxVerses,      \* of a surah
    Limits          \* page sizes

ASSUME JuzAssumption ==
    /\ IsFiniteSet(Surahs) /\ Surahs # {} /\ Surahs = 1 .. Cardinality(Surahs)
    /\ MaxVerses \in Nat \ {0} /\ Limits \subseteq Nat \ {0}

VARIABLES
    sizes,          \* the mushaf: verses of each surah
    cuts,           \* the last verse of each juz
    seeded,         \* quran_verses: the surahs whose verses are there
    cache,          \* SURAH_INDEX_CACHE_KEY: verse counts, <<>> when empty
    reader          \* a getSurahIndex that has counted and not cached yet

juzVars == <<sizes, cuts, seeded, cache, reader>>

Mushaf == {<<s, v>> : s \in Surahs, v \in 1 .. MaxVerses} \intersect
          UNION {{<<s, v>> : v \in 1 .. sizes[s]} : s \in Surahs}
Verses == {v \in Mushaf : v[1] \in seeded}
Before(a, b) == a[1] < b[1] \/ (a[1] = b[1] /\ a[2] < b[2])
InOrder(set) ==
    [i \in 1 .. Cardinality(set) |-> CHOOSE v \in set : Cardinality({u \in set : Before(u, v)}) = i - 1]
LastVerse == InOrder(Mushaf)[Cardinality(Mushaf)]

JuzInit ==
    /\ sizes \in [Surahs -> 1 .. MaxVerses]
    /\ cuts \in {set \in SUBSET Mushaf : LastVerse \in set}
    /\ seeded = {} /\ cache = <<>> /\ reader = <<>>

\* JUZ_BOUNDARIES.
Boundary(k) ==
    LET ends == InOrder(cuts)
        rest == {v \in Mushaf : k = 1 \/ Before(ends[k - 1], v)}
    IN  [start |-> InOrder(rest)[1], end |-> ends[k]]
Division == {Boundary(k) : k \in 1 .. Cardinality(cuts)}

SurahIdsForJuz(juz) == juz.start[1] .. juz.end[1]

-----------------------------------------------------------------------------
(* The index and its cache                                                  *)

SeedSurah(s) ==
    /\ s \notin seeded
    /\ seeded' = seeded \union {s}
    /\ UNCHANGED <<sizes, cuts, cache, reader>>

Counts == [s \in Surahs |-> IF s \in seeded THEN sizes[s] ELSE 0]

\* getSurahIndex on a cold cache: the counts, and then the cache.
CountVerses ==
    /\ cache = <<>> /\ reader = <<>>
    /\ reader' = Counts
    /\ UNCHANGED <<sizes, cuts, seeded, cache>>

FillCache ==
    /\ reader # <<>>
    /\ cache' = reader /\ reader' = <<>>
    /\ UNCHANGED <<sizes, cuts, seeded>>

\* A week passes, or the instance that holds the cache ends.
CacheExpires ==
    /\ cache # <<>> /\ cache' = <<>>
    /\ UNCHANGED <<sizes, cuts, seeded, reader>>

JuzNext ==
    \/ \E s \in Surahs : SeedSurah(s)
    \/ CountVerses \/ FillCache \/ CacheExpires

JuzSpec == JuzInit /\ [][JuzNext]_juzVars

-----------------------------------------------------------------------------
(* The answers, given an index                                              *)

SumOf(f, set) ==
    LET sum[s \in SUBSET set] ==
            IF s = {} THEN 0 ELSE LET x == CHOOSE x \in s : TRUE IN f[x] + sum[s \ {x}]
    IN  sum[set]

\* verseCountOf: partial at both ends, whole in between.
VerseCountOf(juz, index) ==
    LET from(s) == IF s = juz.start[1] THEN juz.start[2] ELSE 1
        to(s) == IF s = juz.end[1] THEN juz.end[2] ELSE index[s]
    IN  SumOf([s \in SurahIdsForJuz(juz) |-> IF to(s) >= from(s) THEN to(s) - from(s) + 1 ELSE 0],
              SurahIdsForJuz(juz))

\* Faulty variant: the surahs strictly between are bounded by the verse numbers too.
RangeWhere_BoundsAll(juz) ==
    {v \in Verses : /\ juz.start[1] <= v[1] /\ v[1] <= juz.end[1]
                    /\ v[1] = juz.start[1] => v[2] >= juz.start[2]
                    /\ v[1] # juz.start[1] => v[2] <= juz.end[2]}

\* rangeWhere: the tail of the first surah, those between, the head of the last.
RangeWhere(juz) ==
    IF juz.start[1] = juz.end[1]
    THEN {v \in Verses : v[1] = juz.start[1] /\ juz.start[2] <= v[2] /\ v[2] <= juz.end[2]}
    ELSE {v \in Verses :
            \/ v[1] = juz.start[1] /\ v[2] >= juz.start[2]
            \/ juz.start[1] < v[1] /\ v[1] < juz.end[1]
            \/ v[1] = juz.end[1] /\ v[2] <= juz.end[2]}

TotalPages(juz, index, limit) ==
    LET pages == (VerseCountOf(juz, index) + limit - 1) \div limit
    IN  IF pages = 0 THEN 1 ELSE pages

\* getJuz: a page, each verse with its index in the juz.
Page(juz, page, limit) ==
    LET verses == InOrder(RangeWhere(juz))
        skip == (page - 1) * limit
    IN  [i \in {k \in 1 .. limit : skip + k <= Len(verses)} |->
            [verse |-> verses[skip + i], indexInJuz |-> skip + i]]

\* What a reader sees who turns all the pages of a juz.
Read(juz, index, limit) ==
    LET upTo[p \in 0 .. TotalPages(juz, index, limit)] ==
            IF p = 0 THEN <<>> ELSE upTo[p - 1] \o Page(juz, p, limit)
    IN  upTo[TotalPages(juz, index, limit)]

-----------------------------------------------------------------------------
\* Whoever reads a juz page by page sees each of its verses once, in order,
\* numbered through, and as many as the chooser announces; and the juz, one
\* after another, are the whole mushaf, wherever the division cuts a surah
\* (getJuz, juz.service.ts:162).  The index must have been counted when all the
\* verses were there: one that was counted while they were being seeded stays
\* cached for a week, and hides the last pages of a juz.
JuzWhole ==
    LET index == IF cache = <<>> THEN Counts ELSE cache IN
    seeded = Surahs /\ index = Counts =>
        /\ \A juz \in Division, limit \in Limits :
            LET seen == Read(juz, index, limit)
            IN  /\ Len(seen) = VerseCountOf(juz, index)
                /\ \A i \in DOMAIN seen :
                    /\ seen[i].indexInJuz = i
                    /\ seen[i].verse = InOrder(RangeWhere(juz))[i]
                /\ {seen[i].verse : i \in DOMAIN seen} =
                    {v \in Mushaf : ~ Before(v, juz.start) /\ ~ Before(juz.end, v)}
        /\ \A v \in Mushaf : Cardinality({juz \in Division : v \in RangeWhere(juz)}) = 1
=============================================================================
