------------------------------ MODULE CitationGate ------------------------------
(***************************************************************************)
(* The gate of the curated collections: verify-collection-citations.ts.  It *)
(* reads a collection, from the seed's file or from the database, checks    *)
(* its structure, resolves every item and every citation of it against the  *)
(* content, and ends with an exit code.  Content is seeded meanwhile.       *)
(*                                                                          *)
(* 0 and NoText are null.  A citation is a set of parts; which of its       *)
(* shapes the two regular expressions of the code take a part for is what   *)
(* is left of its spelling.                                                 *)
(***************************************************************************)
EXTENDS Naturals, Sequences, FiniteSets

CONSTANTS
    VerseCount,         \* of the one surah and of the one chapter
    MaxDefects,         \* what is wrong with the collection and the content
    MaxSeeded           \* rows that are seeded while the gate runs

ASSUME GateAssumption == VerseCount \in Nat \ {0, 1} /\ MaxDefects \in Nat /\ MaxSeeded \in Nat

-----------------------------------------------------------------------------
\* collection-vocabulary.ts, as much of it as the collections below use.
NoText == "none"

FAITH_IDS == {"islam", "hindu"}
OCCASION_CONFIG_KEYS == [nightly |-> {"clock", "anchor"}, evergreen |-> {"always"}]
OCCASION_TYPES == DOMAIN OCCASION_CONFIG_KEYS
REVIEW_STATUSES == {"draft", "self_reviewed", "scholar_approved", "flagged", "retired"}
SERVABLE_REVIEW_STATUSES == {"self_reviewed", "scholar_approved"}
GRADINGS == {"sahih", "hasan", "daif", "customary", "not_applicable"}
WEAK_GRADINGS == {"daif"}

VerseFields == {"chapterNumber", "verseStart", "verseEnd"}

REF_TYPE_FIELDS ==
    [surah |-> [required |-> {"surahId"},
                forbidden |-> VerseFields \union {"ayahStart", "ayahEnd", "hinduTextSlug"}],
     ayah_range |-> [required |-> {"surahId", "ayahStart"},
                     forbidden |-> VerseFields \union {"hinduTextSlug"}],
     dua |-> [required |-> {"refSlug"}, forbidden |-> {"surahId", "hinduTextSlug"}],
     allah_name |-> [required |-> {"refId"}, forbidden |-> {"surahId", "hinduTextSlug"}],
     hindu_verse_range |-> [required |-> {"hinduTextSlug", "chapterNumber", "verseStart"},
                            forbidden |-> {"surahId", "ayahStart", "ayahEnd"}],
     stotra |-> [required |-> {"refSlug"}, forbidden |-> {"surahId", "hinduTextSlug"}],
     text |-> [required |-> {}, forbidden |-> {"surahId", "hinduTextSlug"}]]

REF_TYPES == DOMAIN REF_TYPE_FIELDS

REF_TYPE_FAITH ==
    [surah |-> "islam", ayah_range |-> "islam", dua |-> "islam", allah_name |-> "islam",
     hindu_verse_range |-> "hindu", stotra |-> "hindu", text |-> "any"]

-----------------------------------------------------------------------------
\* Parts of a citation: "Bukhari 5017"; "2:255"; "Surah 18"; "Musnad (2/368)";
\* "Hanuman Chalisa"; and a book's name without a Latin letter.
HadithPart(book, number) == [shape |-> "hadith", book |-> book, number |-> number]
PartOf(shape) == [shape |-> shape, book |-> NoText, number |-> 0]

\* A number with no colon, after a Latin word that is no scripture's.
NamesAHadith(citation) == \E part \in citation : part.shape \in {"hadith", "volume"}

\* A word, in whatever script, and a number at the end.
ParseHadithCitations(citation) == {part \in citation : part.shape \in {"hadith", "foreign"}}

BlankItem ==
    [sequence |-> 1, refType |-> "text", surahId |-> 0, ayahStart |-> 0, ayahEnd |-> 0,
     hinduTextSlug |-> NoText, chapterNumber |-> 0, verseStart |-> 0, verseEnd |-> 0,
     refSlug |-> NoText, refId |-> NoText, repeatCount |-> 1, label |-> "item",
     citation |-> {PartOf("work")}, grading |-> NoText]

\* Items of every family of references, as a seed's author writes them.
GoodItems ==
    {[BlankItem EXCEPT !.refType = "surah", !.surahId = 1, !.label = "card",
                       !.citation = {HadithPart("bukhari", 1)}, !.grading = "sahih"],
     [BlankItem EXCEPT !.refType = "ayah_range", !.surahId = 1, !.ayahStart = 1, !.ayahEnd = 2,
                       !.citation = {HadithPart("nawawi", 1), PartOf("verse")},
                       !.grading = "hasan"],
     [BlankItem EXCEPT !.refType = "hindu_verse_range", !.hinduTextSlug = "gita",
                       !.chapterNumber = 1, !.verseStart = 1, !.verseEnd = 2,
                       !.citation = {PartOf("verse")}],
     [BlankItem EXCEPT !.refType = "dua", !.refSlug = "slug", !.refId = "id"],
     [BlankItem EXCEPT !.refType = "stotra", !.refSlug = "slug"],
     BlankItem}

GoodFaith(item) == IF REF_TYPE_FAITH[item.refType] = "hindu" THEN "hindu" ELSE "islam"

\* What a hand slips on in an item.
ItemSlips ==
    [sequence |-> {2}, refType |-> {"allah_name", "ayah_range", "playlist"}, surahId |-> {0, 115},
     ayahStart |-> {0, 2, VerseCount + 1}, ayahEnd |-> {0, 1, VerseCount + 1},
     hinduTextSlug |-> {NoText, "gita", "unknown"}, chapterNumber |-> {0},
     verseStart |-> {0, 2, VerseCount + 1}, verseEnd |-> {0, 1}, refSlug |-> {NoText, "typo"},
     repeatCount |-> {0}, label |-> {NoText}, grading |-> {NoText, "daif", "strong"},
     citation |-> {{}, {HadithPart("nasai", 1)}, {HadithPart("ahmad", 1)}, {PartOf("scripture")},
                   {HadithPart("bukhari", 9)}, {[PartOf("foreign") EXCEPT !.number = 1]},
                   {HadithPart("mustadrak", 1)}, {PartOf("volume")}}]

\* And in the collection: its fields, or how many items and collections there are.
HeadSlips ==
    [faithId |-> {"islam", "hindu", "other"}, occasionType |-> {"evergreen", "other"},
     occasionConfig |-> {{}, {"always"}, {NoText}}, provenance |-> {"other"},
     reviewStatus |-> {"draft", "retired", "other"}, extra |-> {1, 2, 3}, shape |-> {"no items", "twice"}]

\* What a database may lack, hold twice, or hold under another number.
CorpusSlips ==
    [verses |-> {{}, {1}, {2}, 2 .. VerseCount}, surahRow |-> {FALSE}, chapterRow |-> {FALSE},
     hindu |-> {[n \in 1 .. VerseCount |-> IF n = 1 THEN 2 ELSE 0],
                [n \in 1 .. VerseCount |-> IF n = 1 THEN 2 ELSE 1],
                [n \in 1 .. VerseCount |-> IF n = 1 THEN 0 ELSE 1]},
     slugs |-> {FALSE}, books |-> {{}, {"nawawi"}}, hadiths |-> {{}, {<<"nawawi", 1>>}}]

GoodCorpus ==
    [verses |-> 1 .. VerseCount, surahRow |-> TRUE, chapterRow |-> TRUE,
     hindu |-> [n \in 1 .. VerseCount |-> 1], slugs |-> TRUE,
     books |-> {"bukhari", "nasai", "nawawi"},
     hadiths |-> {"bukhari", "nasai", "nawawi"} \X {1}]

GoodHead(item) ==
    [faithId |-> GoodFaith(item), occasionType |-> "nightly", occasionConfig |-> {"clock"},
     provenance |-> "transmitted", reviewStatus |-> "self_reviewed", extra |-> 0, shape |-> "one"]

VARIABLES
    head,           \* the collection without its items
    item,           \* its first item
    corpus,         \* the content in the database
    defects,        \* slips so far
    arrivals,       \* rows seeded so far while the gate runs
    gate            \* the gate: its mode, phase, what is left to check, verdicts

gateVars == <<head, item, corpus, defects, arrivals, gate>>

NoGate == [phase |-> "off", mode |-> "none", strict |-> FALSE, todo |-> <<>>, books |-> {}, filled |-> {},
           verdicts |-> {}, own |-> 0, exit |-> 9]

GateInit ==
    /\ item \in GoodItems /\ head = GoodHead(item) /\ corpus = GoodCorpus
    /\ defects = 0 /\ arrivals = 0 /\ gate = NoGate

\* Rows go with the row they refer to.
WithParents(c) ==
    [c EXCEPT !.verses = {n \in @ : c.surahRow}, !.hadiths = {h \in @ : h[1] \in c.books},
              !.hindu = [n \in DOMAIN @ |-> IF c.chapterRow THEN @[n] ELSE 0]]

Slip ==
    /\ gate.phase = "off" /\ defects < MaxDefects
    /\ defects' = defects + 1
    /\ \/ /\ \E f \in DOMAIN ItemSlips : \E v \in ItemSlips[f] : item' = [item EXCEPT ![f] = v]
          /\ UNCHANGED <<head, corpus>>
       \/ /\ \E f \in DOMAIN HeadSlips : \E v \in HeadSlips[f] : head' = [head EXCEPT ![f] = v]
          /\ UNCHANGED <<item, corpus>>
       \/ /\ \E f \in DOMAIN CorpusSlips : \E v \in CorpusSlips[f] :
                corpus' = WithParents([corpus EXCEPT ![f] = v])
          /\ UNCHANGED <<item, head>>
    /\ UNCHANGED <<arrivals, gate>>

\* The collection's items: the one above, and a second one if there is one.
ItemsOf ==
    IF head.shape = "no items" THEN <<>>
    ELSE IF head.extra = 0 THEN <<item>>
    ELSE <<item, [BlankItem EXCEPT !.sequence = head.extra]>>

CollectionsRead == IF head.shape = "twice" THEN 2 ELSE 1

\* Unique indexes of the tables; the file has none.
Storable ==
    /\ CollectionsRead = 1
    /\ \A i, j \in DOMAIN ItemsOf : i # j => ItemsOf[i].sequence # ItemsOf[j].sequence

-----------------------------------------------------------------------------
NullOf(field) ==
    IF field \in {"hinduTextSlug", "refSlug", "refId", "grading", "label"} THEN NoText ELSE 0
IsNull(i, field) == i[field] = NullOf(field)

\* What checkStructure fails in a collection as a whole.
HeadFails ==
    \/ CollectionsRead = 2                     \* duplicate collection slug
    \/ head.faithId \notin FAITH_IDS
    \/ head.occasionType \notin OCCASION_TYPES
    \/ head.provenance = "other"
    \/ head.reviewStatus \notin REVIEW_STATUSES
    \/ /\ head.occasionConfig # {NoText} /\ head.occasionType \in OCCASION_TYPES
       /\ head.occasionConfig \intersect OCCASION_CONFIG_KEYS[head.occasionType] = {}
    \/ ItemsOf = <<>>
    \/ {ItemsOf[i].sequence : i \in DOMAIN ItemsOf} # DOMAIN ItemsOf

\* Faulty variant: a range is two numbers.
RangeBackwards_Never(start, end) == FALSE

\* "A backwards range resolves to nothing at runtime."
RangeBackwards(start, end) == start # 0 /\ end # 0 /\ end < start

\* Faulty variant: the columns of another family are ignored.
ColumnsWrong_MissingOnly(i) == \E f \in REF_TYPE_FIELDS[i.refType].required : IsNull(i, f)

ColumnsWrong(i) ==
    \/ \E f \in REF_TYPE_FIELDS[i.refType].required : IsNull(i, f)
    \/ \E f \in REF_TYPE_FIELDS[i.refType].forbidden : ~ IsNull(i, f)

\* What it fails in an item; of an unknown refType it looks at nothing else.
ItemFails(i) ==
    \/ i.refType \notin REF_TYPES
    \/ REF_TYPE_FAITH[i.refType] \notin {"any", head.faithId}
    \/ ColumnsWrong(i)
    \/ i.repeatCount < 1
    \/ i.label = NoText
    \/ i.citation = {}
    \/ i.grading \notin GRADINGS \union {NoText}
    \/ NamesAHadith(i.citation) /\ i.grading = NoText
    \/ i.grading \in WEAK_GRADINGS /\ i.label = "card"       \* the title has the label
    \/ RangeBackwards(i.ayahStart, i.ayahEnd) \/ RangeBackwards(i.verseStart, i.verseEnd)
    \/ i.surahId # 0 /\ i.surahId > 114

CheckStructure ==
    {v \in {"FAIL"} : HeadFails \/ \E n \in DOMAIN ItemsOf : ItemFails(ItemsOf[n])}
        \union {v \in {"WARN"} :
                    \/ head.reviewStatus \notin SERVABLE_REVIEW_STATUSES
                    \/ \E n \in DOMAIN ItemsOf :
                            /\ ItemsOf[n].refType \in REF_TYPES \ {"allah_name"}
                            /\ ItemsOf[n].refId # NoText /\ ItemsOf[n].refSlug = NoText}

-----------------------------------------------------------------------------
\* A query with a null bound is refused by the client library: the run ends.
EndOf(start, end) == IF end = 0 THEN start ELSE end

SurahVerdict(i) ==
    LET from == i.ayahStart
        to == EndOf(i.ayahStart, i.ayahEnd)
    IN  IF i.surahId # 1 \/ ~ corpus.surahRow THEN "FAIL"
        ELSE IF i.refType = "surah"
        THEN IF Cardinality(corpus.verses) = VerseCount THEN "PASS" ELSE "FAIL"
        ELSE IF to > VerseCount THEN "FAIL"
        ELSE IF from = 0 THEN "throws"
        ELSE IF Cardinality(corpus.verses \intersect (from .. to)) + from = to + 1 THEN "PASS" ELSE "FAIL"

\* The rows found in a range of a chapter, twins counted.
Rows(from, to) ==
    {row \in (1 .. VerseCount) \X {1, 2} : from <= row[1] /\ row[1] <= to /\ row[2] <= corpus.hindu[row[1]]}

\* Faulty variant: as many rows as verses.
HinduVerdict_CountsRows(i) ==
    IF Cardinality(Rows(i.verseStart, EndOf(i.verseStart, i.verseEnd))) + i.verseStart
            = EndOf(i.verseStart, i.verseEnd) + 1
    THEN "PASS" ELSE "FAIL"

HinduVerdict(i) ==
    LET to == EndOf(i.verseStart, i.verseEnd)
        found == Rows(i.verseStart, to)
    IN  IF i.hinduTextSlug = NoText THEN "throws"
        ELSE IF i.hinduTextSlug # "gita" THEN "FAIL"
        ELSE IF i.chapterNumber = 0 THEN "throws"
        ELSE IF ~ corpus.chapterRow THEN "FAIL"
        ELSE IF i.verseStart = 0 THEN "throws"
        ELSE IF /\ Cardinality(found) + i.verseStart = to + 1
                /\ Cardinality({row[1] : row \in found}) = Cardinality(found)
        THEN "PASS" ELSE "FAIL"

SlugVerdict(i) == IF i.refSlug = "slug" /\ corpus.slugs THEN "PASS" ELSE "FAIL"

ReferenceVerdict(i) ==
    IF i.refType \in {"surah", "ayah_range"} THEN SurahVerdict(i)
    ELSE IF i.refType = "hindu_verse_range" THEN HinduVerdict(i)
    ELSE IF i.refType \in {"dua", "stotra"} THEN SlugVerdict(i)
    ELSE "UNVERIFIABLE"

\* resolveBook: an alias, found in the table's names or not seeded; or a name
\* that contains what is left of the word.  "Sunan an-Nasa'i" does not contain
\* "nasai"; what is left of a word without Latin letters is contained in each.
ResolveBook(part, books) ==
    IF part.shape = "foreign" THEN IF books = {} THEN "unknown" ELSE CHOOSE b \in books : TRUE
    ELSE IF part.book \in {"bukhari", "nasai", "ahmad"}
    THEN IF part.book \in books \ {"nasai"} THEN part.book ELSE "not seeded"
    ELSE IF part.book \in books THEN part.book ELSE "unknown"

\* filled: the books that had hadiths when the books were read.
PartVerdict(part, books, filled) ==
    LET book == ResolveBook(part, books) IN
    IF book = "unknown" THEN "FAIL"
    ELSE IF book = "not seeded" \/ book \notin filled THEN "UNVERIFIABLE"
    ELSE IF <<book, part.number>> \in corpus.hadiths THEN "PASS" ELSE "FAIL"

-----------------------------------------------------------------------------
\* loadSeedFile: the rows a plain run of the seed would create.  Nothing of the
\* content is looked at.
ReadSeedFile(strict) ==
    /\ gate.phase = "off"
    /\ gate' = [gate EXCEPT !.mode = "file", !.strict = strict, !.phase = "report",
                  !.verdicts = CheckStructure \union {v \in {"UNVERIFIABLE"} : ItemsOf # <<>>}]
    /\ UNCHANGED <<head, item, corpus, defects, arrivals>>

\* openDatabaseCorpus and the collections; the books are read once.
ReadCollections(strict) ==
    /\ gate.phase = "off" /\ Storable
    /\ gate' = [gate EXCEPT !.mode = "database", !.strict = strict, !.phase = "items",
                  !.verdicts = CheckStructure, !.todo = ItemsOf, !.books = corpus.books,
                  !.filled = {h[1] : h \in corpus.hadiths}]
    /\ UNCHANGED <<head, item, corpus, defects, arrivals>>

\* "No collections in the database" is no failure.
ReadNoCollections ==
    /\ gate.phase = "off"
    /\ gate' = [gate EXCEPT !.mode = "empty", !.phase = "done", !.exit = 0]
    /\ UNCHANGED <<head, item, corpus, defects, arrivals>>

\* Any query may fail: "nothing was verified".
DatabaseFails ==
    /\ gate.phase \in {"off", "items"}
    /\ gate' = [gate EXCEPT !.mode = "database", !.phase = "done", !.exit = 2]
    /\ UNCHANGED <<head, item, corpus, defects, arrivals>>

\* One item; each of its verdicts is one query's of content that may change.
CheckItem ==
    /\ gate.phase = "items" /\ gate.todo # <<>>
    /\ LET i == Head(gate.todo)
           reference == ReferenceVerdict(i)
       IN  gate' = IF reference = "throws"
                   THEN [gate EXCEPT !.phase = "done", !.exit = 2]
                   ELSE [gate EXCEPT !.todo = Tail(@),
                          !.verdicts = @ \union {reference} \union
                              {PartVerdict(part, gate.books, gate.filled) :
                                   part \in ParseHadithCitations(i.citation)}]
    /\ UNCHANGED <<head, item, corpus, defects, arrivals>>

AllChecked ==
    /\ gate.phase = "items" /\ gate.todo = <<>>
    /\ gate' = [gate EXCEPT !.phase = "report"]
    /\ UNCHANGED <<head, item, corpus, defects, arrivals>>

\* Faulty variant: what can not be checked is fine, strict or not.
Blocking_Failures(verdicts, strict) == "FAIL" \in verdicts

Blocking(verdicts, strict) ==
    \/ "FAIL" \in verdicts
    \/ strict /\ {"WARN", "UNVERIFIABLE"} \intersect verdicts # {}

Report ==
    /\ gate.phase = "report"
    /\ LET own == IF Blocking(gate.verdicts, gate.strict) THEN 1 ELSE 0
       IN  gate' = IF gate.mode = "file"
                   THEN [gate EXCEPT !.phase = "done", !.exit = own]
                   ELSE [gate EXCEPT !.phase = "content", !.own = own]
    /\ UNCHANGED <<head, item, corpus, defects, arrivals>>

\* runHadithContentGate has an exit code of its own; 2 of it is 1 here.
ContentGate(content) ==
    /\ gate.phase = "content"
    /\ gate' = [gate EXCEPT !.phase = "done",
                  !.exit = IF gate.own = 0 /\ content = 0 THEN 0 ELSE 1]
    /\ UNCHANGED <<head, item, corpus, defects, arrivals>>

\* A seed goes on meanwhile.
SeedRow ==
    /\ gate.phase \in {"items", "report", "content"} /\ arrivals < MaxSeeded
    /\ arrivals' = arrivals + 1
    /\ \/ \E n \in (1 .. VerseCount) \ corpus.verses :
            corpus.surahRow /\ corpus' = [corpus EXCEPT !.verses = @ \union {n}]
       \/ \E n \in 1 .. VerseCount :
            corpus.chapterRow /\ corpus.hindu[n] = 0 /\ corpus' = [corpus EXCEPT !.hindu[n] = 1]
       \/ \E b \in GoodCorpus.books \ corpus.books :
            corpus' = [corpus EXCEPT !.books = @ \union {b}]
       \/ \E h \in GoodCorpus.hadiths \ corpus.hadiths :
            h[1] \in corpus.books /\ corpus' = [corpus EXCEPT !.hadiths = @ \union {h}]
    /\ UNCHANGED <<head, item, defects, gate>>

GateNext ==
    \/ Slip \/ SeedRow \/ ReadNoCollections \/ DatabaseFails
    \/ CheckItem \/ AllChecked \/ Report
    \/ \E strict \in BOOLEAN : ReadSeedFile(strict) \/ ReadCollections(strict)
    \/ \E content \in 0 .. 2 : ContentGate(content)

GateSpec == GateInit /\ [][GateNext]_gateVars

-----------------------------------------------------------------------------
\* Every verse of the item is there, once, and there is one.
Recitable(i) ==
    LET lastAyah == IF i.ayahEnd = 0 THEN i.ayahStart ELSE i.ayahEnd
        lastVerse == IF i.verseEnd = 0 THEN i.verseStart ELSE i.verseEnd
    IN  /\ i.refType = "surah" => 1 .. VerseCount \subseteq corpus.verses
        /\ i.refType = "ayah_range" =>
                i.ayahStart \in 1 .. lastAyah /\ i.ayahStart .. lastAyah \subseteq corpus.verses
        /\ i.refType = "hindu_verse_range" =>
                /\ i.verseStart \in 1 .. lastVerse /\ lastVerse <= VerseCount
                /\ \A n \in i.verseStart .. lastVerse : corpus.hindu[n] = 1
        /\ i.refType \in {"dua", "stotra"} => i.refSlug = "slug" /\ corpus.slugs

\* "A seed that fails citation verification does not merge" (the file's head):
\* when the gate has let a collection of the database pass, its items are in an
\* order without gaps, and each of them is read whole, every verse once, by a
\* family's own columns; a hadith cited from a book that is seeded is in that
\* book; and under --strict nothing was passed that could not be checked or
\* that would not be served.  A word without Latin letters is taken for any book.
GatePassedIsSound ==
    gate.phase = "done" /\ gate.exit = 0 /\ gate.mode = "database" =>
        /\ \A n \in DOMAIN ItemsOf : \E m \in DOMAIN ItemsOf : ItemsOf[m].sequence = n
        /\ \A n \in DOMAIN ItemsOf : Recitable(ItemsOf[n])
        /\ \A n \in DOMAIN ItemsOf : \A f \in {"surahId", "hinduTextSlug"} :
               ~ IsNull(ItemsOf[n], f) => f \in REF_TYPE_FIELDS[ItemsOf[n].refType].required
        /\ \A part \in item.citation : part.shape = "hadith" =>
               \/ <<part.book, part.number>> \in corpus.hadiths
               \/ ~ gate.strict /\ part.book \notin gate.filled \ {"nasai"}
        /\ gate.strict => head.reviewStatus \in SERVABLE_REVIEW_STATUSES
=============================================================================
