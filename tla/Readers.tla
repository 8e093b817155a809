-------------------------------- MODULE Readers --------------------------------
(***************************************************************************)
(* How a reader finds the way: from verse to verse and from recording to     *)
(* recording of the Quran (quran.service.ts), from page to page and from     *)
(* hadith to hadith (hadiths.service.ts), and the hadith of the day, while   *)
(* rows are seeded.                                                          *)
(***************************************************************************)
EXTENDS Integers, FiniteSets

CONSTANTS
    LastSurah,      \* 114
    MostVerses,     \* verses of a surah
    Scripts,        \* of a verse: "simple" and those that may be missing
    Volumes,        \* hadith books
    Premium,        \* those that are not free
    LastNumber,     \* hadith numbers of a book
    PageLimits,
    DayHours,       \* for how long the hadith of the day is kept
    LastHour

ASSUME ReadersAssumption ==
    /\ {LastSurah, MostVerses, LastNumber, DayHours, LastHour} \subseteq Nat \ {0}
    /\ IsFiniteSet(Volumes) /\ Premium \subseteq Volumes /\ PageLimits \subseteq Nat \ {0}
    /\ "simple" \in Scripts /\ Scripts \subseteq {"simple", "uthmani", "indopak"}

VARIABLES
    view,           \* what is read in this behaviour
    verseCounts,    \* surah -> quran_surahs.verse_count
    written,        \* the scripts in which a verse is stored
    shelf,          \* the hadiths stored: [book, number]
    paging,         \* a reader who pages
    daily,          \* the request for the hadith of the day, and the cache
    hour

readerVars == <<view, verseCounts, written, shelf, paging, daily, hour>>

-----------------------------------------------------------------------------
(* The Quran.                                                              *)

QuranVerses == {at \in (1 .. LastSurah) \X (1 .. MostVerses) : at[2] <= verseCounts[at[1]]}
Nowhere == <<0, 0>>

PrevVerse(at) ==
    IF at[2] > 1 THEN <<at[1], at[2] - 1>>
    ELSE IF at[1] > 1 THEN <<at[1] - 1, verseCounts[at[1] - 1]>>
    ELSE Nowhere

\* Faulty variant: a surah is taken to be as long as the first.
NextVerse_FirstSurah(at) ==
    IF at[2] < verseCounts[1] THEN <<at[1], at[2] + 1>>
    ELSE IF at[1] < LastSurah THEN <<at[1] + 1, 1>>
    ELSE Nowhere

\* getVerse: context.next; over the end of a surah to the next one's first.
NextVerse(at) ==
    IF at[2] < verseCounts[at[1]] THEN <<at[1], at[2] + 1>>
    ELSE IF at[1] < LastSurah THEN <<at[1] + 1, 1>>
    ELSE Nowhere

SumUpTo[n \in 0 .. LastSurah] == IF n = 0 THEN 0 ELSE SumUpTo[n - 1] + verseCounts[n]

\* Faulty variant: the surah itself is counted with those before it.
Recording_Inclusive(at) == SumUpTo[at[1]] + at[2]

\* getSurahAudioUrls: the number of the file.
Recording(at) == SumUpTo[at[1] - 1] + at[2]

\* resolveArabicText.
ResolveArabicText(script) ==
    IF script = "indopak" /\ "indopak" \in written THEN "indopak"
    ELSE IF script \in {"indopak", "uthmani"} /\ "uthmani" \in written THEN "uthmani"
    ELSE "simple"

-----------------------------------------------------------------------------
(* Hadiths.                                                                *)

Narration(b, n) == [book |-> b, number |-> n]
FreeVolumes == Volumes \ Premium

\* Faulty variant: the whole shelf is everyone's.
Served_All(scope, premiumUser) == IF scope = "all" THEN shelf ELSE {x \in shelf : x.book = scope}

\* getHadiths: where; a premium book is refused to a reader who has not paid.
Served(scope, premiumUser) ==
    IF scope = "all" THEN {x \in shelf : premiumUser \/ x.book \in FreeVolumes}
    ELSE {x \in shelf : x.book = scope /\ (premiumUser \/ scope \in FreeVolumes)}

\* ORDER BY hadith_number: rows of one number come in any order.
Orders(rows) ==
    {rank \in [rows -> 1 .. Cardinality(rows)] :
        \A x, y \in rows : x # y => rank[x] # rank[y] /\ (x.number < y.number => rank[x] < rank[y])}

\* Faulty variant: pages are counted from nought.
SkipOf_Page(page, limit) == page * limit

SkipOf(page, limit) == (page - 1) * limit

PageCount(rows, limit) == (Cardinality(rows) + limit - 1) \div limit

Unread == [scope |-> "all", premiumUser |-> FALSE, limit |-> 1, page |-> 0, pages |-> 1,
           shown |-> {}, twice |-> FALSE, undisturbed |-> TRUE]

StartPaging(scope, premiumUser, limit) ==
    /\ view = "pages" /\ paging.page = 0
    /\ paging' = [Unread EXCEPT !.scope = scope, !.premiumUser = premiumUser, !.limit = limit, !.page = 1]
    /\ UNCHANGED <<view, verseCounts, written, shelf, daily, hour>>

ReadPage ==
    LET rows == Served(paging.scope, paging.premiumUser)
        skip == SkipOf(paging.page, paging.limit)
    IN  /\ paging.page \in 1 .. paging.pages
        /\ \E rank \in Orders(rows) :
            LET page == {x \in rows : rank[x] \in skip + 1 .. skip + paging.limit}
            IN  paging' = [paging EXCEPT !.page = @ + 1, !.pages = PageCount(rows, paging.limit),
                                         !.shown = @ \union page,
                                         !.twice = @ \/ paging.shown \intersect page # {}]
        /\ UNCHANGED <<view, verseCounts, written, shelf, daily, hour>>

\* getHadith: context, from what the book has.
PrevHadith(x) ==
    LET before == {y \in shelf : y.book = x.book /\ y.number < x.number}
    IN  {y \in before : \A z \in before : z.number <= y.number}

NextHadith(x) ==
    LET after == {y \in shelf : y.book = x.book /\ y.number > x.number}
    IN  {y \in after : \A z \in after : y.number <= z.number}

-----------------------------------------------------------------------------
(* The hadith of the day.                                                  *)

NoCache == [value |-> {}, at |-> 0]
NoDaily == [pc |-> "none", offset |-> 0, calm |-> TRUE, answer |-> {}, cache |-> NoCache]
FreeRows == {x \in shelf : x.book \in FreeVolumes}

\* A null that was kept is not an answer.
CacheHit == daily.cache.value # {} /\ hour < daily.cache.at + DayHours

\* getDailyHadith: the cache, or the number of rows, and the day by that number.
AskDaily(day) ==
    /\ view = "daily" /\ daily.pc = "none"
    /\ daily' =
        IF CacheHit THEN [daily EXCEPT !.pc = "answered", !.answer = daily.cache.value]
        ELSE IF FreeRows = {} THEN [daily EXCEPT !.pc = "answered", !.answer = {}]
        ELSE [daily EXCEPT !.pc = "counted", !.offset = day % Cardinality(FreeRows), !.calm = TRUE]
    /\ UNCHANGED <<view, verseCounts, written, shelf, paging, hour>>

\* The row at that place, in any order, and none if rows went away meanwhile.
PickDaily ==
    /\ daily.pc = "counted"
    /\ \E answer \in IF daily.offset < Cardinality(FreeRows) THEN {{x} : x \in FreeRows} ELSE {{}} :
        daily' = [daily EXCEPT !.pc = "answered", !.answer = answer,
                               !.cache = [value |-> answer, at |-> hour]]
    /\ UNCHANGED <<view, verseCounts, written, shelf, paging, hour>>

AskAgain ==
    /\ daily.pc = "answered" /\ hour < LastHour
    /\ \E later \in {0, 1} : hour' = hour + later
    /\ daily' = [daily EXCEPT !.pc = "none", !.answer = {}, !.calm = TRUE]
    /\ UNCHANGED <<view, verseCounts, written, shelf, paging>>

-----------------------------------------------------------------------------
\* seed-hadiths.ts empties a book and fills it again, batch by batch.
Shelve ==
    /\ view \in {"pages", "daily"}
    /\ \E b \in Volumes :
        shelf' \in {{x \in shelf : x.book # b}} \union
                    {shelf \union {Narration(b, n)} :
                        n \in {k \in 1 .. LastNumber : \A j \in 1 .. k - 1 : Narration(b, j) \in shelf}}
    /\ shelf' # shelf
    /\ paging' = [paging EXCEPT !.undisturbed = FALSE] /\ daily' = [daily EXCEPT !.calm = FALSE]
    /\ UNCHANGED <<view, verseCounts, written, hour>>

ReaderInit ==
    /\ view \in {"verses", "pages", "daily"}
    /\ verseCounts \in [1 .. LastSurah -> 1 .. MostVerses]
    /\ written \in {w \in SUBSET Scripts : "simple" \in w}
    /\ view # "verses" => verseCounts = [s \in 1 .. LastSurah |-> 1] /\ written = Scripts
    /\ shelf \in SUBSET {Narration(b, n) : b \in Volumes, n \in 1 .. LastNumber}
    /\ view = "verses" => shelf = {}
    /\ paging = Unread /\ daily = NoDaily /\ hour = 0

ReaderNext ==
    \/ \E scope \in {"all"} \union Volumes, premiumUser \in BOOLEAN, limit \in PageLimits :
            StartPaging(scope, premiumUser, limit)
    \/ ReadPage
    \/ \E day \in 1 .. LastNumber : AskDaily(day)
    \/ PickDaily
    \/ AskAgain
    \/ Shelve

-----------------------------------------------------------------------------
(* Properties.                                                             *)

\* Whatever the lengths of the surahs, `next' leads from the first verse over
\* all of them to the last, `prev' leads back, the recordings of consecutive
\* verses have consecutive numbers from 1, and a script that is missing is
\* replaced by one that is there (quran.service.ts:34-36, 135-154, 353-361).
QuranConnected ==
    /\ \A at \in QuranVerses :
        /\ NextVerse(at) = Nowhere <=> at = <<LastSurah, verseCounts[LastSurah]>>
        /\ NextVerse(at) # Nowhere =>
                /\ NextVerse(at) \in QuranVerses /\ PrevVerse(NextVerse(at)) = at
                /\ Recording(NextVerse(at)) = Recording(at) + 1
    /\ Recording(<<1, 1>>) = 1 /\ PrevVerse(<<1, 1>>) = Nowhere
    /\ \A script \in Scripts :
        ResolveArabicText(script) \in written /\ (script \in written => ResolveArabicText(script) = script)

\* A reader who pages through one book that nobody seeds meanwhile sees each
\* hadith once; over all books, where equal numbers have no order, as many rows
\* as there are.  Nobody is shown a page of a book that has to be paid for.
\* `next' and `prev' of a hadith undo each other over gaps
\* (hadiths.service.ts:60-84, 137-152).
PagesComplete ==
    LET rows == Served(paging.scope, paging.premiumUser)
        finished == paging.page > paging.pages
    IN  /\ paging.premiumUser \/ \A x \in paging.shown : x.book \notin Premium
        /\ paging.undisturbed /\ paging.scope # "all" =>
                ~ paging.twice /\ (finished => paging.shown = rows)
        /\ paging.undisturbed /\ finished /\ ~ paging.twice => paging.shown = rows
        /\ \A x, y \in shelf : y \in NextHadith(x) <=> x \in PrevHadith(y)

\* Unless rows go away between the count and the row, the hadith of the day is
\* one of a free book if there is one, and none is never kept for the day
\* (hadiths.service.ts:209-243).
DailyServed ==
    daily.pc = "answered" =>
        /\ \A x \in daily.answer : x.book \in FreeVolumes
        /\ daily.answer = {} => ~ daily.calm \/ FreeRows = {}

ReadersAgree == QuranConnected /\ PagesComplete /\ DailyServed
=============================================================================
