------------------------------ MODULE MCLibrary ------------------------------
(***************************************************************************)
(* The content: the gates and jobs that keep it, the calendars, and what    *)
(* users read and mark, with a small instance of each.                      *)
(***************************************************************************)
EXTENDS CitationGate, FeelingsGate, HadithNumbers, VerseIndex, HijriCalendar, PanchangDays, Favourites, Readers

libraryVars ==
    <<gateVars, feelingsVars, numberVars, verseVars, hijriVars, panchangVars, favouriteVars, readerVars>>

-----------------------------------------------------------------------------
(* verify-feelings-citations.ts.                                           *)

MCVerseTexts == <<<<"b", "A^", "'", "t">>, <<"k", "W", " ", "l", "'">>>>
MCHadithTexts == <<<<"m", "A", "n">>, <<"s", "l">>, <<"r", "b">>>>
MCCanonical == <<<<1, 1>>, <<1, 2>>, <<2, 1>>>>

\* Sources of every shape, right and wrong, with the whole text, an excerpt, the
\* text in another spelling, with more, and another text.
MCRemedies ==
    LET quran == {VerseSource(l, 1, 1, 0) : l \in {"quran", "another surah"}}
                    \union {VerseSource("quran", 1, 1, 2)}
        misfits == {VerseSource("quran", 1, 2, 3), VerseSource("muslim", 1, 1, 0),
                    VerseSource("quran", 1, 2, 1), VerseSource("quran", 2, 1, 0),
                    Source(2, "verse", "quran", 1, 1, 0)}
        muslim == {HadithSource("muslim", n, 0) : n \in {1, 2, 3}}
        strays == {HadithSource("muslim", 4, 0), HadithSource("muslim", 2, 1), HadithSource("malik", 1, 0)}
        excerpts == {<<"b", "A", "t">>, <<"b", "t">>, <<"b", "t", "k", "l">>, <<"b">>}
        narrations == {<<"m", "A", "n">>, <<"s", "l">>, <<"r", "b">>}
    IN  [source : quran, text : excerpts] \union [source : misfits, text : {<<"b", "A", "t">>}]
            \union [source : muslim, text : narrations] \union [source : strays, text : {<<"s">>}]

-----------------------------------------------------------------------------
(* The hadiths: numbers that are places at first and then are not, two of    *)
(* one number, and a pin that its place would fail.                         *)

Entry(cited, phrases, section) == [cited |-> cited, phrases |-> phrases, section |-> section]
MCEdition ==
    [muslim |-> <<Entry(<<1, 0>>, {"charity"}, "A"), Entry(<<2, 2>>, {"dead goat"}, "B"),
                  Entry(<<2, 1>>, {"two verses", "suffice"}, "C")>>,
     bukhari |-> <<Entry(<<1, 0>>, {"two verses", "sufficient"}, "A")>>]

\* Not seeded, whole, torn, and with a row whose place was dropped.
MCStoredAtFirst == [muslim |-> {{}, 1 .. 3, {1, 3}, 1 .. 4}, bukhari |-> {{}, {1}}]

TwoVerses == {{"two verses"}, {"suffice", "sufficient"}}
MCPins == {Fixture("muslim", 2, TwoVerses, {"dead goat"}), Fixture("bukhari", 1, TwoVerses, {})}

-----------------------------------------------------------------------------
(* The verses of the epics, one of them of a chapter 0.                     *)

MCChapterVerses == {[chapter |-> c, verse |-> 1] : c \in {0, 1, 2}}
MCLooseVerses == {[chapter |-> NullChapter, verse |-> 1]}

-----------------------------------------------------------------------------
(* The calendars: the lengths of lunar months differ; a leap month.         *)

MCHijriStart == <<0, 3, 5, 8, 11, 13, 16>>
MCCivilMonth == 4 .. 6
MCFeast == <<3, 2>>
MCFirstCivil == [year |-> 2100, month |-> 2, day |-> 20]
MCZones == {-1, 0, 1}

LunarMonth(name, isAdhika) == [name |-> name, isAdhika |-> isAdhika]
MCMonths ==
    <<LunarMonth("a", FALSE), LunarMonth("b", TRUE), LunarMonth("b", FALSE), LunarMonth("c", FALSE)>>
MCFestivals ==
    [b_bright |-> [month |-> "b", paksha |-> "shukla", tithi |-> 2],
     b_dark |-> [month |-> "b", paksha |-> "krishna", tithi |-> 1],
     c_dark |-> [month |-> "c", paksha |-> "krishna", tithi |-> 2],
     c_new |-> [month |-> "c", paksha |-> "krishna", tithi |-> Amavasya]]

\* A summer's day, and one shorter than two hours.
MCSunTimes == {[sunrise |-> 24, sunset |-> 70], [sunrise |-> 40, sunset |-> 47]}
MCClocks == {-20, 0, 22}

-----------------------------------------------------------------------------
(* The tables of favourites, by what their services do.                     *)

Traits(set) == [t \in {"checked", "unique", "found", "noted", "replaced"} |-> t \in set]
MCTables ==
    [hadiths |-> Traits({"unique", "replaced"}), duas |-> Traits({"unique", "found"}),
     stotras |-> Traits({"checked", "unique"}), verses |-> Traits({"checked", "unique", "noted"}),
     quran |-> Traits({"checked", "found", "noted"})]

-----------------------------------------------------------------------------
\* A part that has several initial states rests in one of them.
LibraryInit(part) ==
    /\ GateInit /\ (part # "citations" => item = CHOOSE i \in GoodItems : TRUE)
    /\ FeelingsInit
    /\ part # "feelings" => verses = {} /\ hadiths = {} /\ totalHadiths = 0 /\ numbered = "empty"
    /\ NumberInit
    /\ part # "numbers" => columns /\ \A b \in Books : storedRows[b] = {}
    /\ VerseInit /\ HijriInit /\ PanchangInit
    /\ FavouriteInit /\ (part # "favourites" => table = "hadiths")
    /\ ReaderInit
    /\ part # "readers" =>
        view = "verses" /\ written = Scripts /\ \A s \in DOMAIN verseCounts : verseCounts[s] = 1

\* All parts but one rest.
LibraryRests(part) ==
    /\ part # "citations" => UNCHANGED gateVars
    /\ part # "feelings" => UNCHANGED feelingsVars
    /\ part # "numbers" => UNCHANGED numberVars
    /\ part # "verses" => UNCHANGED verseVars
    /\ part # "hijri" => UNCHANGED hijriVars
    /\ part # "panchang" => UNCHANGED panchangVars
    /\ part # "favourites" => UNCHANGED favouriteVars
    /\ part # "readers" => UNCHANGED readerVars

-----------------------------------------------------------------------------
\* What the scripts that keep the content answer is so: the gates of collections,
\* of feelings and of hadiths, the backfill of the hadiths' numbers, and the
\* survey of the verses before their index.
GatesSound ==
    GatePassedIsSound /\ FeelingsVerdictsSound /\ NumbersWhole /\ HadithGateSound /\ IndexSafe
=============================================================================
