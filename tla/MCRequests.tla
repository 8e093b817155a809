------------------------------ MODULE MCRequests ------------------------------
(***************************************************************************)
(* The requests, the jobs and the scripts that share no state with one      *)
(* another, checked in one run: a behaviour is that of one part, chosen at   *)
(* the beginning; the others rest in an initial state of theirs.            *)
(***************************************************************************)
EXTENDS PracticeStreaks, MCLibrary, OtpCodes, Tallies, ContentSeeds, RollupPaging,
        UserRecords, RolesAndTokens, PrayerLogs, JuzReader, CollectionReader

VARIABLE part

Parts ==
    {"streaks", "codes", "tallies", "prayers", "seeds", "paging", "records", "roles", "devices",
     "juz", "collections", "citations", "feelings", "numbers", "verses", "hijri", "panchang",
     "favourites", "readers"}

partVars ==
    <<part, vars, otpVars, tallyVars, logVars, seedVars, pagingVars, recordVars, accessVars, deviceVars,
      juzVars, collectionVars, libraryVars>>

\* A surah without a start and with both ends; a chapter without a start and
\* without an end; a dua found by its slug, and one by its id while its slug is
\* not there.
MCRefs ==
    {QuranRef(1, 0, 1), QuranRef(1, 1, 2), HinduRef(1, 0, 2), HinduRef(1, 3, 0)}
        \union {DuaRef("s", "none"), DuaRef("x", "d")}
MCContent ==
    {Verse("quran", 1, 0), Verse("quran", 1, 2)}
        \union {Verse("hindu", 0, 0), Verse("hindu", 1, 0), Verse("hindu", 1, 1), Verse("hindu", 1, 3)}
        \union {Dua("s", "d"), Dua("x", "e")}

\* A part that has several initial states rests in one of them.
PartInit ==
    /\ part \in Parts
    /\ Init
    /\ OtpInit /\ TallyInit /\ LogInit /\ RecordInit /\ DeviceInit
    /\ AccessInit /\ (part # "roles" => member = {})
    /\ SeedInit /\ (part # "seeds" => group = {"roles"})
    /\ PagingInit /\ (part # "paging" => active = {})
    /\ JuzInit /\ (part # "juz" => sizes = [s \in Surahs |-> 1] /\ cuts = {LastVerse})
    /\ CollectionInit /\ (part # "collections" => items = {} /\ status = "draft")
    /\ LibraryInit(part)

\* All parts but this one rest.
OnlyPart(this) ==
    /\ part = this /\ UNCHANGED part
    /\ this # "streaks" => UNCHANGED vars
    /\ this # "codes" => UNCHANGED otpVars
    /\ this # "tallies" => UNCHANGED tallyVars
    /\ this # "prayers" => UNCHANGED logVars
    /\ this # "seeds" => UNCHANGED seedVars
    /\ this # "paging" => UNCHANGED pagingVars
    /\ this # "records" => UNCHANGED recordVars
    /\ this # "roles" => UNCHANGED accessVars
    /\ this # "devices" => UNCHANGED deviceVars
    /\ this # "juz" => UNCHANGED juzVars
    /\ this # "collections" => UNCHANGED collectionVars
    /\ LibraryRests(this)

PartNext ==
    \/ OnlyPart("streaks") /\ Next
    \/ OnlyPart("codes") /\ OtpNext
    \/ OnlyPart("tallies") /\ TallyNext
    \/ OnlyPart("prayers") /\ LogNext
    \/ OnlyPart("seeds") /\ SeedNext
    \/ OnlyPart("paging") /\ PagingNext
    \/ OnlyPart("records") /\ RecordNext
    \/ OnlyPart("roles") /\ AccessNext
    \/ OnlyPart("devices") /\ DeviceNext
    \/ OnlyPart("juz") /\ JuzNext
    \/ OnlyPart("collections") /\ CollectionNext
    \/ OnlyPart("citations") /\ GateNext
    \/ OnlyPart("feelings") /\ FeelingsNext
    \/ OnlyPart("numbers") /\ NumberNext
    \/ OnlyPart("verses") /\ VerseNext
    \/ OnlyPart("hijri") /\ HijriNext
    \/ OnlyPart("panchang") /\ PanchangNext
    \/ OnlyPart("favourites") /\ FavouriteNext
    \/ OnlyPart("readers") /\ ReaderNext

-----------------------------------------------------------------------------
\* Every service's current streak is the run that ends today or, when today has
\* no row yet, yesterday: the prayer walk that reads one window of days at a
\* time loses nothing at a window's edge and follows no run past its last window
\* (STREAK_CHUNK_DAYS, STREAK_MAX_CHUNKS), rows dated ahead of today change
\* nothing, japa and puja look back a year.  Of puja this is said only on a day
\* with a log: what it owes on another day, PujaAliveFromYesterday says.
\* And the descending scan of dhikr and the ascending one of japa and puja find
\* the longest run of consecutive days.
StreaksAgree ==
    part = "streaks" =>
        /\ \A day \in {d \in {today - 1, today} : d >= 0} :
            /\ PrayerStreak(met, day) = LiveRun(met, day, MaxChunks * ChunkDays)
            /\ day \in met => PujaCurrent(met, day) = LiveRun(met, day, YearDays)
        /\ DhikrCurrent(met, today) = LiveRun(met, today, today + 1)
        /\ JapaCurrent(met, today) = LiveRun(met, today, YearDays)
        /\ DhikrLongest(met) = LongestRun(met)
        /\ ScanLongest(met) = LongestRun(met)

\* What a user counted and logged is what his statistics say.
PracticesAddUp ==
    /\ part = "tallies" => TalliesAddUp
    /\ part = "prayers" => PrayersCounted

\* What a user has set stays, his notifications go where he wants them, and his
\* token opens what his roles do.
AccountHolds ==
    /\ part = "records" => SettingsKept
    /\ part = "devices" => PushesFollowWishes
    /\ part = "roles" => AccessFollowsRoles

\* The endpoints of a calendar tell one story: the Hijri one with its cache and
\* its fallback, the panchang with its festivals and sandhyas.
CalendarsAgree ==
    /\ part = "hijri" => HijriAgrees /\ FallbackConsecutive
    /\ part = "panchang" => PanchangAgrees

\* What a user reads is connected and complete, and what he marked is kept.
LibraryServes ==
    /\ part = "readers" => ReadersAgree
    /\ part = "favourites" => FavouritesKept

PartSpec == PartInit /\ [][PartNext]_partVars
=============================================================================
