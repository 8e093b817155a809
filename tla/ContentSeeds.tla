---------------------------- MODULE ContentSeeds ----------------------------
(***************************************************************************)
(* The content scripts under prisma/: an operator runs them by hand, they   *)
(* are killed, a statement or a download fails, they are run again, two of  *)
(* them at a time.  Each fills its rows its own way; a plan says how:       *)
(*   skip   a run does nothing if it finds rows: "any", "all", or "never"   *)
(*   clear  what it deletes first: "nothing", "strays" (rows that are not   *)
(*          in its file any more), "all"                                    *)
(*   write  an item: "upsert" by its key, "insert" skipping what exists,    *)
(*          "find" and then create, "absent": what a read at the beginning  *)
(*          did not find, "refill": inserted, an error if it exists         *)
(*   keyed  an index forbids a second row of one item                       *)
(*   child  the item's second row (its translation): "never", "created",    *)
(*          written when the first was just created, "always", or "after",  *)
(*          in a second pass over the rows that have none                   *)
(* An item stands for a row or a batch of them.                             *)
(***************************************************************************)
EXTENDS Naturals, FiniteSets

CONSTANTS
    Items,
    Runs,           \* runs that can be under way at once
    Repeats,        \* rows of the hadith download that repeat another's number
    MaxFaults,      \* bound: runs killed, statements and downloads that fail
    MaxEdits        \* bound: changes of a script's list

ASSUME SeedAssumption ==
    /\ IsFiniteSet(Items) /\ Items # {} /\ Runs # {}
    /\ Repeats \in Nat /\ MaxFaults \in Nat /\ MaxEdits \in Nat

Plan(skip, clear, write, keyed, child) ==
    [skip |-> skip, clear |-> clear, write |-> write, keyed |-> keyed, child |-> child]

-----------------------------------------------------------------------------
(* The scripts                                                              *)

Roles              == Plan("never", "nothing", "upsert", TRUE, "never")
SurahRows          == Plan("all", "nothing", "upsert", TRUE, "never")
VerseRows          == Plan("all", "nothing", "insert", TRUE, "never")
Saheeh             == Plan("any", "nothing", "insert", TRUE, "never")
PremiumEdition     == Plan("any", "nothing", "insert", TRUE, "never")
Transliteration    == Plan("any", "nothing", "insert", TRUE, "never")
Uthmani            == Plan("any", "nothing", "upsert", TRUE, "never")
\* Faulty variant of IndoPak: its neighbour's question, whether there is a row.
IndoPak_Probe      == Plan("any", "nothing", "upsert", TRUE, "never")
IndoPak            == Plan("all", "nothing", "upsert", TRUE, "never")
MuhammadNames      == Plan("never", "nothing", "upsert", TRUE, "never")
AladhanEvents      == Plan("never", "nothing", "upsert", TRUE, "never")
CalculationMethods == Plan("never", "nothing", "upsert", TRUE, "never")
AllahNames         == Plan("never", "nothing", "upsert", TRUE, "never")
IslamicEvents      == Plan("never", "nothing", "upsert", TRUE, "never")
FirstEvents        == Plan("never", "nothing", "find", TRUE, "never")
FirstDuas          == Plan("never", "nothing", "find", FALSE, "never")
FirstFeelings      == Plan("never", "nothing", "find", FALSE, "never")
Reciters           == Plan("never", "nothing", "upsert", TRUE, "never")
Duas               == Plan("never", "nothing", "find", FALSE, "after")
Feelings           == Plan("never", "nothing", "find", FALSE, "never")
HadithBook         == Plan("never", "all", "insert", TRUE, "never")
Gita               == Plan("never", "nothing", "find", TRUE, "always")
GitaFull           == Plan("never", "nothing", "absent", TRUE, "created")
GitaHindi          == Plan("never", "nothing", "find", TRUE, "never")
GitaAudio          == Plan("never", "nothing", "find", FALSE, "never")
Ramayana           == Plan("never", "nothing", "absent", TRUE, "after")
HinduFeelings      == Plan("never", "all", "refill", TRUE, "never")
Stories            == Plan("never", "nothing", "find", FALSE, "never")
Temples            == Plan("never", "nothing", "find", FALSE, "never")
Stotras            == Plan("never", "nothing", "upsert", TRUE, "always")
Festivals          == Plan("never", "nothing", "upsert", TRUE, "never")
Collections        == Plan("never", "strays", "upsert", TRUE, "never")

Script ==
    [roles |-> Roles, surahs |-> SurahRows, verses |-> VerseRows, saheeh |-> Saheeh,
     premium |-> PremiumEdition, transliteration |-> Transliteration, uthmani |-> Uthmani,
     indopak |-> IndoPak, muhammad |-> MuhammadNames, aladhan |-> AladhanEvents,
     methods |-> CalculationMethods, allah |-> AllahNames, events |-> IslamicEvents,
     first_events |-> FirstEvents, first_duas |-> FirstDuas, first_feelings |-> FirstFeelings,
     reciters |-> Reciters, duas |-> Duas,
     feelings |-> Feelings, hadiths |-> HadithBook, gita |-> Gita, gita_full |-> GitaFull,
     gita_hindi |-> GitaHindi, gita_audio |-> GitaAudio, ramayana |-> Ramayana,
     hindu_feelings |-> HinduFeelings, stories |-> Stories, temples |-> Temples,
     stotras |-> Stotras, festivals |-> Festivals, collections |-> Collections]

\* What the skip looks at: that of the free English edition counts the rows of
\* every English edition.
Probed(s) == IF s = "saheeh" THEN {"saheeh", "premium"} ELSE {s}

\* Scripts of the Quran write what belongs to a verse, for the verses there are.
OfVerses == {"saheeh", "premium", "transliteration", "uthmani", "indopak"}

\* Scripts that meet one another's rows are taken together.
Together == {{"saheeh", "premium"}, {"verses", "uthmani"}, {"verses", "indopak"}}
Groups == Together \union {{s} : s \in DOMAIN Script \ UNION Together} \union {{"transliteration"}}

VARIABLES
    group,          \* the scripts of this behaviour
    file,           \* per script: the items of its list
    rows, children, \* per script: copies of an item's row; items with their second row
    total,          \* hadith_books: totalHadiths
    review,         \* collections: reviewStatus of the collection of the script
    work, faults, edits,
    \* ghosts, per script: how its last run ended; no run stopped on the way or
    \* was skipped over rows of another script; two runs overlapped
    last, sound, overlapped

seedVars ==
    <<group, file, rows, children, total, review, work, faults, edits, last, sound, overlapped>>

Resting == [script |-> "none", phase |-> "idle", todo |-> {}, item |-> "none",
            stored |-> 0, short |-> FALSE, promote |-> "none"]

SeedInit ==
    /\ group \in Groups
    /\ file = [s \in group |-> Items]
    /\ rows = [s \in group |-> [i \in Items |-> 0]]
    /\ children = [s \in group |-> {}]
    /\ total = 0 /\ review = "none"
    /\ work = [r \in Runs |-> Resting] /\ faults = 0 /\ edits = 0
    /\ last = [s \in group |-> "none"]
    /\ sound = [s \in group |-> TRUE] /\ overlapped = [s \in group |-> FALSE]

Has(s, i) == rows[s][i] > 0
Filled(s) == {i \in Items : Has(s, i)}
Busy(s) == \E r \in Runs : work[r].script = s
Mine(r) == Script[work[r].script]

Skips(s) ==
    \/ Script[s].skip = "any" /\ \E t \in Probed(s) \intersect group : Filled(t) # {}
    \/ Script[s].skip = "all" /\ Filled(s) = Items

\* The verses a script can resolve.
Known(s) == IF "verses" \in group /\ s \in OfVerses THEN Filled("verses") ELSE Items

\* The next item; an item whose second row is due is not done yet.
Proceed(r, i, child) ==
    work' = [work EXCEPT ![r].phase = IF child THEN "child" ELSE "rows",
                         ![r].item = IF child THEN i ELSE "none",
                         ![r].todo = @ \ {i}]
Leave(r, how) ==
    /\ work' = [work EXCEPT ![r] = Resting]
    /\ last' = [last EXCEPT ![work[r].script] = how]

\* The list of a script is changed between its runs.
Edit(s) ==
    /\ edits < MaxEdits /\ edits' = edits + 1
    /\ ~ Busy(s) /\ Script[s].skip = "never"
    /\ \E list \in SUBSET Items \ {{}, file[s]} : file' = [file EXCEPT ![s] = list]
    /\ last' = [last EXCEPT ![s] = "none"]
    /\ UNCHANGED <<rows, children, total, review, work, faults, sound, overlapped>>

-----------------------------------------------------------------------------
(* A run                                                                    *)

\* It reads what it skips for, the verses, and what it finds missing; verses it
\* misses it passes over, but IndoPak throws.  For collections the operator may
\* name this one and a review status.
Start(r, s) ==
    /\ work[r].phase = "idle"
    /\ IF Skips(s)
       THEN /\ last' = [last EXCEPT ![s] = IF Busy(s) THEN @ ELSE "well"]
            /\ sound' = [sound EXCEPT ![s] = @ /\ Filled(s) # {}]
            /\ UNCHANGED <<work, overlapped>>
       ELSE IF s = "indopak" /\ Known(s) # Items
       THEN /\ last' = [last EXCEPT ![s] = "torn"]
            /\ UNCHANGED <<work, overlapped, sound>>
       ELSE /\ \E promote \in IF s = "collections" THEN {"none", "draft", "reviewed"} ELSE {"none"} :
                work' = [work EXCEPT ![r] = [Resting EXCEPT !.script = s, !.promote = promote,
                    !.phase = "head", !.short = (Known(s) # Items),
                    !.todo = IF Script[s].write = "absent" THEN file[s] \ Filled(s)
                             ELSE file[s] \intersect Known(s)]]
            /\ overlapped' = [overlapped EXCEPT ![s] = @ \/ Busy(s)]
            /\ sound' = [sound EXCEPT ![s] = @ /\ Known(s) \in {{}, Items}]
            /\ UNCHANGED last
    /\ UNCHANGED <<file, rows, children, total, review, faults, edits>>

GoOn(r) == work' = [work EXCEPT ![r].phase = IF Mine(r).clear = "nothing" THEN "rows" ELSE "clear"]

\* Faulty variant: the status of an update is that of a create.
WriteHead_Rewrites(r) ==
    /\ work[r].phase = "head"
    /\ total' = IF work[r].script = "hadiths" THEN Cardinality(file["hadiths"]) + Repeats ELSE total
    /\ review' = IF work[r].script # "collections" THEN review
                 ELSE IF work[r].promote = "none" THEN "draft" ELSE work[r].promote
    /\ GoOn(r)
    /\ UNCHANGED <<file, rows, children, faults, edits, last, sound, overlapped>>

\* The parent row: a hadith book with the size of the download, a collection
\* with its review status, on an update only the one the operator asked for.
WriteHead(r) ==
    /\ work[r].phase = "head"
    /\ total' = IF work[r].script = "hadiths" THEN Cardinality(file["hadiths"]) + Repeats ELSE total
    /\ review' = IF work[r].script # "collections" THEN review
                 ELSE IF work[r].promote # "none" THEN work[r].promote
                 ELSE IF review = "none" THEN "draft" ELSE review
    /\ GoOn(r)
    /\ UNCHANGED <<file, rows, children, faults, edits, last, sound, overlapped>>

Clear(r) ==
    /\ work[r].phase = "clear"
    /\ LET s == work[r].script
           kept == IF Mine(r).clear = "strays" THEN file[s] ELSE {}
       IN  rows' = [rows EXCEPT ![s] = [i \in Items |-> IF i \in kept THEN rows[s][i] ELSE 0]]
    /\ work' = [work EXCEPT ![r].phase = "rows"]
    /\ UNCHANGED <<file, children, total, review, faults, edits, last, sound, overlapped>>

Add(s, i) == rows' = [rows EXCEPT ![s][i] = @ + 1]

\* A write that finds the item: an update, a row left alone, or an error, which
\* ends the run.
WriteItem(r, i) ==
    LET s == work[r].script IN
    /\ work[r].phase = "rows" /\ i \in work[r].todo /\ Mine(r).write # "find"
    /\ \/ /\ ~ Has(s, i)
          /\ Add(s, i)
          /\ work' = [work EXCEPT ![r].todo = @ \ {i}, ![r].stored = @ + 1,
                        ![r].phase = IF Mine(r).child \in {"created", "always"}
                                     THEN "child" ELSE "rows",
                        ![r].item = i]
          /\ UNCHANGED <<last, sound>>
       \/ /\ Has(s, i) /\ Mine(r).write \in {"upsert", "insert"}
          /\ Proceed(r, i, Mine(r).child = "always")
          /\ UNCHANGED <<rows, last, sound>>
       \/ /\ Has(s, i) /\ Mine(r).write \in {"absent", "refill"}
          /\ Leave(r, "torn")
          /\ sound' = [sound EXCEPT ![s] = FALSE]
          /\ UNCHANGED rows
    /\ UNCHANGED <<file, children, total, review, faults, edits, overlapped>>

\* Faulty variant: the row that was found is not looked at.
FindItem_Blind(r, i) ==
    /\ work[r].phase = "rows" /\ i \in work[r].todo /\ Mine(r).write = "find"
    /\ work' = [work EXCEPT ![r].phase = "create", ![r].item = i]
    /\ UNCHANGED <<file, rows, children, total, review, faults, edits, last, sound, overlapped>>

FindItem(r, i) ==
    LET s == work[r].script IN
    /\ work[r].phase = "rows" /\ i \in work[r].todo /\ Mine(r).write = "find"
    /\ IF Has(s, i)
       THEN Proceed(r, i, Mine(r).child = "always")
       ELSE work' = [work EXCEPT ![r].phase = "create", ![r].item = i]
    /\ UNCHANGED <<file, rows, children, total, review, faults, edits, last, sound, overlapped>>

CreateItem(r) ==
    LET s == work[r].script
        i == work[r].item
    IN
    /\ work[r].phase = "create"
    /\ IF Has(s, i) /\ Mine(r).keyed
       THEN /\ Leave(r, "torn")
            /\ sound' = [sound EXCEPT ![s] = FALSE]
            /\ UNCHANGED rows
       ELSE /\ Add(s, i)
            /\ Proceed(r, i, Mine(r).child = "always")
            /\ UNCHANGED <<last, sound>>
    /\ UNCHANGED <<file, children, total, review, faults, edits, overlapped>>

WriteChild(r) ==
    /\ work[r].phase = "child"
    /\ children' = [children EXCEPT ![work[r].script] = @ \union {work[r].item}]
    /\ work' = [work EXCEPT ![r].phase = "rows", ![r].item = "none"]
    /\ UNCHANGED <<file, rows, total, review, faults, edits, last, sound, overlapped>>

Missing(r) ==
    IF Mine(r).child = "after" THEN Filled(work[r].script) \ children[work[r].script] ELSE {}

\* The second pass: the Ramayana's translations, the slugs of the duas.
WriteChildAfter(r, i) ==
    /\ work[r].phase = "rows" /\ work[r].todo = {} /\ i \in Missing(r)
    /\ children' = [children EXCEPT ![work[r].script] = @ \union {i}]
    /\ UNCHANGED <<file, rows, total, review, work, faults, edits, last, sound, overlapped>>

\* Faulty variant: the size of the download.
End_Fetched(r) ==
    /\ work[r].phase = "rows" /\ work[r].todo = {} /\ Missing(r) = {}
    /\ total' = total
    /\ Leave(r, IF work[r].short THEN "torn" ELSE "well")
    /\ UNCHANGED <<file, rows, children, review, faults, edits, sound, overlapped>>

\* The end; a hadith book gets the number of rows the run has stored.
End(r) ==
    /\ work[r].phase = "rows" /\ work[r].todo = {} /\ Missing(r) = {}
    /\ total' = IF work[r].script = "hadiths" THEN work[r].stored ELSE total
    /\ Leave(r, IF work[r].short THEN "torn" ELSE "well")
    /\ UNCHANGED <<file, rows, children, review, faults, edits, sound, overlapped>>

\* Killed, or a statement or the download fails: the scripts that swallow the
\* error (the editions of the Quran) report success all the same.
Stop(r) ==
    /\ work[r].phase # "idle" /\ faults < MaxFaults
    /\ faults' = faults + 1
    /\ Leave(r, "torn")
    /\ sound' = [sound EXCEPT ![work[r].script] = FALSE]
    /\ UNCHANGED <<file, rows, children, total, review, edits, overlapped>>

SeedStep(r) ==
    \/ WriteHead(r) \/ Clear(r) \/ CreateItem(r) \/ WriteChild(r) \/ End(r)
    \/ \E i \in Items : WriteItem(r, i) \/ FindItem(r, i) \/ WriteChildAfter(r, i)

SeedNext ==
    /\ \/ \E r \in Runs : SeedStep(r) \/ Stop(r) \/ \E s \in group : Start(r, s)
       \/ \E s \in group : Edit(s)
    /\ UNCHANGED group

SeedSpec == SeedInit /\ [][SeedNext]_seedVars

-----------------------------------------------------------------------------
(* Properties                                                               *)

\* These scripts ask whether there is anything, or write a translation only
\* with its verse: what a run of theirs left undone stays undone, although the
\* comments call them idempotent.
NeverRepaired == {"saheeh", "premium", "transliteration", "uthmani", "gita_full"}

\* A script that ran to its end leaves all of its list, whatever was killed
\* before, with the second rows; those that clear leave nothing else, and a
\* hadith book then declares as many hadiths as it has (seed-hadiths.ts:452).  It
\* need not when an earlier run of a script that looks for "anything" stopped on
\* the way (seed-quran-scripts.ts:161 says so of its neighbour), or rows of
\* another edition made it skip, or found only some of the verses, or when two
\* runs of one that deletes first overlapped.
SeedsComplete ==
    \A s \in group :
        /\ last[s] = "well" /\ ~ Busy(s)
        /\ s \in NeverRepaired => sound[s] /\ ~ overlapped[s]
        /\ Script[s].clear = "all" => ~ overlapped[s]
        => /\ file[s] \subseteq Filled(s)
           /\ Script[s].child # "never" => file[s] \subseteq children[s]
           /\ Script[s].clear # "nothing" => Filled(s) \subseteq file[s]
           /\ s = "hadiths" => total = Cardinality(Filled(s))

\* No item twice, though half of the scripts have no index to rely on, unless
\* two runs of one of those overlapped.
NoTwins == \A s \in group : Script[s].keyed \/ ~ overlapped[s] => \A i \in Items : rows[s][i] <= 1

\* Runs that are killed, fail and are started again leave all of the content, once.
SeedsWhole == SeedsComplete /\ NoTwins

\* A collection leaves or enters the drafts, which are not served, only by a
\* run that names it and the status: adding to the list and running again once
\* took every collection off the API (seed-collections.ts:133).
ReviewKept ==
    [][review' # review /\ review # "none"
        => \E r \in Runs : work[r].phase = "head" /\ work[r].promote = review']_seedVars
=============================================================================
