----------------------------- MODULE HadithNumbers -----------------------------
(***************************************************************************)
(* The numbers by which hadiths are cited, which an edition's place is not:  *)
(* backfill-hadith-canonical-numbers.ts writes them to rows that were seeded *)
(* without, book by book, each in one transaction, and verify-hadith-        *)
(* content.ts is the gate that looks whether a pinned citation serves the    *)
(* hadith it names.  Both read while rows are seeded.                        *)
(*                                                                           *)
(* A hadith is known by its place in the edition, which is its               *)
(* hadith_number; its text is the set of phrases that fixtures look for, as  *)
(* foldEnglish leaves them.                                                  *)
(***************************************************************************)
EXTENDS Integers, Sequences, FiniteSets

CONSTANTS
    Edition,            \* book -> its hadiths in order: [cited, phrases, section]
    Pins,               \* HADITH_FIXTURES
    OverlapSection,     \* the section that swallowed the others before the repair
    ChapterRuleMinRows, \* 200 in the code
    StoredAtFirst,      \* book -> sets of rows that an earlier seeder may have left
    MaxBackfills,       \* runs of the backfill
    MaxBreaks,          \* runs that are killed and statements that fail
    MaxReseeds          \* books that are seeded again while the scripts run

Books == DOMAIN Edition
Places(b) == DOMAIN Edition[b]

\* A row whose place the edition no longer has.
Stray(b) == Len(Edition[b]) + 1

\* A pinned citation: of each group one phrase is in the hadith, none of never is.
Fixture(book, number, groups, never) ==
    [book |-> book, number |-> number, groups |-> groups, never |-> never]

ASSUME NumbersAssumption ==
    /\ \A b \in Books : Edition[b] \in Seq([cited : Nat \X Nat, phrases : SUBSET STRING, section : STRING])
    /\ \A pin \in Pins :
        /\ pin.book \in Books /\ pin.number \in Nat \ {0}
        /\ pin = Fixture(pin.book, pin.number, pin.groups, pin.never)
    /\ \A b \in Books : \A rows \in StoredAtFirst[b] : rows \subseteq Places(b) \union {Stray(b)}
    /\ {ChapterRuleMinRows, MaxBackfills, MaxBreaks, MaxReseeds} \subseteq Nat

VARIABLES
    columns,        \* the migration that adds canonical_number is applied
    storedRows,     \* book -> the places of the rows it has
    numberedRows,   \* book -> those that carry number, section and reference
    older,          \* book -> the rows seeded before the numbers existed
    declared,       \* book -> hadith_books.total_hadiths, NoBook if it is not seeded
    backfill,       \* the run of the backfill
    contentGate,    \* the run of the gate
    reseed,         \* seed-hadiths.ts at work on a book
    breaks, jobs, reseeds

corpusVars == <<columns, storedRows, numberedRows, older, declared>>
boundVars == <<breaks, jobs, reseeds>>
numberVars == <<corpusVars, backfill, contentGate, reseed, boundVars>>

NoBook == -1

\* Books and fixtures are taken in one order, whichever.
FirstOf(list) == CHOOSE x \in list : TRUE

-----------------------------------------------------------------------------
(* The numbering.                                                          *)

\* "807.02" is <<807, 2>>; <<n, 0>> has no fraction and <<0, s>> is no number.
NoNumber == [number |-> 0, suffix |-> 0]

ParseCanonicalNumber(cited) ==
    IF cited[1] <= 0 THEN NoNumber
    ELSE [number |-> cited[1], suffix |-> IF cited[2] = 0 THEN 1 ELSE cited[2]]

\* RowPlan, for the rows that the edition still has.
PlannedNumber(b, n) == ParseCanonicalNumber(Edition[b][n].cited)

CitedNumber(b, n) == IF n \in numberedRows[b] THEN PlannedNumber(b, n) ELSE NoNumber

\* A title was taken from ranges that overlap, now from the row's own section.
ChapterOf(b, n) == IF n \in numberedRows[b] THEN Edition[b][n].section ELSE OverlapSection

PhrasesOf(b, n) == IF n \in Places(b) THEN Edition[b][n].phrases ELSE {}

-----------------------------------------------------------------------------
(* The backfill.                                                           *)

NoBackfill == [pc |-> "none", apply |-> FALSE, left |-> {}, book |-> "none", seen |-> <<>>,
            written |-> {}, problems |-> 0, exit |-> "none"]

StartBackfill(apply, targets) ==
    /\ backfill.pc = "none" /\ jobs < MaxBackfills
    /\ jobs' = jobs + 1
    /\ backfill' = [NoBackfill EXCEPT !.pc = "next", !.apply = apply, !.left = targets]
    /\ UNCHANGED <<corpusVars, contentGate, reseed, breaks, reseeds>>

\* The next book, if it is seeded: both editions are fetched, the stored rows are
\* read and compared with the plan.  Only --apply goes on.
OpenBook(b) ==
    LET unplanned == storedRows[b] \ Places(b)
    IN  /\ backfill.pc = "next" /\ backfill.left # {} /\ b = FirstOf(backfill.left)
        /\ backfill' =
            IF declared[b] = NoBook THEN [backfill EXCEPT !.left = @ \ {b}]
            ELSE [backfill EXCEPT
                    !.left = @ \ {b}, !.book = b, !.written = {},
                    !.seen = [c \in DOMAIN @ \union {b} |-> IF c = b THEN storedRows[b] ELSE @[c]],
                    !.problems = IF unplanned # {} THEN @ + 1 ELSE @,
                    !.pc = IF backfill.apply THEN "updating" ELSE "next"]
        /\ UNCHANGED <<corpusVars, contentGate, reseed, boundVars>>

Entries == backfill.seen[backfill.book] \intersect Places(backfill.book)

NextEntry == CHOOSE n \in Entries \ backfill.written : \A m \in Entries \ backfill.written : n <= m

\* Faulty variant: no transaction around the batches.
UpdateBatch_Autocommit ==
    /\ backfill.pc = "updating" /\ columns
    /\ Entries \ backfill.written # {}
    /\ backfill' = [backfill EXCEPT !.written = @ \union {NextEntry}]
    /\ numberedRows' = [numberedRows EXCEPT ![backfill.book] = @ \union {NextEntry}]
    /\ UNCHANGED <<columns, storedRows, older, declared, contentGate, reseed, boundVars>>

\* One batch, which nobody sees before the commit.
UpdateBatch ==
    /\ backfill.pc = "updating" /\ columns
    /\ Entries \ backfill.written # {}
    /\ backfill' = [backfill EXCEPT !.written = @ \union {NextEntry}]
    /\ UNCHANGED <<corpusVars, contentGate, reseed, boundVars>>

\* The corpus is no longer the one that a gate has read.
Disturb == contentGate' = [contentGate EXCEPT !.undisturbed = FALSE]

\* Faulty variant: the book declares what was fetched.
Commit_Fetched ==
    LET b == backfill.book
    IN  /\ backfill.pc = "updating" /\ backfill.written = Entries
        /\ numberedRows' = [numberedRows EXCEPT ![b] = @ \union (backfill.written \intersect storedRows[b])]
        /\ declared' = [declared EXCEPT ![b] = Len(Edition[b])]
        /\ backfill' = [backfill EXCEPT !.pc = "next"]
        /\ Disturb
        /\ UNCHANGED <<columns, storedRows, older, reseed, boundVars>>

\* total_hadiths is written last, in the same transaction.
Commit ==
    LET b == backfill.book
    IN  /\ backfill.pc = "updating" /\ backfill.written = Entries
        /\ numberedRows' = [numberedRows EXCEPT ![b] = @ \union (backfill.written \intersect storedRows[b])]
        /\ declared' = [declared EXCEPT ![b] = Cardinality(backfill.seen[b])]
        /\ backfill' = [backfill EXCEPT !.pc = "next"]
        /\ Disturb
        /\ UNCHANGED <<columns, storedRows, older, reseed, boundVars>>

\* An UPDATE fails, as each does before the migration: the next book is taken.
Rollback ==
    /\ backfill.pc = "updating"
    /\ \/ ~ columns /\ Entries # {} /\ UNCHANGED breaks
       \/ columns /\ breaks < MaxBreaks /\ breaks' = breaks + 1
    /\ backfill' = [backfill EXCEPT !.pc = "next", !.problems = @ + 1]
    /\ UNCHANGED <<corpusVars, contentGate, reseed, jobs, reseeds>>

\* A fetch or a SELECT fails and ends the run, or the process is killed.
BreakOff ==
    /\ backfill.pc \in {"next", "updating"} /\ breaks < MaxBreaks
    /\ breaks' = breaks + 1
    /\ backfill' = [backfill EXCEPT !.pc = "none", !.exit = "infra"]
    /\ UNCHANGED <<corpusVars, contentGate, reseed, jobs, reseeds>>

EndBackfill ==
    /\ backfill.pc = "next" /\ backfill.left = {}
    /\ backfill' = [backfill EXCEPT !.pc = "none",
                                    !.exit = IF backfill.problems > 0 THEN "problem" ELSE "ok"]
    /\ UNCHANGED <<corpusVars, contentGate, reseed, boundVars>>

-----------------------------------------------------------------------------
(* The gate.                                                               *)

GateAtRest == [pc |-> "none", canonical |-> FALSE, pins |-> {}, books |-> {}, failures |-> 0,
               exit |-> "none", undisturbed |-> TRUE]

\* canonicalAvailable: the column is there and one row at least has a number.
CanonicalAvailable ==
    columns /\ \E b \in Books : \E n \in storedRows[b] : CitedNumber(b, n) # NoNumber

StartGate ==
    /\ contentGate.pc = "none" /\ contentGate.exit = "none"
    /\ contentGate' = [GateAtRest EXCEPT !.pc = "pins", !.canonical = CanonicalAvailable, !.pins = Pins,
                                         !.books = {b \in Books : declared[b] # NoBook}]
    /\ UNCHANGED <<corpusVars, backfill, reseed, boundVars>>

\* ORDER BY canonical_suffix, hadith_number.
Precedes(b, m, n) ==
    \/ CitedNumber(b, m).suffix < CitedNumber(b, n).suffix
    \/ CitedNumber(b, m).suffix = CitedNumber(b, n).suffix /\ m <= n

\* Faulty variant: the first narration in the edition's order.
Lookup_ByPlace(canonical, b, number) ==
    LET cited == {n \in storedRows[b] : CitedNumber(b, n).number = number}
    IN  IF canonical /\ cited # {} THEN {n \in cited : \A m \in cited : n <= m}
        ELSE storedRows[b] \intersect {number}

\* lookup: the places of the rows that may be served, one or none.
Lookup(canonical, b, number) ==
    LET cited == {n \in storedRows[b] : CitedNumber(b, n).number = number}
    IN  IF canonical /\ cited # {} THEN {n \in cited : \A m \in cited : Precedes(b, n, m)}
        ELSE storedRows[b] \intersect {number}

\* matchFixture: every group has a phrase in the text, and no text is no match.
MatchFixture(pin, text) ==
    /\ text # {}
    /\ \A group \in pin.groups : group \intersect text # {}
    /\ pin.never \intersect text = {}

\* Faulty variant: a number that resolves is right.
FixtureMatches_Resolves(canonical, pin) ==
    declared[pin.book] # NoBook /\ Lookup(canonical, pin.book, pin.number) # {}

FixtureMatches(canonical, pin) ==
    /\ declared[pin.book] # NoBook
    /\ \E n \in Lookup(canonical, pin.book, pin.number) : MatchFixture(pin, PhrasesOf(pin.book, n))

RunFixture(pin) ==
    /\ contentGate.pc = "pins" /\ contentGate.pins # {} /\ pin = FirstOf(contentGate.pins)
    /\ contentGate' = [contentGate EXCEPT
            !.pins = @ \ {pin},
            !.failures = IF FixtureMatches(contentGate.canonical, pin) THEN @ ELSE @ + 1]
    /\ UNCHANGED <<corpusVars, backfill, reseed, boundVars>>

LargestChapter(b) ==
    LET size(c) == Cardinality({n \in storedRows[b] : ChapterOf(b, n) = c})
        sizes == {size(ChapterOf(b, n)) : n \in storedRows[b]}
    IN  IF sizes = {} THEN 0 ELSE CHOOSE s \in sizes : \A t \in sizes : t <= s

Skewed(b) ==
    LET rows == Cardinality(storedRows[b])
    IN  rows >= ChapterRuleMinRows /\ LargestChapter(b) * 100 > 35 * rows

Misdeclared(b) == declared[b] # Cardinality(storedRows[b])

\* bookStats and checkStructure, after the fixtures.
CheckBook(b) ==
    /\ contentGate.pc = "pins" /\ contentGate.pins = {} /\ contentGate.books # {}
    /\ b = FirstOf(contentGate.books)
    /\ contentGate' = [contentGate EXCEPT
            !.books = @ \ {b},
            !.failures = @ + Cardinality({k \in {"skew", "total"} :
                                            (k = "skew" /\ Skewed(b)) \/ (k = "total" /\ Misdeclared(b))})]
    /\ UNCHANGED <<corpusVars, backfill, reseed, boundVars>>

EndGate ==
    /\ contentGate.pc = "pins"
    /\ \/ /\ contentGate.pins = {} /\ contentGate.books = {} /\ UNCHANGED breaks
          /\ contentGate' = [contentGate EXCEPT
                !.pc = "none", !.exit = IF contentGate.failures = 0 THEN "ok" ELSE "failures"]
       \/ /\ breaks < MaxBreaks /\ breaks' = breaks + 1
          /\ contentGate' = [contentGate EXCEPT !.pc = "none", !.exit = "infra"]
    /\ UNCHANGED <<corpusVars, backfill, reseed, jobs, reseeds>>

-----------------------------------------------------------------------------
(* What happens meanwhile.                                                 *)

\* touched: the books that were seeded again so far.
NoSeed == [pc |-> "none", book |-> "none", touched |-> {}]

\* seedBook: the book's row declares what was fetched.
SeedBook(b) ==
    /\ reseed.pc = "none" /\ reseeds < MaxReseeds /\ columns
    /\ reseeds' = reseeds + 1 /\ reseed' = [pc |-> "clearing", book |-> b, touched |-> reseed.touched \union {b}]
    /\ declared' = [declared EXCEPT ![b] = Len(Edition[b])]
    /\ Disturb
    /\ UNCHANGED <<columns, storedRows, numberedRows, older, backfill, breaks, jobs>>

\* Its rows are deleted, once a transaction that has updated them is over.
ClearBook ==
    LET b == reseed.book
    IN  /\ reseed.pc = "clearing"
        /\ backfill.pc = "updating" /\ backfill.book = b => backfill.written \intersect storedRows[b] = {}
        /\ reseed' = [reseed EXCEPT !.pc = "filling"]
        /\ storedRows' = [storedRows EXCEPT ![b] = {}] /\ numberedRows' = [numberedRows EXCEPT ![b] = {}]
        /\ older' = [older EXCEPT ![b] = {}]
        /\ Disturb
        /\ UNCHANGED <<columns, declared, backfill, boundVars>>

\* batchCreateHadiths: the next batch, each row with its number.
FillBook ==
    LET b == reseed.book
        batch == {n \in Places(b) : n = Cardinality(storedRows[b]) + 1}
    IN  /\ reseed.pc = "filling" /\ storedRows[b] # Places(b)
        /\ storedRows' = [storedRows EXCEPT ![b] = @ \union batch]
        /\ numberedRows' = [numberedRows EXCEPT ![b] = @ \union batch]
        /\ Disturb
        /\ UNCHANGED <<columns, older, declared, backfill, reseed, boundVars>>

\* The book declares what was stored, or the process is killed before.
EndSeed ==
    LET b == reseed.book
    IN  /\ \/ /\ reseed.pc = "filling" /\ storedRows[b] = Places(b)
              /\ declared' = [declared EXCEPT ![b] = Cardinality(storedRows[b])]
              /\ UNCHANGED breaks
           \/ /\ reseed.pc # "none" /\ breaks < MaxBreaks /\ breaks' = breaks + 1
              /\ UNCHANGED declared
        /\ reseed' = [reseed EXCEPT !.pc = "none"]
        /\ Disturb
        /\ UNCHANGED <<columns, storedRows, numberedRows, older, backfill, jobs, reseeds>>

Migrate ==
    /\ ~ columns /\ columns' = TRUE
    /\ Disturb
    /\ UNCHANGED <<storedRows, numberedRows, older, declared, backfill, reseed, boundVars>>

\* A corpus of the first seeder: whole or torn, declaring what was fetched.
NumberInit ==
    /\ columns \in BOOLEAN
    /\ storedRows \in {s \in [Books -> UNION {StoredAtFirst[b] : b \in Books}] :
                            \A b \in Books : s[b] \in StoredAtFirst[b]}
    /\ numberedRows = [b \in Books |-> {}] /\ older = storedRows
    /\ declared = [b \in Books |-> IF storedRows[b] = {} THEN NoBook ELSE Len(Edition[b])]
    /\ backfill = NoBackfill /\ contentGate = GateAtRest
    /\ reseed = NoSeed
    /\ breaks = 0 /\ jobs = 0 /\ reseeds = 0

NumberNext ==
    \/ \E apply \in BOOLEAN, targets \in {Books} \union {{b} : b \in Books} :
            StartBackfill(apply, targets)
    \/ \E b \in Books : OpenBook(b)
    \/ UpdateBatch
    \/ Commit
    \/ Rollback
    \/ BreakOff
    \/ EndBackfill
    \/ StartGate
    \/ \E pin \in Pins : RunFixture(pin)
    \/ \E b \in Books : CheckBook(b)
    \/ EndGate
    \/ \E b \in Books : SeedBook(b)
    \/ ClearBook
    \/ FillBook
    \/ EndSeed
    \/ Migrate

-----------------------------------------------------------------------------
(* Properties.                                                             *)

\* The narration that the edition itself gives under a number, the place where it
\* gives none.
GivenUnder(b, number) ==
    LET cited == {n \in Places(b) : PlannedNumber(b, n).number = number}
    IN  IF cited = {} THEN Places(b) \intersect {number}
        ELSE {n \in cited : \A m \in cited :
                \/ PlannedNumber(b, n).suffix < PlannedNumber(b, m).suffix
                \/ PlannedNumber(b, n).suffix = PlannedNumber(b, m).suffix /\ n <= m}

\* The pins were measured on the edition, no large book of which is one chapter.
ASSUME EditionAssumption ==
    /\ \A pin \in Pins : \E n \in GivenUnder(pin.book, pin.number) : MatchFixture(pin, Edition[pin.book][n].phrases)
    /\ \A b \in Books : Len(Edition[b]) >= ChapterRuleMinRows =>
            \A k \in Places(b) :
                Cardinality({n \in Places(b) : Edition[b][n].section = Edition[b][k].section}) * 100 <= 35 * Len(Edition[b])

OlderPlaces(b) == older[b] \intersect Places(b)

\* However a run of the backfill ends, the rows of a book that had no numbers
\* have them all or none; and a run with --apply that reports no problem leaves
\* every book it read numbered, and declaring the rows it has unless the book is one
\* that was seeded again (backfill-hadith-canonical-numbers.ts:31-36, 340).
NumbersWhole ==
    \A b \in Books :
        /\ OlderPlaces(b) \intersect numberedRows[b] \in {{}, OlderPlaces(b)}
        /\ backfill.exit = "ok" /\ backfill.apply /\ b \in DOMAIN backfill.seen =>
                /\ OlderPlaces(b) \subseteq numberedRows[b]
                /\ b \notin reseed.touched => declared[b] = Cardinality(storedRows[b])

Numbered(b) ==
    storedRows[b] = Places(b) /\ numberedRows[b] = storedRows[b] /\ declared[b] = Cardinality(storedRows[b])

\* A gate that ends with 0 has found a corpus in which each pinned number serves
\* the hadith it names, by its number and not by its place where these differ,
\* no large book is one chapter, and each book declares its rows.  A corpus that
\* was seeded whole and backfilled passes (verify-hadith-content.ts:6-43).
HadithGateSound ==
    contentGate.undisturbed =>
        /\ contentGate.exit = "ok" =>
                /\ \A pin \in Pins :
                        \E n \in Lookup(CanonicalAvailable, pin.book, pin.number) :
                            /\ MatchFixture(pin, PhrasesOf(pin.book, n))
                            /\ n # pin.number => n \in numberedRows[pin.book]
                /\ \A b \in Books : declared[b] # NoBook => ~ Skewed(b) /\ ~ Misdeclared(b)
        /\ contentGate.exit = "failures" => \E b \in Books : ~ Numbered(b)
=============================================================================
