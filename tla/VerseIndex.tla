------------------------------- MODULE VerseIndex -------------------------------
(***************************************************************************)
(* The unique index of hindu_text_verses: seed-ramayana.ts fills the gaps    *)
(* of a table that had none, check-hindu-verse-duplicates.ts surveys it, and *)
(* the migration 20261011121000 creates the index or aborts, after which     *)
(* every deployment is refused until a person resolves it.                   *)
(***************************************************************************)
EXTENDS Integers, FiniteSets

CONSTANTS
    ChapterVerses,  \* the verses of ramayana.json: [chapter, verse]
    LooseVerses,    \* verses without a chapter, which other imports wrote
    Seedings,       \* runs of the seed
    MaxCopies       \* rows of one verse

NullChapter == -1

ASSUME VerseAssumption ==
    /\ \A v \in ChapterVerses : v.chapter \in Nat
    /\ \A v \in LooseVerses : v.chapter = NullChapter
    /\ MaxCopies \in Nat \ {0}

IndexedVerses == ChapterVerses \union LooseVerses

VARIABLES
    copies,     \* verse -> its rows
    verseIndex, \* "absent", "created", "aborted"
    survey,     \* the last survey: its exit code, and whether rows came since
    seeding,    \* run -> the verses that it found missing, and where it is
    overlap     \* two runs of the seed were under way at once

verseVars == <<copies, verseIndex, survey, seeding, overlap>>

-----------------------------------------------------------------------------
\* A unique index takes two nulls for different.
Binds(v) == v.chapter # NullChapter

\* Faulty variant: the test for a missing chapter takes chapter 0 for one.
BlocksIndex_Falsy(groups) == {v \in groups : v.chapter \notin {NullChapter, 0}}

\* classify: the groups of equal rows over which CREATE UNIQUE INDEX aborts.
BlocksIndex(groups) == {v \in groups : Binds(v)}

DuplicateGroups == {v \in IndexedVerses : copies[v] > 1}

Survey ==
    /\ survey' = [exit |-> IF BlocksIndex(DuplicateGroups) = {} THEN "clean" ELSE "dirty", stale |-> FALSE]
    /\ UNCHANGED <<copies, verseIndex, seeding, overlap>>

\* prisma migrate deploy: a recorded failure refuses the next one (P3009).
Deploy ==
    /\ verseIndex = "absent"
    /\ verseIndex' = IF \E v \in IndexedVerses : Binds(v) /\ copies[v] > 1 THEN "aborted" ELSE "created"
    /\ UNCHANGED <<copies, survey, seeding, overlap>>

\* A person removes a reviewed copy, and resolves the failed migration.
Repair ==
    /\ \/ /\ \E v \in DuplicateGroups : copies' = [copies EXCEPT ![v] = @ - 1]
          /\ UNCHANGED verseIndex
       \/ verseIndex = "aborted" /\ verseIndex' = "absent" /\ UNCHANGED copies
    /\ UNCHANGED <<survey, seeding, overlap>>

-----------------------------------------------------------------------------
Seeding(r) == seeding[r].pc = "inserting"

\* Faulty variant: a run inserts whatever its file holds.
GapsFound_All == ChapterVerses

\* seedKanda reads the rows that exist; those without a chapter match nothing.
GapsFound == {v \in ChapterVerses : copies[v] = 0}

ReadGaps(r) ==
    /\ seeding[r].pc = "none"
    /\ seeding' = [seeding EXCEPT ![r] = [pc |-> "inserting", missing |-> GapsFound]]
    /\ overlap' = (overlap \/ \E s \in Seedings \ {r} : Seeding(s))
    /\ UNCHANGED <<copies, verseIndex, survey>>

\* createMany of one chunk, whole or not at all: a row that the index refuses
\* ends the run.
InsertChunk(r) ==
    /\ Seeding(r) /\ seeding[r].missing # {}
    /\ \E chunk \in SUBSET seeding[r].missing \ {{}} :
        IF verseIndex = "created" /\ \E v \in chunk : copies[v] > 0
        THEN /\ seeding' = [seeding EXCEPT ![r].pc = "ended"]
             /\ UNCHANGED <<copies, survey>>
        ELSE /\ \A v \in chunk : copies[v] < MaxCopies
             /\ copies' = [v \in IndexedVerses |-> copies[v] + (IF v \in chunk THEN 1 ELSE 0)]
             /\ seeding' = [seeding EXCEPT ![r].missing = @ \ chunk]
             /\ survey' = [survey EXCEPT !.stale = TRUE]
    /\ UNCHANGED <<verseIndex, overlap>>

\* It is done, or it is killed, and may be run again.
StopSeeding(r) ==
    /\ Seeding(r) \/ seeding[r].pc = "ended"
    /\ seeding' = [seeding EXCEPT ![r] = [pc |-> "none", missing |-> {}]]
    /\ UNCHANGED <<copies, verseIndex, survey, overlap>>

\* Another import, which gives its verses no chapter.
InsertLoose ==
    /\ \E v \in LooseVerses : copies[v] < MaxCopies /\ copies' = [copies EXCEPT ![v] = @ + 1]
    /\ survey' = [survey EXCEPT !.stale = TRUE]
    /\ UNCHANGED <<verseIndex, seeding, overlap>>

VerseInit ==
    /\ copies = [v \in IndexedVerses |-> 0] /\ verseIndex = "absent"
    /\ survey = [exit |-> "none", stale |-> TRUE]
    /\ seeding = [r \in Seedings |-> [pc |-> "none", missing |-> {}]] /\ overlap = FALSE

VerseNext ==
    \/ Survey
    \/ Deploy
    \/ Repair
    \/ \E r \in Seedings : ReadGaps(r) \/ InsertChunk(r) \/ StopSeeding(r)
    \/ InsertLoose

-----------------------------------------------------------------------------
\* A clean survey after which no row came means that the migration creates its
\* index; the index, once there, leaves a verse of a chapter one row; and only
\* runs of the seed that overlap write a second one, never a run after another
\* that was killed (check-hindu-verse-duplicates.ts:36-40, seed-ramayana.ts:17).
IndexSafe ==
    LET unique == \A v \in ChapterVerses : copies[v] <= 1
    IN  /\ survey.exit = "clean" /\ ~ survey.stale => unique
        /\ verseIndex = "created" => unique
        /\ ~ overlap => unique
=============================================================================
