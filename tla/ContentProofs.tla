---------------------------- MODULE ContentProofs ----------------------------
(***************************************************************************)
(* The content, for any lists, editions, remedies and collections, and any  *)
(* number of runs, faults and rows that come meanwhile: what the scripts    *)
(* that seed it leave, and what the scripts that guard it answer.           *)
(*                                                                          *)
(* Seeds: SeedInv has of each script ScriptOK, which says of a run under    *)
(* way what it has filled (Fills), what it is about to create (Creates) and *)
(* what it has counted (RunCounts), and of the script at rest what          *)
(* SeedsWhole says.  A step touches one script; Elsewhere carries the rest. *)
(*                                                                          *)
(* Guards, each with what it remembers of the rows that it has read:        *)
(* VerseInv for the survey before the verses' index; CitationInv for the    *)
(* gate of the collections (an item that is ticked off was found, and rows  *)
(* only come); NumbersInv for the numbers of hadiths, their backfill and    *)
(* their gate; FeelingsInv for the gate of the feelings' remedies.          *)
(***************************************************************************)
EXTENDS ContentSeeds, CitationGate, FeelingsGate, HadithNumbers, VerseIndex, RequestProofs,
        FiniteSetTheorems, SequenceTheorems, TLAPS

\* What the plans of the scripts have in common.
LEMMA PlansAre ==
    ASSUME NEW s \in DOMAIN Script
    PROVE  /\ s # "none" /\ s \in Probed(s)
           /\ Script[s].skip \in {"any", "all", "never"}
           /\ Script[s].clear \in {"nothing", "strays", "all"}
           /\ Script[s].write \in {"upsert", "insert", "find", "absent", "refill"}
           /\ Script[s].child \in {"never", "created", "always", "after"}
           /\ Script[s].skip = "any" =>
                /\ s \in NeverRepaired /\ Script[s].clear = "nothing" /\ s # "hadiths"
                /\ Script[s].child = "never" /\ Script[s].write \in {"insert", "upsert"}
           /\ Script[s].skip = "all" =>
                Script[s].clear = "nothing" /\ Script[s].child = "never" /\ s # "hadiths"
           /\ s = "indopak" => Script[s].skip = "all"
           /\ s = "hadiths" => Script[s].clear = "all" /\ Script[s].write = "insert"
           /\ Script[s].clear # "nothing" =>
                Script[s].child = "never" /\ Script[s].write \in {"upsert", "insert", "refill"}
           /\ Script[s].child = "created" => s \in NeverRepaired /\ Script[s].write = "absent"
           /\ Script[s].child = "always" => Script[s].write # "absent"
           /\ Script[s].write = "absent" => s \notin OfVerses
           /\ Script[s].clear # "nothing" => s \notin OfVerses
           /\ "none" \notin DOMAIN Script
<1> USE DEF Script, Probed, NeverRepaired, OfVerses, Plan, Roles, SurahRows, VerseRows, Saheeh, PremiumEdition,
        Transliteration, Uthmani, IndoPak, MuhammadNames, AladhanEvents, CalculationMethods, AllahNames, IslamicEvents,
        FirstEvents, FirstDuas, FirstFeelings, Reciters, Duas, Feelings, HadithBook, Gita, GitaFull, GitaHindi,
        GitaAudio, Ramayana, HinduFeelings, Stories, Temples, Stotras, Festivals, Collections
<1>1. s # "none" /\ s \in Probed(s)
  OBVIOUS
<1>3. Script[s].skip \in {"any", "all", "never"}
  OBVIOUS
<1>4. Script[s].clear \in {"nothing", "strays", "all"}
  OBVIOUS
<1>5. Script[s].write \in {"upsert", "insert", "find", "absent", "refill"}
  OBVIOUS
<1>6. Script[s].child \in {"never", "created", "always", "after"}
  OBVIOUS
<1>7. Script[s].skip = "any" =>
        /\ s \in NeverRepaired /\ Script[s].clear = "nothing" /\ s # "hadiths"
        /\ Script[s].child = "never" /\ Script[s].write \in {"insert", "upsert"}
  OBVIOUS
<1>8. Script[s].skip = "all" =>
        Script[s].clear = "nothing" /\ Script[s].child = "never" /\ s # "hadiths"
  OBVIOUS
<1>9. s = "indopak" => Script[s].skip = "all"
  OBVIOUS
<1>10. s = "hadiths" => Script[s].clear = "all" /\ Script[s].write = "insert"
  OBVIOUS
<1>11. Script[s].clear # "nothing" =>
        Script[s].child = "never" /\ Script[s].write \in {"upsert", "insert", "refill"}
  OBVIOUS
<1>12. Script[s].child = "created" => s \in NeverRepaired /\ Script[s].write = "absent"
  OBVIOUS
<1>13. Script[s].child = "always" => Script[s].write # "absent"
  OBVIOUS
<1>14. Script[s].write = "absent" => s \notin OfVerses
  OBVIOUS
<1>15. Script[s].clear # "nothing" => s \notin OfVerses
  OBVIOUS
<1>16. "none" \notin DOMAIN Script
  OBVIOUS
<1> HIDE DEF Script, Probed, NeverRepaired, OfVerses, Plan, Roles, SurahRows, VerseRows, Saheeh, PremiumEdition,
        Transliteration, Uthmani, IndoPak, MuhammadNames, AladhanEvents, CalculationMethods, AllahNames, IslamicEvents,
        FirstEvents, FirstDuas, FirstFeelings, Reciters, Duas, Feelings, HadithBook, Gita, GitaFull, GitaHindi,
        GitaAudio, Ramayana, HinduFeelings, Stories, Temples, Stotras, Festivals, Collections
<1> QED
  BY <1>1, <1>3, <1>4, <1>5, <1>6, <1>7, <1>8, <1>9, <1>10, <1>11, <1>12, <1>13, <1>14, <1>15, <1>16

LEMMA GroupsAre == \A g \in Groups : g \subseteq DOMAIN Script
BY DEF Groups, Together, Script

Phases == {"idle", "head", "clear", "rows", "create", "child"}

WorkRow ==
    [script : group \union {"none"}, phase : Phases, todo : SUBSET Items,
     item : Items \union {"none"}, stored : Nat, short : BOOLEAN,
     promote : {"none", "draft", "reviewed"}]

SeedTypeOK ==
    /\ group \in Groups
    /\ file \in [group -> SUBSET Items]
    /\ rows \in [group -> [Items -> Nat]]
    /\ children \in [group -> SUBSET Items]
    /\ work \in [Runs -> WorkRow]
    /\ last \in [group -> {"none", "well", "torn"}]
    /\ sound \in [group -> BOOLEAN] /\ overlapped \in [group -> BOOLEAN]
    /\ \A r \in Runs : work[r].phase = "idle" <=> work[r].script = "none"

RunOf(r, s) == work[r].script = s
Past(r) == work[r].phase \in {"rows", "create", "child"}

\* A run has filled what it has dealt with; one that deletes everything first,
\* unless another did so since.
Fills(r, s) ==
    /\ work[r].todo \subseteq file[s]
    /\ ~ work[r].short /\ (Script[s].clear = "all" => ~ overlapped[s]) =>
        file[s] \ work[r].todo \subseteq Filled(s)
    /\ work[r].phase = "clear" => Script[s].clear # "nothing"
    /\ Script[s].clear = "all" /\ ~ Past(r) => work[r].todo = file[s]
    /\ Script[s].clear # "nothing" /\ Past(r) => Filled(s) \subseteq file[s]

\* An item about to be created has none, and is not done; the second rows are
\* those of the items dealt with, but for the one at hand.
Creates(r, s) ==
    /\ work[r].phase = "create" =>
        /\ work[r].item \in work[r].todo /\ Script[s].write = "find"
        /\ ~ overlapped[s] => ~ Has(s, work[r].item)
    /\ work[r].phase = "child" => Script[s].child \in {"created", "always"} /\ work[r].item \in Items
    /\ Script[s].child = "always" /\ ~ work[r].short =>
        \A i \in file[s] \ work[r].todo :
            i \in children[s] \/ (work[r].phase = "child" /\ i = work[r].item)

\* A hadith book's run counts its rows; a translation that found no verse wrote
\* none.
RunCounts(r, s) ==
    /\ s = "hadiths" /\ ~ overlapped[s] =>
        work[r].stored = IF Past(r) THEN Cardinality(Filled(s)) ELSE 0
    /\ Script[s].skip = "any" /\ work[r].short /\ sound[s] /\ ~ overlapped[s] =>
        work[r].todo = {} /\ Filled(s) = {}

RunOK(r, s) == Fills(r, s) /\ Creates(r, s) /\ RunCounts(r, s)

Single(s) == Script[s].keyed \/ ~ overlapped[s] => \A i \in Items : rows[s][i] <= 1
OneAtMost(s) == ~ overlapped[s] => \A r, q \in Runs : RunOf(r, s) /\ RunOf(q, s) => r = q

\* A verse without its translation is being given it.
Paired(s) ==
    Script[s].child = "created" /\ sound[s] =>
        \A i \in Filled(s) \ children[s] :
            \E r \in Runs : RunOf(r, s) /\ work[r].phase = "child" /\ work[r].item = i

\* A script that is content with any row finds all of them, if no run of it was stopped.
AllOrNothing(s) ==
    Script[s].skip = "any" /\ sound[s] /\ ~ overlapped[s] /\ ~ Busy(s) /\ Filled(s) # {} =>
        file[s] \subseteq Filled(s)

\* What SeedsComplete says of a script.
Complete(s) ==
    /\ last[s] = "well" /\ ~ Busy(s)
    /\ s \in NeverRepaired => sound[s] /\ ~ overlapped[s]
    /\ Script[s].clear = "all" => ~ overlapped[s]
    => /\ file[s] \subseteq Filled(s)
       /\ Script[s].child # "never" => file[s] \subseteq children[s]
       /\ Script[s].clear # "nothing" => Filled(s) \subseteq file[s]
       /\ s = "hadiths" => total = Cardinality(Filled(s))

ScriptOK(s) ==
    /\ Script[s].skip # "never" => file[s] = Items
    /\ Single(s) /\ OneAtMost(s) /\ Paired(s) /\ AllOrNothing(s) /\ Complete(s)
    /\ \A r \in Runs : RunOf(r, s) => RunOK(r, s)

SeedInv == SeedTypeOK /\ \A s \in group : ScriptOK(s)

LEMMA ScriptsKnown ==
    ASSUME SeedTypeOK, NEW s \in group
    PROVE  s \in DOMAIN Script /\ s # "none"
BY GroupsAre, PlansAre DEF SeedTypeOK

\* A step leaves alone the scripts it is not of.
SameOf(t) ==
    /\ file'[t] = file[t] /\ rows'[t] = rows[t] /\ children'[t] = children[t]
    /\ last'[t] = last[t] /\ sound'[t] = sound[t] /\ overlapped'[t] = overlapped[t]
    /\ t = "hadiths" => total' = total
    /\ \A r \in Runs : work'[r] = work[r] \/ (~ RunOf(r, t) /\ ~ RunOf(r, t)')

LEMMA Elsewhere ==
    ASSUME NEW t, ScriptOK(t), SameOf(t)
    PROVE  ScriptOK(t)'
<1>1. Filled(t)' = Filled(t)
  BY DEF SameOf, Filled, Has
<1>2. \A r \in Runs : RunOf(r, t)' <=> RunOf(r, t)
  BY DEF SameOf, RunOf
<1>3. \A r \in Runs : RunOf(r, t) => work'[r] = work[r]
  BY DEF SameOf
<1>4. Busy(t)' <=> Busy(t)
  BY <1>2 DEF Busy, RunOf
<1>5. \A r \in Runs : RunOf(r, t)' => RunOK(r, t)'
  <2> SUFFICES ASSUME NEW r \in Runs, RunOf(r, t) PROVE RunOK(r, t)'
    BY <1>2
  <2>1. RunOK(r, t) /\ work'[r] = work[r]
    BY <1>3 DEF ScriptOK
  <2>2. Fills(r, t)'
    BY <1>1, <2>1 DEF RunOK, Fills, SameOf, Past
  <2>3. Creates(r, t)'
    BY <1>1, <2>1 DEF RunOK, Creates, SameOf, Has
  <2>4. RunCounts(r, t)'
    BY <1>1, <2>1 DEF RunOK, RunCounts, SameOf, Past
  <2> QED
    BY <2>2, <2>3, <2>4 DEF RunOK
<1>6. Single(t)' /\ AllOrNothing(t)' /\ Complete(t)'
  BY <1>1, <1>4 DEF ScriptOK, Single, AllOrNothing, Complete, SameOf
<1>7. OneAtMost(t)'
  BY <1>2 DEF ScriptOK, OneAtMost, SameOf
<1>8. Paired(t)'
  BY <1>1, <1>2, <1>3 DEF ScriptOK, Paired, SameOf
<1> QED
  BY <1>5, <1>6, <1>7, <1>8 DEF ScriptOK, SameOf

\* A run of a script that others overlap is not disturbed by what they fill,
\* clear or translate.
LEMMA OthersKeep ==
    ASSUME NEW s, NEW q \in Runs, RunOK(q, s),
           work'[q] = work[q], file'[s] = file[s],
           overlapped'[s], overlapped[s] \/ overlapped[s] = FALSE,
           children[s] \subseteq children'[s],
           Script[s].clear # "all" => Filled(s) \intersect file[s] \subseteq Filled(s)',
           Filled(s)' \subseteq Filled(s) \union file[s]
    PROVE  RunOK(q, s)'
<1>1. Fills(q, s)'
  BY DEF RunOK, Fills, Past
<1>2. Creates(q, s)'
  BY DEF RunOK, Creates
<1>3. RunCounts(q, s)'
  BY DEF RunOK, RunCounts
<1> QED
  BY <1>1, <1>2, <1>3 DEF RunOK

\* A run that goes on.
LEMMA GoesOn ==
    ASSUME SeedInv, NEW r \in Runs, NEW s \in group, RunOf(r, s), RunOf(r, s)',
           UNCHANGED <<file, last, sound, overlapped>>,
           \A q \in Runs : q # r => work'[q] = work[q],
           \A t \in group : t # s => rows'[t] = rows[t] /\ children'[t] = children[t],
           s # "hadiths" => total' = total,
           children[s] \subseteq children'[s],
           Script[s].clear # "all" => Filled(s) \intersect file[s] \subseteq Filled(s)',
           Filled(s)' \subseteq Filled(s) \union file[s],
           Single(s)', Paired(s)', RunOK(r, s)'
    PROVE  \A t \in group : ScriptOK(t)'
<1> SUFFICES ASSUME NEW t \in group PROVE ScriptOK(t)'
  OBVIOUS
<1>0. ScriptOK(t) /\ ScriptOK(s)
  BY DEF SeedInv
<1>1. CASE t # s
  <2>1. \A q \in Runs : work'[q] = work[q] \/ (~ RunOf(q, t) /\ ~ RunOf(q, t)')
    BY <1>1 DEF RunOf
  <2>2. t = "hadiths" => total' = total
    BY <1>1
  <2>3. SameOf(t)
    BY <1>1, <2>1, <2>2 DEF SameOf
  <2> QED
    BY <1>0, <2>3, Elsewhere
<1>2. CASE t = s
  <2>1. \A q \in Runs : RunOf(q, s)' <=> RunOf(q, s)
    BY DEF RunOf
  <2>2. Busy(s)'
    BY DEF Busy, RunOf
  <2>3. OneAtMost(s)'
    BY <1>0, <2>1 DEF ScriptOK, OneAtMost
  <2>4. AllOrNothing(s)' /\ Complete(s)'
    BY <2>2 DEF AllOrNothing, Complete
  <2>5. \A q \in Runs : RunOf(q, s)' => RunOK(q, s)'
    <3> SUFFICES ASSUME NEW q \in Runs, RunOf(q, s)', q # r PROVE RunOK(q, s)'
      OBVIOUS
    <3>1. RunOf(q, s) /\ RunOK(q, s)
      BY <1>0, <2>1 DEF ScriptOK
    <3>2. overlapped[s]
      BY <1>0, <3>1 DEF ScriptOK, OneAtMost
    <3>3. overlapped'[s] /\ file'[s] = file[s] /\ work'[q] = work[q]
      BY <3>2
    <3> QED
      BY <3>1, <3>2, <3>3, OthersKeep
  <2> QED
    BY <1>0, <1>2, <2>3, <2>4, <2>5 DEF ScriptOK
<1> QED
  BY <1>1, <1>2

LEMMA RunsTyped ==
    ASSUME SeedTypeOK, NEW r \in Runs
    PROVE  /\ work[r] \in WorkRow /\ DOMAIN work = Runs
           /\ work[r].script \in group \union {"none"} /\ work[r].phase \in Phases
           /\ work[r].todo \subseteq Items /\ work[r].stored \in Nat /\ work[r].short \in BOOLEAN
           /\ work[r].item \in Items \union {"none"}
           /\ work[r].promote \in {"none", "draft", "reviewed"}
BY DEF SeedTypeOK, WorkRow

LEMMA UnderWay ==
    ASSUME SeedInv, NEW r \in Runs, work[r].phase # "idle"
    PROVE  \E s \in group : work[r].script = s
BY RunsTyped DEF SeedInv, SeedTypeOK

LEMMA RunKnown ==
    ASSUME SeedInv, NEW r \in Runs, NEW s \in group, work[r].script = s
    PROVE  /\ s \in DOMAIN Script /\ s # "none" /\ work[r].phase # "idle"
           /\ RunOf(r, s) /\ ScriptOK(s) /\ RunOK(r, s)
BY ScriptsKnown DEF SeedInv, SeedTypeOK, ScriptOK, RunOf

LEMMA TablesTyped ==
    ASSUME SeedTypeOK, NEW s \in group
    PROVE  /\ file[s] \subseteq Items /\ rows[s] \in [Items -> Nat] /\ children[s] \subseteq Items
           /\ sound[s] \in BOOLEAN /\ overlapped[s] \in BOOLEAN
           /\ Filled(s) \subseteq Items /\ IsFiniteSet(Filled(s))
<1>1. Filled(s) \subseteq Items /\ IsFiniteSet(Items)
  BY SeedAssumption DEF Filled
<1> QED
  BY <1>1, FS_Subset DEF SeedTypeOK

\* A run's record replaced by another, which keeps its script.
LEMMA RunReplaced ==
    ASSUME SeedTypeOK, UNCHANGED <<group, file, last, sound, overlapped>>, NEW r \in Runs,
           NEW s \in group, work[r].script = s, work[r].phase # "idle",
           work' = [work EXCEPT ![r] = work'[r]], work'[r] \in WorkRow,
           work'[r].phase # "idle", work'[r].script = s,
           rows' \in [group -> [Items -> Nat]], children' \in [group -> SUBSET Items]
    PROVE  /\ SeedTypeOK' /\ RunOf(r, s)'
           /\ \A q \in Runs : q # r => work'[q] = work[q]
<1>1. WorkRow' = WorkRow
  BY DEF WorkRow
<1>2. work' \in [Runs -> WorkRow] /\ \A q \in Runs : q # r => work'[q] = work[q]
  <2> DEFINE record == work'[r]
  <2>1. work' = [work EXCEPT ![r] = record] /\ record \in WorkRow
    OBVIOUS
  <2> HIDE DEF record
  <2> QED
    BY <2>1 DEF SeedTypeOK
<1>3. \A q \in Runs : work'[q].phase = "idle" <=> work'[q].script = "none"
  BY <1>2 DEF SeedTypeOK
<1> QED
  BY <1>1, <1>2, <1>3 DEF SeedTypeOK, RunOf

LEMMA HeadKeeps ==
    ASSUME SeedInv, UNCHANGED group, NEW r \in Runs, NEW s \in group, work[r].script = s,
           WriteHead(r)
    PROVE  SeedInv'
<1> DEFINE next == IF Script[s].clear = "nothing" THEN "rows" ELSE "clear"
           record == [work[r] EXCEPT !.phase = next]
<1>1. s \in DOMAIN Script /\ RunOf(r, s) /\ ScriptOK(s) /\ RunOK(r, s)
  BY RunKnown
<1>2. work[r] \in WorkRow /\ work[r].phase = "head"
  BY RunsTyped DEF SeedInv, WriteHead
<1>3. record \in WorkRow /\ record.phase = next /\ record.script = s /\ record.todo = work[r].todo
      /\ record.short = work[r].short /\ record.stored = work[r].stored /\ record.item = work[r].item
  BY <1>2 DEF WorkRow, Phases
<1>4. work' = [work EXCEPT ![r] = record] /\ work'[r] = record
  <2>1. work' = [work EXCEPT ![r] = record]
    BY <1>2, RunsTyped DEF WriteHead, GoOn, Mine, SeedInv
  <2> HIDE DEF record
  <2> QED
    BY <2>1, RunsTyped DEF SeedInv
<1>5. UNCHANGED <<group, file, rows, children, last, sound, overlapped>> /\ (s # "hadiths" => total' = total)
  BY DEF WriteHead
<1>6. /\ SeedTypeOK' /\ work'[r] = record /\ RunOf(r, s)'
      /\ \A q \in Runs : q # r => work'[q] = work[q]
  <2>1. rows' \in [group -> [Items -> Nat]] /\ children' \in [group -> SUBSET Items]
    BY <1>5 DEF SeedInv, SeedTypeOK
  <2> HIDE DEF record
  <2> QED
    BY <1>1, <1>2, <1>3, <1>4, <1>5, <2>1, RunReplaced DEF SeedInv
<1>7. Filled(s)' = Filled(s)
  BY <1>5 DEF Filled, Has
<1>8. RunOK(r, s)'
  <2> HIDE DEF record
  <2>1. Fills(r, s)'
    BY <1>1, <1>2, <1>3, <1>5, <1>6, <1>7 DEF RunOK, Fills, Past
  <2>2. Creates(r, s)'
    BY <1>1, <1>2, <1>3, <1>5, <1>6 DEF RunOK, Creates
  <2>3. RunCounts(r, s)'
    BY <1>1, <1>2, <1>3, <1>5, <1>6, <1>7, PlansAre DEF RunOK, RunCounts, Past
  <2> QED
    BY <2>1, <2>2, <2>3 DEF RunOK
<1>9. Single(s)'
  BY <1>1, <1>5 DEF ScriptOK, Single
<1>10. Paired(s)'
  BY <1>1, <1>2, <1>5, <1>6, <1>7 DEF ScriptOK, Paired, RunOf
<1>11. \A t \in group : ScriptOK(t)'
  BY <1>1, <1>5, <1>6, <1>7, <1>8, <1>9, <1>10, GoesOn
<1> QED
  BY <1>5, <1>6, <1>11 DEF SeedInv

LEMMA ClearKeeps ==
    ASSUME SeedInv, UNCHANGED group, NEW r \in Runs, NEW s \in group, work[r].script = s,
           Clear(r)
    PROVE  SeedInv'
<1> DEFINE kept == IF Script[s].clear = "strays" THEN file[s] ELSE {}
           record == [work[r] EXCEPT !.phase = "rows"]
<1>1. s \in DOMAIN Script /\ RunOf(r, s) /\ ScriptOK(s) /\ RunOK(r, s)
  BY RunKnown
<1>2. work[r] \in WorkRow /\ work[r].phase = "clear"
  BY RunsTyped DEF SeedInv, Clear
<1>3. record \in WorkRow /\ record.phase = "rows" /\ record.script = s /\ record.todo = work[r].todo
      /\ record.short = work[r].short /\ record.stored = work[r].stored /\ record.item = work[r].item
  BY <1>2 DEF WorkRow, Phases
<1>4. work' = [work EXCEPT ![r] = record] /\ work'[r] = record
  <2>1. work' = [work EXCEPT ![r] = record]
    BY <1>2, RunsTyped DEF Clear, SeedInv
  <2> HIDE DEF record
  <2> QED
    BY <2>1, RunsTyped DEF SeedInv
<1>5. UNCHANGED <<group, file, children, total, last, sound, overlapped>>
      /\ rows' = [rows EXCEPT ![s] = [i \in Items |-> IF i \in kept THEN rows[s][i] ELSE 0]]
  BY DEF Clear, Mine
<1>6. /\ rows' \in [group -> [Items -> Nat]] /\ children' \in [group -> SUBSET Items]
      /\ \A i \in Items : rows'[s][i] = IF i \in kept THEN rows[s][i] ELSE 0
      /\ \A t \in group : t # s => rows'[t] = rows[t]
  <2>1. rows \in [group -> [Items -> Nat]] /\ children \in [group -> SUBSET Items] /\ rows[s] \in [Items -> Nat]
    BY <1>1, TablesTyped DEF SeedInv, SeedTypeOK
  <2>2. [i \in Items |-> IF i \in kept THEN rows[s][i] ELSE 0] \in [Items -> Nat]
    BY <2>1
  <2> HIDE DEF kept
  <2> QED
    BY <1>1, <1>5, <2>1, <2>2
<1>7. /\ SeedTypeOK' /\ work'[r] = record /\ RunOf(r, s)'
      /\ \A q \in Runs : q # r => work'[q] = work[q]
  <2> HIDE DEF record, kept
  <2> QED
    BY <1>1, <1>2, <1>3, <1>4, <1>5, <1>6, RunReplaced DEF SeedInv
<1>8. Filled(s)' = Filled(s) \intersect kept
  <2> HIDE DEF kept
  <2> QED
    BY <1>6 DEF Filled, Has
<1>9. Script[s].clear \in {"strays", "all"} /\ Script[s].child = "never" /\ Script[s].skip # "any"
  BY <1>1, <1>2, PlansAre DEF RunOK, Fills
<1>10. RunOK(r, s)'
  <2>1. Fills(r, s)'
    BY <1>1, <1>2, <1>3, <1>5, <1>7, <1>8, <1>9 DEF RunOK, Fills, Past
  <2> HIDE DEF record
  <2>2. Creates(r, s)'
    BY <1>3, <1>7, <1>9 DEF Creates
  <2>3. RunCounts(r, s)'
    <3>1. ASSUME s = "hadiths", ~ overlapped[s] PROVE Filled(s)' = {} /\ work[r].stored = 0
      BY <1>1, <1>2, <1>8, <3>1, PlansAre DEF RunOK, RunCounts, Past
    <3>2. Cardinality({}) = 0
      BY FS_EmptySet
    <3> QED
      BY <1>3, <1>5, <1>7, <1>9, <3>1, <3>2 DEF RunCounts, Past
  <2> QED
    BY <2>1, <2>2, <2>3 DEF RunOK
<1>11. Single(s)'
  <2>1. rows[s] \in [Items -> Nat]
    BY <1>1, TablesTyped DEF SeedInv
  <2> HIDE DEF kept
  <2> QED
    BY <1>1, <1>5, <1>6, <2>1 DEF ScriptOK, Single
<1>12. Paired(s)'
  BY <1>9 DEF Paired
<1>13. \A t \in group : ScriptOK(t)'
  <2> HIDE DEF record
  <2>1. Script[s].clear # "all" => Filled(s) \intersect file[s] \subseteq Filled(s)'
    BY <1>8, <1>9
  <2> HIDE DEF kept
  <2> QED
    BY <1>1, <1>5, <1>6, <1>7, <1>8, <1>10, <1>11, <1>12, <2>1, GoesOn
<1> QED
  BY <1>5, <1>7, <1>13 DEF SeedInv

\* A row added.
LEMMA RowAdded ==
    ASSUME SeedTypeOK, NEW s \in group, NEW i \in Items, Add(s, i)
    PROVE  /\ rows' \in [group -> [Items -> Nat]]
           /\ \A t \in group : t # s => rows'[t] = rows[t]
           /\ Filled(s)' = Filled(s) \union {i}
           /\ \A j \in Items : rows'[s][j] = IF j = i THEN rows[s][j] + 1 ELSE rows[s][j]
<1>1. rows \in [group -> [Items -> Nat]] /\ rows[s] \in [Items -> Nat]
  BY TablesTyped DEF SeedTypeOK
<1>2. rows' = [rows EXCEPT ![s] = [rows[s] EXCEPT ![i] = rows[s][i] + 1]]
  BY DEF Add
<1>3. [rows[s] EXCEPT ![i] = rows[s][i] + 1] \in [Items -> Nat]
  BY <1>1
<1>4. rows'[s] = [rows[s] EXCEPT ![i] = rows[s][i] + 1]
  BY <1>1, <1>2
<1>5. \A j \in Items : rows'[s][j] = IF j = i THEN rows[s][j] + 1 ELSE rows[s][j]
  BY <1>1, <1>4
<1>6. Filled(s)' = Filled(s) \union {i}
  BY <1>1, <1>5 DEF Filled, Has
<1>7. rows' \in [group -> [Items -> Nat]] /\ \A t \in group : t # s => rows'[t] = rows[t]
  <2> DEFINE row == [rows[s] EXCEPT ![i] = rows[s][i] + 1]
  <2>1. row \in [Items -> Nat] /\ rows' = [rows EXCEPT ![s] = row]
    BY <1>2, <1>3
  <2> HIDE DEF row
  <2> QED
    BY <1>1, <2>1
<1> QED
  BY <1>5, <1>6, <1>7

\* A run that an error, or the operator, ends.
LEMMA LeavesTorn ==
    ASSUME SeedInv, NEW r \in Runs, NEW s \in group, work[r].script = s,
           work[r].phase # "idle", Leave(r, "torn"),
           UNCHANGED <<group, file, rows, children, total, overlapped>>,
           sound' = [sound EXCEPT ![s] = FALSE]
    PROVE  SeedInv'
<1>1. s \in DOMAIN Script /\ RunOf(r, s) /\ ScriptOK(s) /\ s # "none"
  BY RunKnown
<1>2. /\ work'[r] = Resting /\ \A q \in Runs : q # r => work'[q] = work[q]
      /\ last'[s] = "torn" /\ ~ sound'[s] /\ sound'[s] = FALSE
      /\ \A t \in group : t # s => last'[t] = last[t] /\ sound'[t] = sound[t]
  BY <1>1 DEF Leave, SeedInv, SeedTypeOK
<1>3. SeedTypeOK'
  <2>1. Resting \in WorkRow' /\ WorkRow' = WorkRow /\ Resting.phase = "idle" /\ Resting.script = "none"
    BY DEF Resting, WorkRow, Phases
  <2>2. work' \in [Runs -> WorkRow'] /\ \A q \in Runs : work'[q].phase = "idle" <=> work'[q].script = "none"
    BY <1>2, <2>1 DEF Leave, SeedInv, SeedTypeOK
  <2>3. last' \in [group' -> {"none", "well", "torn"}] /\ sound' \in [group' -> BOOLEAN]
    BY <1>1 DEF Leave, SeedInv, SeedTypeOK
  <2> QED
    BY <2>2, <2>3 DEF SeedInv, SeedTypeOK
<1>4. Filled(s)' = Filled(s)
  BY DEF Filled, Has
<1>5. \A q \in Runs : RunOf(q, s)' => q # r /\ RunOf(q, s) /\ work'[q] = work[q]
  BY <1>1, <1>2 DEF RunOf, Resting
<1>6. \A q \in Runs : RunOf(q, s)' => RunOK(q, s)'
  <2> SUFFICES ASSUME NEW q \in Runs, RunOf(q, s)' PROVE RunOK(q, s)'
    OBVIOUS
  <2>1. q # r /\ RunOf(q, s) /\ work'[q] = work[q] /\ RunOK(q, s)
    BY <1>1, <1>5 DEF ScriptOK
  <2>2. overlapped[s]
    BY <1>1, <2>1 DEF ScriptOK, OneAtMost
  <2> QED
    BY <1>4, <2>1, <2>2, OthersKeep
<1>7. ScriptOK(s)'
  <2>1. Single(s)' /\ Paired(s)' /\ AllOrNothing(s)' /\ Complete(s)'
    BY <1>1, <1>2 DEF ScriptOK, Single, Paired, AllOrNothing, Complete
  <2>2. OneAtMost(s)'
    BY <1>1, <1>5 DEF ScriptOK, OneAtMost
  <2> QED
    BY <1>1, <1>6, <2>1, <2>2 DEF ScriptOK
<1>8. ASSUME NEW t \in group, t # s PROVE ScriptOK(t)'
  <2>1. t # "none" /\ ScriptOK(t)
    BY ScriptsKnown DEF SeedInv
  <2>2. \A q \in Runs : work'[q] = work[q] \/ (~ RunOf(q, t) /\ ~ RunOf(q, t)')
    BY <1>2, <1>8, <2>1 DEF RunOf, Resting
  <2>3. SameOf(t)
    BY <1>2, <1>8, <2>2 DEF SameOf
  <2> QED
    BY <2>1, <2>3, Elsewhere
<1> QED
  BY <1>3, <1>7, <1>8 DEF SeedInv

\* The next item, which has its row.
LEMMA ProceedKeeps ==
    ASSUME SeedInv, NEW r \in Runs, NEW s \in group, work[r].script = s,
           NEW i \in work[r].todo, work[r].phase \in {"rows", "create"},
           Proceed(r, i, Mine(r).child = "always"),
           UNCHANGED <<group, file, children, total, last, sound, overlapped>>,
           \/ UNCHANGED rows /\ Has(s, i) /\ work[r].phase = "rows"
           \/ /\ Add(s, i) /\ work[r].phase = "create" /\ work[r].item = i
              /\ Mine(r).keyed => ~ Has(s, i)
    PROVE  SeedInv'
<1> DEFINE child == Script[s].child = "always"
           record == [work[r] EXCEPT !.phase = IF child THEN "child" ELSE "rows",
                                     !.item = IF child THEN i ELSE "none",
                                     !.todo = work[r].todo \ {i}]
<1>1. s \in DOMAIN Script /\ RunOf(r, s) /\ ScriptOK(s) /\ RunOK(r, s)
  BY RunKnown
<1>2. work[r] \in WorkRow /\ work[r].todo \subseteq Items /\ i \in Items
  BY RunsTyped DEF SeedInv
<1>3. record \in WorkRow /\ record.phase = (IF child THEN "child" ELSE "rows") /\ record.script = s
      /\ record.todo = work[r].todo \ {i} /\ (child => record.item = i)
      /\ record.short = work[r].short /\ record.stored = work[r].stored
  BY <1>2 DEF WorkRow, Phases
<1>4. work' = [work EXCEPT ![r] = record] /\ work'[r] = record
  <2>1. work' = [work EXCEPT ![r] = record]
    BY <1>2, RunsTyped DEF Proceed, Mine, SeedInv
  <2> HIDE DEF record
  <2> QED
    BY <2>1, RunsTyped DEF SeedInv
<1>5. /\ rows' \in [group -> [Items -> Nat]] /\ children' \in [group -> SUBSET Items]
      /\ Filled(s)' = Filled(s) \union {i}
      /\ \A t \in group : t # s => rows'[t] = rows[t]
  <2>1. children' \in [group -> SUBSET Items]
    BY DEF SeedInv, SeedTypeOK
  <2>2. CASE UNCHANGED rows /\ Has(s, i)
    BY <1>2, <2>1, <2>2 DEF Filled, Has, SeedInv, SeedTypeOK
  <2>3. CASE Add(s, i)
    BY <1>1, <1>2, <2>1, <2>3, RowAdded DEF SeedInv
  <2> QED
    BY <2>2, <2>3
<1>6. /\ SeedTypeOK' /\ work'[r] = record /\ RunOf(r, s)'
      /\ \A q \in Runs : q # r => work'[q] = work[q]
  <2> HIDE DEF record
  <2>1. record.phase # "idle"
    BY <1>3
  <2> QED
    BY <1>1, <1>2, <1>3, <1>4, <1>5, <2>1, RunReplaced DEF SeedInv
<1>7. RunOK(r, s)'
  <2> HIDE DEF record
  <2>1. Fills(r, s)'
    BY <1>1, <1>3, <1>5, <1>6 DEF RunOK, Fills, Past
  <2>2. Creates(r, s)'
    <3>1. CASE child
      BY <1>1, <1>2, <1>3, <1>6, <3>1 DEF RunOK, Creates
    <3>2. CASE ~ child
      BY <1>3, <1>6, <3>2 DEF Creates
    <3> QED
      BY <3>1, <3>2
  <2>3. RunCounts(r, s)'
    <3>1. s = "hadiths" => UNCHANGED rows /\ Filled(s)' = Filled(s)
      BY <1>1, PlansAre DEF RunOK, Creates, Filled, Has
    <3> QED
      BY <1>1, <1>3, <1>6, <3>1 DEF RunOK, RunCounts, Past
  <2> QED
    BY <2>1, <2>2, <2>3 DEF RunOK
<1>8. Single(s)'
  <2>1. CASE UNCHANGED rows
    BY <1>1, <2>1 DEF ScriptOK, Single
  <2>2. CASE Add(s, i) /\ work[r].phase = "create" /\ work[r].item = i /\ (Mine(r).keyed => ~ Has(s, i))
    <3>1. rows[s] \in [Items -> Nat]
      BY <1>1, TablesTyped DEF SeedInv
    <3>2. \A j \in Items : rows'[s][j] = IF j = i THEN rows[s][j] + 1 ELSE rows[s][j]
      BY <1>1, <1>2, <2>2, RowAdded DEF SeedInv
    <3>3. Script[s].keyed \/ ~ overlapped[s] => ~ Has(s, i)
      <4>1. work[r].item = i
        BY <2>2
      <4> QED
        BY <1>1, <2>2, <4>1, Zenon DEF RunOK, Creates, Mine
    <3>4. ~ Has(s, i) => rows[s][i] = 0
      BY <1>2, <3>1 DEF Has
    <3> QED
      BY <1>1, <3>1, <3>2, <3>3, <3>4 DEF ScriptOK, Single
  <2> QED
    BY <2>1, <2>2
<1>9. Paired(s)'
  <2>1. ASSUME Script[s].child = "created" PROVE UNCHANGED rows
    BY <1>1, <2>1, PlansAre DEF RunOK, Creates
  <2>2. Script[s].child = "created" => Filled(s)' = Filled(s)
    BY <2>1 DEF Filled, Has
  <2> QED
    BY <1>1, <1>6, <2>2 DEF ScriptOK, Paired, RunOf
<1>10. \A t \in group : ScriptOK(t)'
  <2>1. Filled(s)' \subseteq Filled(s) \union file[s] /\ Filled(s) \subseteq Filled(s)'
    BY <1>1, <1>5 DEF RunOK, Fills
  <2> HIDE DEF record
  <2> QED
    BY <1>1, <1>5, <1>6, <1>7, <1>8, <1>9, <2>1, GoesOn
<1> QED
  BY <1>6, <1>10 DEF SeedInv

LEMMA ItemKeeps ==
    ASSUME SeedInv, UNCHANGED group, NEW r \in Runs, NEW s \in group, work[r].script = s,
           NEW i \in Items, WriteItem(r, i)
    PROVE  SeedInv'
<1>1. s \in DOMAIN Script /\ RunOf(r, s) /\ ScriptOK(s) /\ RunOK(r, s)
  BY RunKnown
<1>2. work[r] \in WorkRow /\ work[r].phase = "rows" /\ i \in work[r].todo /\ Script[s].write # "find"
  BY RunsTyped DEF SeedInv, WriteItem, Mine
<1>3. UNCHANGED <<file, children, total, overlapped>>
  BY DEF WriteItem
<1>4. CASE ~ Has(s, i)
  <2> DEFINE paired == Script[s].child \in {"created", "always"}
             record == [work[r] EXCEPT !.todo = work[r].todo \ {i}, !.stored = work[r].stored + 1,
                                       !.phase = IF paired THEN "child" ELSE "rows", !.item = i]
  <2>1. /\ Add(s, i) /\ UNCHANGED <<last, sound>>
        /\ work' = [work EXCEPT ![r].todo = @ \ {i}, ![r].stored = @ + 1,
                        ![r].phase = IF paired THEN "child" ELSE "rows", ![r].item = i]
    BY <1>4 DEF WriteItem, Mine
  <2>2. record \in WorkRow /\ record.phase = (IF paired THEN "child" ELSE "rows") /\ record.script = s
        /\ record.todo = work[r].todo \ {i} /\ record.item = i
        /\ record.short = work[r].short /\ record.stored = work[r].stored + 1
    <3>1. work[r].stored + 1 \in Nat /\ work[r].todo \ {i} \in SUBSET Items
      BY RunsTyped DEF SeedInv
    <3> QED
      BY <1>2, <3>1 DEF WorkRow, Phases
  <2>3. work' = [work EXCEPT ![r] = record] /\ work'[r] = record
    <3>1. work' = [work EXCEPT ![r] = record]
      BY <1>2, <2>1, RunsTyped DEF SeedInv
    <3> HIDE DEF record
    <3> QED
      BY <3>1, RunsTyped DEF SeedInv
  <2>4. /\ rows' \in [group -> [Items -> Nat]]
        /\ \A t \in group : t # s => rows'[t] = rows[t]
        /\ Filled(s)' = Filled(s) \union {i}
        /\ \A j \in Items : rows'[s][j] = IF j = i THEN rows[s][j] + 1 ELSE rows[s][j]
    BY <2>1, RowAdded DEF SeedInv
  <2>5. children' \in [group -> SUBSET Items]
    BY <1>3 DEF SeedInv, SeedTypeOK
  <2>6. SeedTypeOK' /\ RunOf(r, s)' /\ \A q \in Runs : q # r => work'[q] = work[q]
    <3> HIDE DEF record
    <3>1. work[r].phase # "idle" /\ record.phase # "idle"
      BY <1>2, <2>2
    <3> QED
      BY <1>3, <2>1, <2>2, <2>3, <2>4, <2>5, <3>1, RunReplaced DEF SeedInv
  <2>7. RunOK(r, s)'
    <3> HIDE DEF record
    <3>1. Fills(r, s)'
      BY <1>1, <1>2, <1>3, <2>2, <2>3, <2>4 DEF RunOK, Fills, Past
    <3>2. Creates(r, s)'
      BY <1>1, <1>2, <1>3, <2>2, <2>3 DEF RunOK, Creates
    <3>3. RunCounts(r, s)'
      <4>1. Cardinality(Filled(s) \union {i}) = Cardinality(Filled(s)) + 1
        <5>1. IsFiniteSet(Filled(s)) /\ i \notin Filled(s)
          BY <1>4, TablesTyped DEF SeedInv, Filled
        <5> QED
          BY <5>1, FS_AddElement
      <4>2. ~ (Script[s].skip = "any" /\ work[r].short /\ sound[s] /\ ~ overlapped[s])
        BY <1>1, <1>2 DEF RunOK, RunCounts
      <4>3. (Script[s].skip = "any" /\ work'[r].short /\ sound'[s] /\ ~ overlapped'[s]) =>
                work'[r].todo = {} /\ Filled(s)' = {}
        BY <1>3, <2>1, <2>2, <2>3, <4>2
      <4>4. s = "hadiths" /\ ~ overlapped'[s] =>
                work'[r].stored = IF Past(r)' THEN Cardinality(Filled(s)') ELSE 0
        BY <1>1, <1>2, <1>3, <2>2, <2>3, <2>4, <4>1 DEF RunOK, RunCounts, Past
      <4> QED
        BY <4>3, <4>4 DEF RunCounts
    <3> QED
      BY <3>1, <3>2, <3>3 DEF RunOK
  <2>8. Single(s)'
    <3>1. rows[s] \in [Items -> Nat]
      BY TablesTyped DEF SeedInv
    <3>2. rows[s][i] = 0
      BY <1>4, <3>1 DEF Has
    <3> QED
      BY <1>1, <1>3, <2>4, <3>1, <3>2 DEF ScriptOK, Single
  <2>9. Paired(s)'
    <3> HIDE DEF record
    <3> SUFFICES ASSUME Script[s].child = "created", sound[s], NEW j \in Filled(s)' \ children[s]
                 PROVE  \E q \in Runs : RunOf(q, s)' /\ work'[q].phase = "child" /\ work'[q].item = j
      BY <1>3, <2>1 DEF Paired
    <3>1. CASE j = i
      BY <2>2, <2>3, <2>6, <3>1
    <3>2. CASE j # i
      <4>1. PICK q \in Runs : RunOf(q, s) /\ work[q].phase = "child" /\ work[q].item = j
        BY <1>1, <2>4, <3>2 DEF ScriptOK, Paired
      <4>2. q # r
        BY <1>2, <4>1
      <4> QED
        BY <2>6, <4>1, <4>2 DEF RunOf
    <3> QED
      BY <3>1, <3>2
  <2>10. \A t \in group : ScriptOK(t)'
    <3>1. /\ Filled(s)' \subseteq Filled(s) \union file[s] /\ Filled(s) \intersect file[s] \subseteq Filled(s)'
      BY <1>1, <1>2, <2>4 DEF RunOK, Fills
    <3>2. \A t \in group : t # s => rows'[t] = rows[t] /\ children'[t] = children[t]
      BY <1>3, <2>4
    <3>3. UNCHANGED <<file, last, sound, overlapped>> /\ total' = total /\ children[s] \subseteq children'[s]
      BY <1>3, <2>1
    <3> QED
      BY <1>1, <2>6, <2>7, <2>8, <2>9, <3>1, <3>2, <3>3, GoesOn
  <2> QED
    BY <2>6, <2>10 DEF SeedInv
<1>5. CASE Has(s, i) /\ Script[s].write \in {"upsert", "insert"}
  <2>1. UNCHANGED <<rows, last, sound>> /\ Proceed(r, i, Mine(r).child = "always")
    BY <1>5 DEF WriteItem, Mine
  <2> QED
    BY <1>2, <1>3, <1>5, <2>1, ProceedKeeps
<1>6. CASE Has(s, i) /\ Script[s].write \in {"absent", "refill"}
  <2>1. Leave(r, "torn") /\ sound' = [sound EXCEPT ![s] = FALSE] /\ UNCHANGED rows
    BY <1>6 DEF WriteItem, Mine
  <2> QED
    BY <1>2, <1>3, <2>1, LeavesTorn
<1> QED
  BY <1>1, <1>2, <1>4, <1>5, <1>6, PlansAre

LEMMA FindKeeps ==
    ASSUME SeedInv, UNCHANGED group, NEW r \in Runs, NEW s \in group, work[r].script = s,
           NEW i \in Items, FindItem(r, i)
    PROVE  SeedInv'
<1>1. s \in DOMAIN Script /\ RunOf(r, s) /\ ScriptOK(s) /\ RunOK(r, s)
  BY RunKnown
<1>2. work[r] \in WorkRow /\ work[r].phase = "rows" /\ i \in work[r].todo /\ Script[s].write = "find"
  BY RunsTyped DEF SeedInv, FindItem, Mine
<1>3. UNCHANGED <<file, rows, children, total, last, sound, overlapped>>
  BY DEF FindItem
<1>4. CASE Has(s, i)
  <2>1. Proceed(r, i, Mine(r).child = "always")
    BY <1>4 DEF FindItem, Mine
  <2> QED
    BY <1>2, <1>3, <1>4, <2>1, ProceedKeeps
<1>5. CASE ~ Has(s, i)
  <2> DEFINE record == [work[r] EXCEPT !.phase = "create", !.item = i]
  <2>1. work' = [work EXCEPT ![r].phase = "create", ![r].item = i]
    BY <1>5 DEF FindItem
  <2>2. record \in WorkRow /\ record.phase = "create" /\ record.script = s
        /\ record.todo = work[r].todo /\ record.item = i
        /\ record.short = work[r].short /\ record.stored = work[r].stored
    BY <1>2 DEF WorkRow, Phases
  <2>3. work' = [work EXCEPT ![r] = record] /\ work'[r] = record
    <3>1. work' = [work EXCEPT ![r] = record]
      BY <1>2, <2>1, RunsTyped DEF SeedInv
    <3> HIDE DEF record
    <3> QED
      BY <3>1, RunsTyped DEF SeedInv
  <2> HIDE DEF record
  <2>4. rows' \in [group -> [Items -> Nat]] /\ children' \in [group -> SUBSET Items]
    BY <1>3 DEF SeedInv, SeedTypeOK
  <2>5. SeedTypeOK' /\ RunOf(r, s)' /\ \A q \in Runs : q # r => work'[q] = work[q]
    BY <1>2, <1>3, <2>2, <2>3, <2>4, RunReplaced DEF SeedInv
  <2>6. Filled(s)' = Filled(s)
    BY <1>3 DEF Filled, Has
  <2>7. RunOK(r, s)'
    <3>1. Fills(r, s)'
      BY <1>1, <1>2, <1>3, <2>2, <2>3, <2>6 DEF RunOK, Fills, Past
    <3>2. Creates(r, s)'
      BY <1>1, <1>2, <1>3, <1>5, <2>2, <2>3 DEF RunOK, Creates, Has
    <3>3. RunCounts(r, s)'
      BY <1>1, <1>2, <1>3, <2>2, <2>3, <2>6 DEF RunOK, RunCounts, Past
    <3> QED
      BY <3>1, <3>2, <3>3 DEF RunOK
  <2>8. Single(s)'
    BY <1>1, <1>3 DEF ScriptOK, Single
  <2>9. Paired(s)'
    BY <1>1, <1>2, <1>3, <2>5, <2>6 DEF ScriptOK, Paired, RunOf
  <2>10. \A t \in group : ScriptOK(t)'
    BY <1>1, <1>3, <2>5, <2>6, <2>7, <2>8, <2>9, GoesOn
  <2> QED
    BY <2>5, <2>10 DEF SeedInv
<1> QED
  BY <1>4, <1>5

LEMMA CreateKeeps ==
    ASSUME SeedInv, UNCHANGED group, NEW r \in Runs, NEW s \in group, work[r].script = s, CreateItem(r)
    PROVE  SeedInv'
<1>1. work[r].phase = "create" /\ RunOK(r, s)
  BY RunKnown DEF CreateItem
<1>2. work[r].item \in work[r].todo
  BY <1>1 DEF RunOK, Creates
<1>3. UNCHANGED <<file, children, total, overlapped>>
  BY DEF CreateItem
<1>4. PICK i \in work[r].todo : i = work[r].item
  BY <1>2
<1>5. CASE Has(s, i) /\ Mine(r).keyed
  <2>1. Leave(r, "torn") /\ sound' = [sound EXCEPT ![s] = FALSE] /\ UNCHANGED rows
    BY <1>4, <1>5 DEF CreateItem
  <2> QED
    BY <1>1, <1>3, <2>1, LeavesTorn
<1>6. CASE ~ (Has(s, i) /\ Mine(r).keyed)
  <2>1. Add(s, i) /\ Proceed(r, i, Mine(r).child = "always") /\ UNCHANGED <<last, sound>>
    BY <1>4, <1>6 DEF CreateItem
  <2> QED
    BY <1>1, <1>3, <1>4, <1>6, <2>1, ProceedKeeps
<1> QED
  BY <1>5, <1>6

LEMMA ChildKeeps ==
    ASSUME SeedInv, UNCHANGED group, NEW r \in Runs, NEW s \in group, work[r].script = s, WriteChild(r)
    PROVE  SeedInv'
<1> DEFINE record == [work[r] EXCEPT !.phase = "rows", !.item = "none"]
<1>1. s \in DOMAIN Script /\ RunOf(r, s) /\ ScriptOK(s) /\ RunOK(r, s)
  BY RunKnown
<1>2. work[r] \in WorkRow /\ work[r].phase = "child" /\ work[r].item \in Items
  BY <1>1, RunsTyped DEF SeedInv, WriteChild, RunOK, Creates
<1>3. record \in WorkRow /\ record.phase = "rows" /\ record.script = s
      /\ record.todo = work[r].todo /\ record.short = work[r].short /\ record.stored = work[r].stored
  BY <1>2 DEF WorkRow, Phases
<1>4. work' = [work EXCEPT ![r] = record] /\ work'[r] = record
  <2>1. work' = [work EXCEPT ![r] = record]
    BY <1>2, RunsTyped DEF WriteChild, SeedInv
  <2> HIDE DEF record
  <2> QED
    BY <2>1, RunsTyped DEF SeedInv
<1> HIDE DEF record
<1>5. UNCHANGED <<file, rows, total, last, sound, overlapped>>
      /\ children' = [children EXCEPT ![s] = children[s] \union {work[r].item}]
  BY DEF WriteChild
<1>6. /\ rows' \in [group -> [Items -> Nat]] /\ children' \in [group -> SUBSET Items]
      /\ children'[s] = children[s] \union {work[r].item}
      /\ \A t \in group : t # s => rows'[t] = rows[t] /\ children'[t] = children[t]
  BY <1>2, <1>5 DEF SeedInv, SeedTypeOK
<1>7. SeedTypeOK' /\ RunOf(r, s)' /\ \A q \in Runs : q # r => work'[q] = work[q]
  BY <1>2, <1>3, <1>4, <1>5, <1>6, RunReplaced DEF SeedInv
<1>8. Filled(s)' = Filled(s)
  BY <1>5 DEF Filled, Has
<1>9. RunOK(r, s)'
  <2>1. Fills(r, s)'
    BY <1>1, <1>2, <1>3, <1>4, <1>5, <1>8 DEF RunOK, Fills, Past
  <2>2. Creates(r, s)'
    BY <1>1, <1>2, <1>3, <1>4, <1>5, <1>6 DEF RunOK, Creates
  <2>3. RunCounts(r, s)'
    BY <1>1, <1>2, <1>3, <1>4, <1>5, <1>8 DEF RunOK, RunCounts, Past
  <2> QED
    BY <2>1, <2>2, <2>3 DEF RunOK
<1>10. Single(s)'
  BY <1>1, <1>5 DEF ScriptOK, Single
<1>11. Paired(s)'
  <2> SUFFICES ASSUME Script[s].child = "created", sound[s], NEW j \in Filled(s) \ children'[s]
               PROVE  \E q \in Runs : RunOf(q, s)' /\ work'[q].phase = "child" /\ work'[q].item = j
    BY <1>5, <1>8 DEF Paired
  <2>1. j # work[r].item /\ j \notin children[s]
    BY <1>6
  <2>2. PICK q \in Runs : RunOf(q, s) /\ work[q].phase = "child" /\ work[q].item = j
    BY <1>1, <2>1 DEF ScriptOK, Paired
  <2>3. q # r
    BY <2>1, <2>2
  <2> QED
    BY <1>7, <2>2, <2>3 DEF RunOf
<1>12. \A t \in group : ScriptOK(t)'
  BY <1>1, <1>5, <1>6, <1>7, <1>8, <1>9, <1>10, <1>11, GoesOn
<1> QED
  BY <1>5, <1>7, <1>12 DEF SeedInv

LEMMA AfterKeeps ==
    ASSUME SeedInv, UNCHANGED group, NEW r \in Runs, NEW s \in group, work[r].script = s,
           NEW i \in Items, WriteChildAfter(r, i)
    PROVE  SeedInv'
<1>1. s \in DOMAIN Script /\ RunOf(r, s) /\ ScriptOK(s) /\ RunOK(r, s)
  BY RunKnown
<1>2. UNCHANGED <<file, rows, total, work, last, sound, overlapped>> /\ work[r].phase = "rows"
      /\ children' = [children EXCEPT ![s] = children[s] \union {i}]
  BY DEF WriteChildAfter
<1>3. /\ children' \in [group -> SUBSET Items] /\ children'[s] = children[s] \union {i}
      /\ \A t \in group : t # s => rows'[t] = rows[t] /\ children'[t] = children[t]
  BY <1>2 DEF SeedInv, SeedTypeOK
<1>4. SeedTypeOK'
  BY <1>2, <1>3 DEF SeedInv, SeedTypeOK, WorkRow
<1>5. Filled(s)' = Filled(s)
  BY <1>2 DEF Filled, Has
<1>6. RunOK(r, s)'
  <2>1. Fills(r, s)'
    BY <1>1, <1>2, <1>5 DEF RunOK, Fills, Past
  <2>2. Creates(r, s)'
    BY <1>1, <1>2, <1>3 DEF RunOK, Creates, Has
  <2>3. RunCounts(r, s)'
    BY <1>1, <1>2, <1>5 DEF RunOK, RunCounts, Past
  <2> QED
    BY <2>1, <2>2, <2>3 DEF RunOK
<1>7. Single(s)'
  BY <1>1, <1>2 DEF ScriptOK, Single
<1>8. Paired(s)'
  BY <1>1, <1>2, <1>3, <1>5 DEF ScriptOK, Paired, RunOf
<1>9. \A t \in group : ScriptOK(t)'
  <2>1. RunOf(r, s)' /\ \A q \in Runs : q # r => work'[q] = work[q]
    BY <1>1, <1>2 DEF RunOf
  <2> QED
    BY <1>1, <1>2, <1>3, <1>5, <1>6, <1>7, <1>8, <2>1, GoesOn
<1> QED
  BY <1>4, <1>9 DEF SeedInv

\* The last run of a script leaves what the script promises.
LEMMA EndKeeps ==
    ASSUME SeedInv, UNCHANGED group, NEW r \in Runs, NEW s \in group, work[r].script = s, End(r)
    PROVE  SeedInv'
<1> DEFINE how == IF work[r].short THEN "torn" ELSE "well"
<1>1. s \in DOMAIN Script /\ RunOf(r, s) /\ ScriptOK(s) /\ RunOK(r, s) /\ s # "none"
  BY RunKnown
<1>2. /\ work[r].phase = "rows" /\ work[r].todo = {} /\ work[r].short \in BOOLEAN
      /\ Script[s].child = "after" => Filled(s) \subseteq children[s]
  <2>1. Missing(r) = {} /\ (Script[s].child = "after" => Missing(r) = Filled(s) \ children[s])
    BY DEF End, Missing, Mine
  <2> QED
    BY <2>1, RunsTyped DEF End, SeedInv
<1>3. /\ UNCHANGED <<file, rows, children, sound, overlapped>> /\ Leave(r, how)
      /\ total' = IF s = "hadiths" THEN work[r].stored ELSE total
  BY DEF End
<1>4. /\ work'[r] = Resting /\ \A q \in Runs : q # r => work'[q] = work[q]
      /\ last'[s] = how /\ \A t \in group : t # s => last'[t] = last[t]
  BY <1>3 DEF Leave, SeedInv, SeedTypeOK
<1>5. SeedTypeOK'
  <2>1. Resting \in WorkRow' /\ WorkRow' = WorkRow /\ Resting.phase = "idle" /\ Resting.script = "none"
    BY DEF Resting, WorkRow, Phases
  <2>2. work' \in [Runs -> WorkRow'] /\ \A q \in Runs : work'[q].phase = "idle" <=> work'[q].script = "none"
    BY <1>3, <1>4, <2>1 DEF Leave, SeedInv, SeedTypeOK
  <2>3. last' \in [group' -> {"none", "well", "torn"}]
    BY <1>3 DEF Leave, SeedInv, SeedTypeOK
  <2> QED
    BY <1>3, <2>2, <2>3 DEF SeedInv, SeedTypeOK
<1>6. Filled(s)' = Filled(s)
  BY <1>3 DEF Filled, Has
<1>7. \A q \in Runs : RunOf(q, s)' => q # r /\ RunOf(q, s) /\ work'[q] = work[q]
  BY <1>1, <1>4 DEF RunOf, Resting
<1>8. \A q \in Runs : RunOf(q, s)' => RunOK(q, s)'
  <2> SUFFICES ASSUME NEW q \in Runs, RunOf(q, s)' PROVE RunOK(q, s)'
    OBVIOUS
  <2>1. q # r /\ RunOf(q, s) /\ work'[q] = work[q] /\ RunOK(q, s)
    BY <1>1, <1>7 DEF ScriptOK
  <2>2. overlapped[s]
    BY <1>1, <2>1 DEF ScriptOK, OneAtMost
  <2> QED
    BY <1>3, <1>6, <2>1, <2>2, OthersKeep
<1>9. Single(s)' /\ OneAtMost(s)'
  BY <1>1, <1>3, <1>7 DEF ScriptOK, Single, OneAtMost
<1>10. Paired(s)'
  BY <1>1, <1>2, <1>3, <1>4, <1>6 DEF ScriptOK, Paired, RunOf
<1>11. ~ work[r].short /\ (Script[s].clear = "all" => ~ overlapped[s]) => file[s] \subseteq Filled(s)
  BY <1>1, <1>2 DEF RunOK, Fills
<1>12. AllOrNothing(s)'
  <2> SUFFICES ASSUME Script[s].skip = "any", sound[s], ~ overlapped[s], Filled(s) # {}
               PROVE  file[s] \subseteq Filled(s)
    BY <1>3, <1>6 DEF AllOrNothing
  <2>1. ~ work[r].short
    BY <1>1 DEF RunOK, RunCounts
  <2> QED
    BY <1>11, <2>1
<1>13. Complete(s)'
  <2> SUFFICES ASSUME how = "well", ~ Busy(s)',
                      s \in NeverRepaired => sound[s] /\ ~ overlapped[s],
                      Script[s].clear = "all" => ~ overlapped[s]
               PROVE  /\ file[s] \subseteq Filled(s)
                      /\ Script[s].child # "never" => file[s] \subseteq children[s]
                      /\ Script[s].clear # "nothing" => Filled(s) \subseteq file[s]
                      /\ s = "hadiths" => total' = Cardinality(Filled(s))
    <3> HIDE DEF how
    <3> QED
      BY <1>3, <1>4, <1>6 DEF Complete
  <2>1. ~ work[r].short
    OBVIOUS
  <2>2. file[s] \subseteq Filled(s)
    BY <1>11, <2>1
  <2>3. ASSUME Script[s].child = "created" PROVE file[s] \subseteq children[s]
    <3>1. sound[s]
      BY <1>1, <2>3, PlansAre
    <3>2. Filled(s) \subseteq children[s]
      <4> SUFFICES ASSUME NEW i \in Filled(s) \ children[s] PROVE FALSE
        OBVIOUS
      <4>1. PICK q \in Runs : RunOf(q, s)'
        BY <1>3, <1>6, <1>10, <2>3, <3>1 DEF Paired
      <4>2. work'[q].script = s /\ ~ Busy(s)'
        BY <4>1 DEF RunOf
      <4> QED
        BY <4>2 DEF Busy
    <3> QED
      BY <2>2, <3>2
  <2>4. Script[s].child = "always" => file[s] \subseteq children[s]
    BY <1>1, <1>2, <2>1 DEF RunOK, Creates
  <2>5. Script[s].child # "never" => file[s] \subseteq children[s]
    BY <1>1, <1>2, <2>2, <2>3, <2>4, PlansAre
  <2>6. Script[s].clear # "nothing" => Filled(s) \subseteq file[s]
    BY <1>1, <1>2 DEF RunOK, Fills, Past
  <2>7. s = "hadiths" => total' = Cardinality(Filled(s))
    BY <1>1, <1>2, <1>3, PlansAre DEF RunOK, RunCounts, Past
  <2> QED
    BY <2>2, <2>5, <2>6, <2>7
<1>14. ScriptOK(s)'
  BY <1>1, <1>3, <1>8, <1>9, <1>10, <1>12, <1>13 DEF ScriptOK
<1>15. ASSUME NEW t \in group, t # s PROVE ScriptOK(t)'
  <2>1. t # "none" /\ ScriptOK(t)
    BY ScriptsKnown DEF SeedInv
  <2>2. \A q \in Runs : work'[q] = work[q] \/ (~ RunOf(q, t) /\ ~ RunOf(q, t)')
    BY <1>4, <1>15, <2>1 DEF RunOf, Resting
  <2>3. t = "hadiths" => total' = total
    BY <1>3, <1>15
  <2>4. SameOf(t)
    BY <1>3, <1>4, <1>15, <2>2, <2>3 DEF SameOf
  <2> QED
    BY <2>1, <2>4, Elsewhere
<1> QED
  BY <1>5, <1>14, <1>15 DEF SeedInv

LEMMA StopKeeps ==
    ASSUME SeedInv, UNCHANGED group, NEW r \in Runs, Stop(r)
    PROVE  SeedInv'
<1>1. PICK s \in group : work[r].script = s
  BY UnderWay DEF Stop
<1>2. /\ work[r].phase # "idle" /\ Leave(r, "torn") /\ UNCHANGED <<file, rows, children, total, overlapped>>
      /\ sound' = [sound EXCEPT ![s] = FALSE]
  BY <1>1 DEF Stop
<1> QED
  BY <1>1, <1>2, LeavesTorn

\* A list is changed between the runs of its script.
LEMMA EditKeeps ==
    ASSUME SeedInv, UNCHANGED group, NEW s \in group, Edit(s)
    PROVE  SeedInv'
<1>1. s \in DOMAIN Script /\ ScriptOK(s) /\ s # "none"
  BY ScriptsKnown DEF SeedInv
<1>2. PICK list \in SUBSET Items : file' = [file EXCEPT ![s] = list]
  BY DEF Edit
<1>3. /\ UNCHANGED <<rows, children, total, work, sound, overlapped>>
      /\ last' = [last EXCEPT ![s] = "none"] /\ ~ Busy(s) /\ Script[s].skip = "never"
  BY DEF Edit
<1>4. /\ last'[s] = "none"
      /\ \A t \in group : t # s => last'[t] = last[t] /\ file'[t] = file[t]
  BY <1>2, <1>3 DEF SeedInv, SeedTypeOK
<1>5. SeedTypeOK'
  <2>1. WorkRow' = WorkRow
    BY DEF WorkRow
  <2>2. file' \in [group' -> SUBSET Items] /\ last' \in [group' -> {"none", "well", "torn"}]
    BY <1>2, <1>3 DEF SeedInv, SeedTypeOK
  <2> QED
    BY <1>3, <2>1, <2>2 DEF SeedInv, SeedTypeOK
<1>6. \A q \in Runs : ~ RunOf(q, s) /\ ~ RunOf(q, s)'
  BY <1>3 DEF Busy, RunOf
<1>7. Filled(s)' = Filled(s)
  BY <1>3 DEF Filled, Has
<1>8. ScriptOK(s)'
  <2>1. Single(s)' /\ OneAtMost(s)'
    BY <1>1, <1>3, <1>6 DEF ScriptOK, Single, OneAtMost
  <2>2. Paired(s)'
    BY <1>1, <1>3, <1>6, <1>7 DEF ScriptOK, Paired
  <2>3. AllOrNothing(s)' /\ Complete(s)'
    BY <1>3, <1>4 DEF AllOrNothing, Complete
  <2> QED
    BY <1>3, <1>6, <2>1, <2>2, <2>3 DEF ScriptOK
<1>9. ASSUME NEW t \in group, t # s PROVE ScriptOK(t)'
  <2>1. ScriptOK(t)
    BY DEF SeedInv
  <2>2. SameOf(t)
    BY <1>3, <1>4, <1>9 DEF SameOf
  <2> QED
    BY <2>1, <2>2, Elsewhere
<1> QED
  BY <1>5, <1>8, <1>9 DEF SeedInv

\* A run that finds nothing to do, or cannot begin, changes no row.
LEMMA SkipKeeps ==
    ASSUME SeedInv, NEW s \in group,
           UNCHANGED <<group, file, rows, children, total, work, overlapped>>,
           last' = [last EXCEPT ![s] = last'[s]], last'[s] \in {"none", "well", "torn"},
           sound' = [sound EXCEPT ![s] = sound'[s]], sound'[s] \in BOOLEAN, sound'[s] => sound[s],
           last'[s] = "well" => last[s] = "well" \/ Complete(s)'
    PROVE  SeedInv'
<1> DEFINE how == last'[s]
           unbroken == sound'[s]
<1>1. ScriptOK(s) /\ s \in DOMAIN Script /\ s # "none"
  BY ScriptsKnown DEF SeedInv
<1>2. last' = [last EXCEPT ![s] = how] /\ sound' = [sound EXCEPT ![s] = unbroken]
  OBVIOUS
<1>3. /\ \A t \in group : t # s => last'[t] = last[t] /\ sound'[t] = sound[t]
      /\ last' \in [group -> {"none", "well", "torn"}] /\ sound' \in [group -> BOOLEAN]
  <2>1. how \in {"none", "well", "torn"} /\ unbroken \in BOOLEAN
    OBVIOUS
  <2> HIDE DEF how, unbroken
  <2> QED
    BY <1>2, <2>1 DEF SeedInv, SeedTypeOK
<1>4. SeedTypeOK'
  <2>1. WorkRow' = WorkRow
    BY DEF WorkRow
  <2> QED
    BY <1>3, <2>1 DEF SeedInv, SeedTypeOK
<1>5. Filled(s)' = Filled(s) /\ (Busy(s)' <=> Busy(s)) /\ \A q \in Runs : RunOf(q, s)' <=> RunOf(q, s)
  BY DEF Filled, Has, Busy, RunOf
<1>6. \A q \in Runs : RunOf(q, s)' => RunOK(q, s)'
  <2> SUFFICES ASSUME NEW q \in Runs, RunOf(q, s) PROVE RunOK(q, s)'
    BY <1>5
  <2>1. RunOK(q, s)
    BY <1>1 DEF ScriptOK
  <2>2. Fills(q, s)' /\ Creates(q, s)'
    BY <1>5, <2>1 DEF RunOK, Fills, Creates, Past, Has
  <2>3. RunCounts(q, s)'
    BY <1>5, <2>1 DEF RunOK, RunCounts, Past
  <2> QED
    BY <2>2, <2>3 DEF RunOK
<1>7. Single(s)' /\ OneAtMost(s)' /\ Paired(s)' /\ AllOrNothing(s)'
  <2>1. Single(s)' /\ OneAtMost(s)'
    BY <1>1, <1>5 DEF ScriptOK, Single, OneAtMost
  <2>2. Paired(s)'
    BY <1>1, <1>5 DEF ScriptOK, Paired
  <2>3. AllOrNothing(s)'
    BY <1>1, <1>5 DEF ScriptOK, AllOrNothing
  <2> QED
    BY <2>1, <2>2, <2>3
<1>8. Complete(s)'
  <2>1. CASE last'[s] = "well" /\ last[s] = "well"
    BY <1>1, <1>5, <2>1 DEF ScriptOK, Complete
  <2>2. CASE last'[s] # "well"
    BY <2>2 DEF Complete
  <2> QED
    BY <2>1, <2>2
<1>9. ScriptOK(s)'
  BY <1>1, <1>6, <1>7, <1>8 DEF ScriptOK
<1>10. ASSUME NEW t \in group, t # s PROVE ScriptOK(t)'
  <2>1. ScriptOK(t)
    BY DEF SeedInv
  <2>2. SameOf(t)
    BY <1>3, <1>10 DEF SameOf
  <2> QED
    BY <2>1, <2>2, Elsewhere
<1> QED
  BY <1>4, <1>9, <1>10 DEF SeedInv

\* A run that begins.
LEMMA BeginKeeps ==
    ASSUME SeedInv, UNCHANGED <<group, file, rows, children, total, last>>,
           NEW r \in Runs, NEW s \in group, work[r].phase = "idle", ~ Skips(s),
           NEW promote \in {"none", "draft", "reviewed"},
           NEW dealt \in SUBSET Items,
           dealt = IF Script[s].write = "absent" THEN file[s] \ Filled(s) ELSE file[s] \intersect Known(s),
           work' = [work EXCEPT ![r] = [Resting EXCEPT !.script = s, !.promote = promote,
                    !.phase = "head", !.short = (Known(s) # Items), !.todo = dealt]],
           overlapped' = [overlapped EXCEPT ![s] = overlapped[s] \/ Busy(s)],
           sound' = [sound EXCEPT ![s] = sound[s] /\ Known(s) \in {{}, Items}]
    PROVE  SeedInv'
<1> DEFINE short == Known(s) # Items
           record == [Resting EXCEPT !.script = s, !.promote = promote, !.phase = "head",
                      !.short = short, !.todo = dealt]
           shared == overlapped[s] \/ Busy(s)
           unbroken == sound[s] /\ Known(s) \in {{}, Items}
<1>1. ScriptOK(s) /\ s \in DOMAIN Script /\ s # "none"
  BY ScriptsKnown DEF SeedInv
<1>2. record \in WorkRow /\ record.script = s /\ record.phase = "head" /\ record.short = short
      /\ record.todo = dealt /\ record.stored = 0
  BY DEF WorkRow, Resting, Phases
<1>3. work[r].script = "none" /\ ~ RunOf(r, s)
  BY <1>1 DEF SeedInv, SeedTypeOK, RunOf
<1>4. /\ work'[r] = record /\ \A q \in Runs : q # r => work'[q] = work[q]
      /\ work' \in [Runs -> WorkRow]
  <2>1. work' = [work EXCEPT ![r] = record]
    OBVIOUS
  <2> HIDE DEF record
  <2> QED
    BY <1>2, <2>1 DEF SeedInv, SeedTypeOK
<1>5. /\ overlapped'[s] = shared /\ sound'[s] = unbroken
      /\ \A t \in group : t # s => overlapped'[t] = overlapped[t] /\ sound'[t] = sound[t]
      /\ overlapped' \in [group -> BOOLEAN] /\ sound' \in [group -> BOOLEAN]
  <2>1. overlapped' = [overlapped EXCEPT ![s] = shared] /\ sound' = [sound EXCEPT ![s] = unbroken]
    OBVIOUS
  <2>2. shared \in BOOLEAN /\ unbroken \in BOOLEAN
    <3>1. Busy(s) \in BOOLEAN /\ overlapped[s] \in BOOLEAN
      BY DEF Busy, SeedInv, SeedTypeOK
    <3> QED
      BY <3>1, Zenon
  <2> HIDE DEF shared, unbroken
  <2> QED
    BY <2>1, <2>2 DEF SeedInv, SeedTypeOK
<1> HIDE DEF record
<1>6. SeedTypeOK'
  <2>1. WorkRow' = WorkRow
    BY DEF WorkRow
  <2>2. \A q \in Runs : work'[q].phase = "idle" <=> work'[q].script = "none"
    BY <1>1, <1>2, <1>4 DEF SeedInv, SeedTypeOK
  <2> QED
    BY <1>4, <1>5, <2>1, <2>2 DEF SeedInv, SeedTypeOK
<1>7. /\ Filled(s)' = Filled(s) /\ Busy(s)' /\ (overlapped[s] => overlapped'[s])
      /\ (sound'[s] => sound[s]) /\ overlapped'[s] \in BOOLEAN
      /\ \A q \in Runs : RunOf(q, s) => overlapped'[s] /\ q # r
  <2>1. Busy(s)'
    BY <1>2, <1>4 DEF Busy
  <2>2. \A q \in Runs : RunOf(q, s) => Busy(s) /\ q # r
    BY <1>3 DEF Busy, RunOf
  <2> QED
    BY <1>5, <2>1, <2>2 DEF Filled, Has
<1>8. file[s] \subseteq Items /\ Filled(s) \subseteq Items
  BY TablesTyped DEF SeedInv
<1>9. RunOK(r, s)'
  <2>1. Script[s].clear # "nothing" \/ Script[s].write = "absent" => ~ short
    BY <1>1, PlansAre DEF Known
  <2>0. /\ work'[r].todo = dealt /\ work'[r].short = short /\ work'[r].phase = "head"
        /\ file'[s] = file[s] /\ children'[s] = children[s]
    BY <1>2, <1>4
  <2>5. Script[s].clear = "all" \/ Script[s].child = "always" => Script[s].write # "absent"
    BY <1>1, PlansAre
  <2>6. /\ dealt \subseteq file[s] /\ (~ short => file[s] \ dealt \subseteq Filled(s))
        /\ Script[s].write # "absent" /\ ~ short => dealt = file[s]
    BY <1>8
  <2>2. Fills(r, s)'
    <3> HIDE DEF short
    <3> QED
      BY <1>7, <2>0, <2>1, <2>5, <2>6 DEF Fills, Past
  <2>3. Creates(r, s)'
    <3> HIDE DEF short
    <3> QED
      BY <2>0, <2>5, <2>6 DEF Creates
  <2>4. RunCounts(r, s)'
    <3>1. s = "hadiths" => work'[r].stored = 0 /\ ~ Past(r)'
      BY <1>2, <1>4 DEF Past
    <3>2. ASSUME Script[s].skip = "any", short, sound'[s] PROVE dealt = {} /\ Filled(s)' = {}
      <4>1. Known(s) = {}
        BY <1>5, <3>2
      <4>2. Script[s].write # "absent" /\ s \in Probed(s) \intersect group
        BY <1>1, <3>2, PlansAre
      <4> QED
        BY <1>7, <3>2, <4>1, <4>2 DEF Skips
    <3> QED
      BY <1>2, <1>4, <3>1, <3>2 DEF RunCounts, Past
  <2> QED
    BY <2>2, <2>3, <2>4 DEF RunOK
<1>10. \A q \in Runs : RunOf(q, s)' => RunOK(q, s)'
  <2> SUFFICES ASSUME NEW q \in Runs, RunOf(q, s)', q # r PROVE RunOK(q, s)'
    BY <1>9
  <2>1. work'[q] = work[q] /\ RunOf(q, s) /\ RunOK(q, s)
    BY <1>1, <1>4 DEF RunOf, ScriptOK
  <2>2. overlapped'[s] /\ (overlapped[s] \/ overlapped[s] = FALSE)
    BY <1>7, <2>1 DEF SeedInv, SeedTypeOK
  <2> QED
    BY <1>7, <2>1, <2>2, OthersKeep
<1>11. ScriptOK(s)'
  <2>1. Single(s)'
    BY <1>1, <1>7 DEF ScriptOK, Single
  <2>2. OneAtMost(s)'
    BY <1>4, <1>7 DEF OneAtMost, RunOf
  <2>3. Paired(s)'
    BY <1>1, <1>4, <1>7 DEF ScriptOK, Paired, RunOf
  <2>4. AllOrNothing(s)' /\ Complete(s)'
    BY <1>7 DEF AllOrNothing, Complete
  <2> QED
    BY <1>1, <1>10, <2>1, <2>2, <2>3, <2>4 DEF ScriptOK
<1>12. ASSUME NEW t \in group, t # s PROVE ScriptOK(t)'
  <2>1. t # "none" /\ ScriptOK(t)
    BY ScriptsKnown DEF SeedInv
  <2>2. \A q \in Runs : work'[q] = work[q] \/ (~ RunOf(q, t) /\ ~ RunOf(q, t)')
    BY <1>2, <1>3, <1>4, <1>12, <2>1 DEF RunOf
  <2>3. SameOf(t)
    BY <1>5, <1>12, <2>2 DEF SameOf
  <2> QED
    BY <2>1, <2>3, Elsewhere
<1> QED
  BY <1>6, <1>11, <1>12 DEF SeedInv

LEMMA StartKeeps ==
    ASSUME SeedInv, UNCHANGED group, NEW r \in Runs, NEW s \in group, Start(r, s)
    PROVE  SeedInv'
<1>1. ScriptOK(s) /\ s \in DOMAIN Script /\ s # "none"
  BY ScriptsKnown DEF SeedInv
<1>2. UNCHANGED <<file, rows, children, total>> /\ work[r].phase = "idle"
  BY DEF Start
<1>3. CASE Skips(s)
  <2> DEFINE how == IF Busy(s) THEN last[s] ELSE "well"
             unbroken == sound[s] /\ Filled(s) # {}
  <2>1. /\ last' = [last EXCEPT ![s] = how] /\ sound' = [sound EXCEPT ![s] = unbroken]
        /\ UNCHANGED <<work, overlapped>>
    BY <1>3 DEF Start
  <2>2. how \in {"none", "well", "torn"} /\ unbroken \in BOOLEAN
    BY DEF SeedInv, SeedTypeOK
  <2>3. last'[s] = how /\ sound'[s] = unbroken
    <3> HIDE DEF how, unbroken
    <3> QED
      BY <2>1 DEF SeedInv, SeedTypeOK
  <2>4. ASSUME ~ Busy(s) PROVE Complete(s)'
    <3>1. /\ Script[s].clear = "nothing" /\ Script[s].child = "never" /\ s # "hadiths"
          /\ Script[s].skip \in {"any", "all"} /\ (Script[s].skip = "any" => s \in NeverRepaired)
      BY <1>1, <1>3, PlansAre DEF Skips
    <3>2. Filled(s)' = Filled(s) /\ file[s] \subseteq Items
      BY <1>2, TablesTyped DEF Filled, Has, SeedInv
    <3>3. s \in NeverRepaired /\ Script[s].skip = "any" =>
            (sound'[s] /\ ~ overlapped[s] => file[s] \subseteq Filled(s))
      BY <1>1, <2>3, <2>4 DEF ScriptOK, AllOrNothing
    <3>4. Script[s].skip = "all" => file[s] \subseteq Filled(s)
      BY <1>3, <3>2 DEF Skips
    <3> QED
      BY <1>2, <2>1, <3>1, <3>2, <3>3, <3>4 DEF Complete
  <2>5. last'[s] = "well" => last[s] = "well" \/ Complete(s)'
    BY <2>3, <2>4
  <2>6. last' = [last EXCEPT ![s] = last'[s]] /\ sound' = [sound EXCEPT ![s] = sound'[s]]
    BY <2>1, <2>3
  <2> QED
    BY <1>2, <2>1, <2>2, <2>3, <2>5, <2>6, SkipKeeps
<1>4. CASE ~ Skips(s) /\ s = "indopak" /\ Known(s) # Items
  <2>1. last' = [last EXCEPT ![s] = "torn"] /\ UNCHANGED <<work, overlapped, sound>>
    BY <1>4 DEF Start
  <2>2. last'[s] = "torn" /\ sound'[s] \in BOOLEAN /\ sound' = [sound EXCEPT ![s] = sound'[s]]
        /\ sound'[s] = sound[s]
    BY <2>1 DEF SeedInv, SeedTypeOK
  <2> QED
    BY <1>2, <2>1, <2>2, SkipKeeps
<1>5. CASE ~ Skips(s) /\ ~ (s = "indopak" /\ Known(s) # Items)
  <2> DEFINE dealt == IF Script[s].write = "absent" THEN file[s] \ Filled(s) ELSE file[s] \intersect Known(s)
  <2>1. PICK promote \in {"none", "draft", "reviewed"} :
          work' = [work EXCEPT ![r] = [Resting EXCEPT !.script = s, !.promote = promote,
                    !.phase = "head", !.short = (Known(s) # Items), !.todo = dealt]]
    BY <1>5 DEF Start
  <2>2. /\ overlapped' = [overlapped EXCEPT ![s] = overlapped[s] \/ Busy(s)]
        /\ sound' = [sound EXCEPT ![s] = sound[s] /\ Known(s) \in {{}, Items}]
        /\ last' = last
    BY <1>5 DEF Start
  <2>3. dealt \in SUBSET Items
    BY TablesTyped DEF SeedInv
  <2> QED
    BY <1>2, <1>5, <2>1, <2>2, <2>3, BeginKeeps
<1> QED
  BY <1>3, <1>4, <1>5

LEMMA SeedInvInit == SeedInit => SeedInv
<1> SUFFICES ASSUME SeedInit PROVE SeedInv
  OBVIOUS
<1>1. \A r \in Runs : work[r] = Resting
  BY DEF SeedInit
<1>2. SeedTypeOK
  <2>1. Resting \in WorkRow
    BY DEF Resting, WorkRow, Phases
  <2>2. work \in [Runs -> WorkRow] /\ \A r \in Runs : work[r].phase = "idle" <=> work[r].script = "none"
    BY <2>1 DEF SeedInit, Resting
  <2>3. rows \in [group -> [Items -> Nat]] /\ children \in [group -> SUBSET Items]
    BY DEF SeedInit
  <2> QED
    BY <2>2, <2>3 DEF SeedInit, SeedTypeOK
<1>3. ASSUME NEW s \in group PROVE ScriptOK(s)
  <2>1. s # "none"
    BY <1>2, ScriptsKnown
  <2>2. \A r \in Runs : ~ RunOf(r, s)
    BY <1>1, <2>1 DEF RunOf, Resting
  <2>3. (\A i \in Items : rows[s][i] = 0) /\ Filled(s) = {} /\ file[s] = Items /\ last[s] = "none"
    BY DEF SeedInit, Filled, Has
  <2> QED
    BY <2>2, <2>3 DEF ScriptOK, Single, OneAtMost, Paired, AllOrNothing, Complete
<1> QED
  BY <1>2, <1>3 DEF SeedInv

LEMMA SeedInvNext == SeedInv /\ [SeedNext]_seedVars => SeedInv'
<1> SUFFICES ASSUME SeedInv, [SeedNext]_seedVars PROVE SeedInv'
  OBVIOUS
<1>1. CASE UNCHANGED seedVars
  <2>1. SeedTypeOK'
    BY <1>1 DEF seedVars, SeedInv, SeedTypeOK, WorkRow
  <2>2. ASSUME NEW t \in group PROVE ScriptOK(t)'
    <3>1. SameOf(t)
      BY <1>1 DEF seedVars, SameOf
    <3> QED
      BY <3>1, Elsewhere DEF SeedInv
  <2> QED
    BY <1>1, <2>1, <2>2 DEF seedVars, SeedInv
<1>2. ASSUME UNCHANGED group, NEW r \in Runs, SeedStep(r) PROVE SeedInv'
  <2>1. work[r].phase # "idle"
    BY <1>2 DEF SeedStep, WriteHead, Clear, CreateItem, WriteChild, End, WriteItem, FindItem, WriteChildAfter
  <2>2. PICK s \in group : work[r].script = s
    BY <2>1, UnderWay
  <2>3. CASE WriteHead(r)
    BY <1>2, <2>2, <2>3, HeadKeeps
  <2>4. CASE Clear(r)
    BY <1>2, <2>2, <2>4, ClearKeeps
  <2>5. CASE CreateItem(r)
    BY <1>2, <2>2, <2>5, CreateKeeps
  <2>6. CASE WriteChild(r)
    BY <1>2, <2>2, <2>6, ChildKeeps
  <2>7. CASE End(r)
    BY <1>2, <2>2, <2>7, EndKeeps
  <2>8. CASE \E i \in Items : WriteItem(r, i)
    BY <1>2, <2>2, <2>8, ItemKeeps
  <2>9. CASE \E i \in Items : FindItem(r, i)
    BY <1>2, <2>2, <2>9, FindKeeps
  <2>10. CASE \E i \in Items : WriteChildAfter(r, i)
    BY <1>2, <2>2, <2>10, AfterKeeps
  <2> QED
    BY <1>2, <2>3, <2>4, <2>5, <2>6, <2>7, <2>8, <2>9, <2>10 DEF SeedStep
<1> QED
  BY <1>1, <1>2, StopKeeps, StartKeeps, EditKeeps DEF SeedNext

\* SeedsWhole of every state: scripts that are killed, fail, are run again and
\* meet one another leave all of their list, once.
THEOREM SeedsLeaveAll == SeedSpec => []SeedsWhole
<1>1. ASSUME SeedInv PROVE SeedsWhole
  <2>1. ASSUME NEW s \in group PROVE Complete(s) /\ Single(s)
    BY <1>1 DEF SeedInv, ScriptOK
  <2>2. SeedsComplete
    BY <2>1 DEF SeedsComplete, Complete
  <2>3. NoTwins
    BY <2>1 DEF NoTwins, Single
  <2> QED
    BY <2>2, <2>3 DEF SeedsWhole
<1> QED
  BY <1>1, SeedInvInit, SeedInvNext, PTL DEF SeedSpec

\* ReviewKept of every step: only the run that the operator gave a status takes
\* a collection off the drafts or puts it there.
THEOREM ReviewsAreAsked == SeedSpec => ReviewKept
<1>1. ASSUME [SeedNext]_seedVars, review' # review, review # "none"
      PROVE  \E r \in Runs : work[r].phase = "head" /\ work[r].promote = review'
  <2>1. SeedNext
    BY <1>1 DEF seedVars
  <2>2. ASSUME NEW r \in Runs, SeedStep(r), ~ WriteHead(r) PROVE review' = review
    <3>1. Clear(r) \/ CreateItem(r) \/ WriteChild(r) \/ End(r) => review' = review
      BY DEF Clear, CreateItem, WriteChild, End
    <3>2. ASSUME NEW i \in Items, WriteItem(r, i) \/ FindItem(r, i) \/ WriteChildAfter(r, i)
          PROVE  review' = review
      BY <3>2 DEF WriteItem, FindItem, WriteChildAfter
    <3> QED
      BY <2>2, <3>1, <3>2 DEF SeedStep
  <2>3. ASSUME NEW r \in Runs PROVE Stop(r) => review' = review
    BY DEF Stop
  <2>4. ASSUME NEW s \in group, Edit(s) \/ \E r \in Runs : Start(r, s) PROVE review' = review
    BY <2>4 DEF Edit, Start
  <2>5. PICK r \in Runs : WriteHead(r)
    BY <1>1, <2>1, <2>2, <2>3, <2>4 DEF SeedNext
  <2> QED
    BY <1>1, <2>5 DEF WriteHead
<1>2. [SeedNext]_seedVars
        => [review' # review /\ review # "none"
             => \E r \in Runs : work[r].phase = "head" /\ work[r].promote = review']_seedVars
  BY <1>1
<1> QED
  BY <1>2, PTL DEF SeedSpec, ReviewKept

-----------------------------------------------------------------------------
(* The index of verses                                                      *)

SeedingRow == [pc : {"none", "inserting", "ended"}, missing : SUBSET ChapterVerses]

VerseTypeOK ==
    /\ copies \in [IndexedVerses -> Nat] /\ verseIndex \in {"absent", "created", "aborted"}
    /\ survey \in [exit : {"none", "clean", "dirty"}, stale : BOOLEAN]
    /\ seeding \in [Seedings -> SeedingRow] /\ overlap \in BOOLEAN

\* While no two runs overlap one at most is under way, and what it found missing is.
OneSeeds ==
    ~ overlap =>
        /\ \A r, s \in Seedings : Seeding(r) /\ Seeding(s) => r = s
        /\ \A r \in Seedings : Seeding(r) => \A v \in seeding[r].missing : copies[v] = 0

\* IndexSafe needs only to know that no row is written twice but by an overlap.
VerseInv == VerseTypeOK /\ OneSeeds /\ IndexSafe

LEMMA VerseInvInit == VerseInit => VerseInv
<1> SUFFICES ASSUME VerseInit PROVE VerseInv
  OBVIOUS
<1>1. /\ copies \in [IndexedVerses -> Nat] /\ seeding \in [Seedings -> SeedingRow]
      /\ \A v \in IndexedVerses : copies[v] = 0
      /\ \A r \in Seedings : ~ Seeding(r)
  BY DEF VerseInit, SeedingRow, Seeding
<1>2. \A v \in ChapterVerses : copies[v] <= 1
  BY <1>1 DEF IndexedVerses
<1>3. VerseTypeOK
  BY <1>1 DEF VerseInit, VerseTypeOK
<1> QED
  BY <1>1, <1>2, <1>3 DEF VerseInv, OneSeeds, IndexSafe

LEMMA ChapterVersesBind ==
    \A v \in ChapterVerses : v \in IndexedVerses /\ Binds(v) /\ v \notin LooseVerses
BY VerseAssumption DEF VerseAssumption, IndexedVerses, Binds, NullChapter

LEMMA SurveyKeeps ==
    ASSUME VerseInv, Survey PROVE VerseInv'
<1>1. UNCHANGED <<copies, verseIndex, seeding, overlap>>
  BY DEF Survey
<1>2. VerseTypeOK' /\ OneSeeds'
  BY <1>1 DEF Survey, VerseInv, VerseTypeOK, OneSeeds, Seeding
<1>3. survey'.exit = "clean" => \A v \in ChapterVerses : copies[v] <= 1
  <2> SUFFICES ASSUME survey'.exit = "clean", NEW v \in ChapterVerses PROVE copies[v] <= 1
    OBVIOUS
  <2>1. BlocksIndex(DuplicateGroups) = {}
    BY DEF Survey
  <2>2. v \notin DuplicateGroups /\ v \in IndexedVerses
    BY <2>1, ChapterVersesBind DEF BlocksIndex
  <2>3. copies[v] \in Nat /\ ~ (copies[v] > 1)
    BY <2>2 DEF DuplicateGroups, VerseInv, VerseTypeOK
  <2> QED
    BY <2>3
<1> QED
  BY <1>1, <1>2, <1>3 DEF VerseInv, IndexSafe

LEMMA DeployKeeps ==
    ASSUME VerseInv, Deploy PROVE VerseInv'
<1>1. UNCHANGED <<copies, survey, seeding, overlap>> /\ verseIndex' \in {"absent", "created", "aborted"}
  BY DEF Deploy
<1>2. verseIndex' = "created" => \A v \in ChapterVerses : copies[v] <= 1
  <2> SUFFICES ASSUME verseIndex' = "created", NEW v \in ChapterVerses PROVE copies[v] <= 1
    OBVIOUS
  <2>1. copies[v] \in Nat /\ ~ (copies[v] > 1)
    BY ChapterVersesBind DEF Deploy, VerseInv, VerseTypeOK
  <2> QED
    BY <2>1
<1> QED
  BY <1>1, <1>2 DEF VerseInv, IndexSafe, VerseTypeOK, OneSeeds, Seeding

LEMMA RepairKeeps ==
    ASSUME VerseInv, Repair PROVE VerseInv'
<1>1. UNCHANGED <<survey, seeding, overlap>>
  BY DEF Repair
<1>2. \A v \in IndexedVerses : copies[v] \in Nat
  BY DEF VerseInv, VerseTypeOK
<1>3. /\ copies' \in [IndexedVerses -> Nat] /\ verseIndex' \in {verseIndex, "absent"}
      /\ \A v \in IndexedVerses : copies'[v] <= copies[v]
  <2>1. CASE \E v \in DuplicateGroups : copies' = [copies EXCEPT ![v] = @ - 1] /\ UNCHANGED verseIndex
    <3>1. PICK v \in IndexedVerses : copies[v] > 1 /\ copies' = [copies EXCEPT ![v] = @ - 1] /\ UNCHANGED verseIndex
      BY <2>1 DEF DuplicateGroups
    <3>2. copies[v] - 1 \in Nat /\ copies[v] - 1 <= copies[v]
      BY <1>2, <3>1
    <3>3. \A u \in IndexedVerses : copies'[u] = IF u = v THEN copies[v] - 1 ELSE copies[u]
      BY <3>1 DEF VerseInv, VerseTypeOK
    <3>4. copies' \in [IndexedVerses -> Nat]
      BY <3>1, <3>2 DEF VerseInv, VerseTypeOK
    <3>5. \A u \in IndexedVerses : copies'[u] <= copies[u]
      BY <1>2, <3>2, <3>3
    <3> QED
      BY <3>1, <3>4, <3>5
  <2>2. CASE verseIndex' = "absent" /\ UNCHANGED copies
    BY <1>2, <2>2 DEF VerseInv, VerseTypeOK
  <2> QED
    BY <2>1, <2>2 DEF Repair
<1>4. VerseTypeOK'
  BY <1>1, <1>3 DEF VerseInv, VerseTypeOK
<1>5. OneSeeds'
  <2> SUFFICES ASSUME ~ overlap, NEW r \in Seedings, Seeding(r), NEW v \in seeding[r].missing PROVE copies'[v] = 0
    BY <1>1 DEF VerseInv, OneSeeds, Seeding
  <2>1. v \in IndexedVerses
    BY DEF VerseInv, VerseTypeOK, SeedingRow, IndexedVerses
  <2>2. copies[v] = 0 /\ copies'[v] \in Nat /\ copies'[v] <= copies[v]
    BY <1>3, <2>1 DEF VerseInv, OneSeeds
  <2> QED
    BY <2>2
<1>6. (\A v \in ChapterVerses : copies[v] <= 1) => \A v \in ChapterVerses : copies'[v] <= 1
  <2> SUFFICES ASSUME NEW v \in ChapterVerses, copies[v] <= 1 PROVE copies'[v] <= 1
    OBVIOUS
  <2>1. copies[v] \in Nat /\ copies'[v] \in Nat /\ copies'[v] <= copies[v]
    BY <1>2, <1>3, ChapterVersesBind
  <2> QED
    BY <2>1
<1> QED
  BY <1>1, <1>3, <1>4, <1>5, <1>6 DEF VerseInv, IndexSafe

LEMMA ReadGapsKeeps ==
    ASSUME VerseInv, NEW r \in Seedings, ReadGaps(r) PROVE VerseInv'
<1>1. UNCHANGED <<copies, verseIndex, survey>>
  BY DEF ReadGaps
<1>2. GapsFound \in SUBSET ChapterVerses /\ \A v \in GapsFound : copies[v] = 0
  BY DEF GapsFound
<1>3. \A s \in Seedings : seeding'[s] = IF s = r THEN [pc |-> "inserting", missing |-> GapsFound] ELSE seeding[s]
  BY DEF ReadGaps, VerseInv, VerseTypeOK
<1>4. VerseTypeOK'
  <2>1. seeding' = [s \in Seedings |-> seeding'[s]]
    BY DEF ReadGaps, VerseInv, VerseTypeOK
  <2>2. \A s \in Seedings : seeding'[s] \in SeedingRow
    BY <1>2, <1>3 DEF VerseInv, VerseTypeOK, SeedingRow
  <2> QED
    BY <1>1, <2>1, <2>2 DEF VerseInv, VerseTypeOK, ReadGaps
<1>5. OneSeeds'
  <2> SUFFICES ASSUME ~ overlap' PROVE OneSeeds'
    BY DEF OneSeeds
  <2>1. ~ overlap /\ \A s \in Seedings \ {r} : ~ Seeding(s)
    BY DEF ReadGaps
  <2>2. \A s \in Seedings : Seeding(s)' => s = r
    BY <1>3, <2>1 DEF Seeding
  <2>3. seeding'[r].missing = GapsFound
    BY <1>3
  <2> QED
    BY <1>1, <1>2, <2>2, <2>3 DEF OneSeeds
<1> QED
  BY <1>1, <1>4, <1>5 DEF VerseInv, IndexSafe, ReadGaps, VerseTypeOK

LEMMA InsertChunkKeeps ==
    ASSUME VerseInv, NEW r \in Seedings, InsertChunk(r) PROVE VerseInv'
<1>1. UNCHANGED <<verseIndex, overlap>> /\ Seeding(r) /\ seeding[r] \in SeedingRow
  BY DEF InsertChunk, VerseInv, VerseTypeOK
<1>2. PICK chunk \in SUBSET seeding[r].missing :
        \/ /\ seeding' = [seeding EXCEPT ![r].pc = "ended"]
           /\ UNCHANGED <<copies, survey>>
        \/ /\ ~ (verseIndex = "created" /\ \E v \in chunk : copies[v] > 0)
           /\ copies' = [v \in IndexedVerses |-> copies[v] + (IF v \in chunk THEN 1 ELSE 0)]
           /\ seeding' = [seeding EXCEPT ![r].missing = @ \ chunk]
           /\ survey' = [survey EXCEPT !.stale = TRUE]
  BY DEF InsertChunk
<1>3. CASE seeding' = [seeding EXCEPT ![r].pc = "ended"] /\ UNCHANGED <<copies, survey>>
  <2>1. \A s \in Seedings : seeding'[s] = IF s = r THEN [seeding[r] EXCEPT !.pc = "ended"] ELSE seeding[s]
    BY <1>3 DEF VerseInv, VerseTypeOK
  <2>2. [seeding[r] EXCEPT !.pc = "ended"] \in SeedingRow
    BY <1>1 DEF SeedingRow
  <2>3. seeding' \in [Seedings -> SeedingRow]
    BY <1>3, <2>1, <2>2 DEF VerseInv, VerseTypeOK
  <2>4. \A s \in Seedings : Seeding(s)' => Seeding(s) /\ seeding'[s] = seeding[s]
    BY <1>1, <2>1 DEF Seeding, SeedingRow
  <2>5. VerseTypeOK'
    BY <1>1, <1>3, <2>3 DEF VerseInv, VerseTypeOK
  <2>6. OneSeeds'
    BY <1>1, <1>3, <2>4 DEF VerseInv, OneSeeds
  <2> QED
    BY <1>1, <1>3, <2>5, <2>6 DEF VerseInv, IndexSafe
<1>4. CASE /\ ~ (verseIndex = "created" /\ \E v \in chunk : copies[v] > 0)
           /\ copies' = [v \in IndexedVerses |-> copies[v] + (IF v \in chunk THEN 1 ELSE 0)]
           /\ seeding' = [seeding EXCEPT ![r].missing = @ \ chunk]
           /\ survey' = [survey EXCEPT !.stale = TRUE]
  <2>1. \A s \in Seedings : seeding'[s] = IF s = r THEN [seeding[r] EXCEPT !.missing = @ \ chunk] ELSE seeding[s]
    BY <1>4 DEF VerseInv, VerseTypeOK
  <2>2. /\ [seeding[r] EXCEPT !.missing = @ \ chunk] \in SeedingRow
        /\ [seeding[r] EXCEPT !.missing = @ \ chunk].missing = seeding[r].missing \ chunk
        /\ [seeding[r] EXCEPT !.missing = @ \ chunk].pc = seeding[r].pc
    BY <1>1 DEF SeedingRow
  <2>3. seeding' \in [Seedings -> SeedingRow]
    BY <1>4, <2>1, <2>2 DEF VerseInv, VerseTypeOK
  <2>4. \A v \in IndexedVerses : copies[v] \in Nat /\ copies'[v] = copies[v] + (IF v \in chunk THEN 1 ELSE 0)
    BY <1>4 DEF VerseInv, VerseTypeOK
  <2>5. copies' \in [IndexedVerses -> Nat]
    <3>1. \A v \in IndexedVerses : copies[v] + (IF v \in chunk THEN 1 ELSE 0) \in Nat
      BY <2>4
    <3> QED
      BY <1>4, <3>1
  <2>6. survey' \in [exit : {"none", "clean", "dirty"}, stale : BOOLEAN] /\ survey'.stale
    BY <1>4 DEF VerseInv, VerseTypeOK
  <2>7. VerseTypeOK'
    BY <1>1, <2>3, <2>5, <2>6 DEF VerseInv, VerseTypeOK
  <2>8. \A s \in Seedings : Seeding(s)' <=> Seeding(s)
    BY <2>1, <2>2 DEF Seeding
  <2>9. \A v \in ChapterVerses : v \in IndexedVerses
    BY ChapterVersesBind
  <2>10. OneSeeds'
    <3> SUFFICES ASSUME ~ overlap PROVE OneSeeds'
      BY <1>1 DEF OneSeeds
    <3>1. \A s \in Seedings : Seeding(s) => s = r
      BY <1>1 DEF VerseInv, OneSeeds
    <3>2. ASSUME NEW v \in seeding[r].missing \ chunk PROVE copies'[v] = 0
      <4>1. v \in IndexedVerses /\ copies[v] = 0 /\ v \notin chunk
        BY <1>1, <2>9, <3>2 DEF VerseInv, OneSeeds, SeedingRow
      <4> QED
        BY <2>4, <4>1
    <3>3. seeding'[r].missing = seeding[r].missing \ chunk
      BY <2>1, <2>2
    <3> QED
      BY <2>8, <3>1, <3>2, <3>3 DEF OneSeeds
  <2>11. ASSUME verseIndex = "created" \/ ~ overlap, NEW v \in ChapterVerses PROVE copies'[v] <= 1
    <3>1. copies[v] \in Nat /\ copies[v] <= 1 /\ copies'[v] = copies[v] + (IF v \in chunk THEN 1 ELSE 0)
      BY <2>4, <2>9, <2>11 DEF VerseInv, IndexSafe
    <3>2. v \in chunk => copies[v] = 0
      <4>1. CASE verseIndex = "created"
        BY <1>4, <3>1, <4>1
      <4>2. CASE ~ overlap
        BY <1>1, <4>2 DEF VerseInv, OneSeeds
      <4> QED
        BY <2>11, <4>1, <4>2
    <3> QED
      BY <3>1, <3>2
  <2>12. IndexSafe'
    BY <1>1, <2>6, <2>11 DEF IndexSafe
  <2> QED
    BY <2>7, <2>10, <2>12 DEF VerseInv
<1> QED
  BY <1>2, <1>3, <1>4

LEMMA StopSeedingKeeps ==
    ASSUME VerseInv, NEW r \in Seedings, StopSeeding(r) PROVE VerseInv'
<1>1. UNCHANGED <<copies, verseIndex, survey, overlap>>
  BY DEF StopSeeding
<1>2. \A s \in Seedings : seeding'[s] = IF s = r THEN [pc |-> "none", missing |-> {}] ELSE seeding[s]
  BY DEF StopSeeding, VerseInv, VerseTypeOK
<1>3. seeding' \in [Seedings -> SeedingRow]
  <2>1. [pc |-> "none", missing |-> {}] \in SeedingRow
    BY DEF SeedingRow
  <2> QED
    BY <2>1 DEF StopSeeding, VerseInv, VerseTypeOK
<1>4. \A s \in Seedings : Seeding(s)' => Seeding(s) /\ seeding'[s] = seeding[s]
  BY <1>2 DEF Seeding
<1>5. VerseTypeOK'
  BY <1>1, <1>3 DEF VerseInv, VerseTypeOK
<1>6. OneSeeds'
  BY <1>1, <1>4 DEF VerseInv, OneSeeds
<1> QED
  BY <1>1, <1>5, <1>6 DEF VerseInv, IndexSafe

LEMMA InsertLooseKeeps ==
    ASSUME VerseInv, InsertLoose PROVE VerseInv'
<1>1. UNCHANGED <<verseIndex, seeding, overlap>> /\ survey' = [survey EXCEPT !.stale = TRUE]
  BY DEF InsertLoose
<1>2. PICK v \in LooseVerses : copies' = [copies EXCEPT ![v] = @ + 1]
  BY DEF InsertLoose
<1>3. copies' \in [IndexedVerses -> Nat]
  <2>1. v \in IndexedVerses /\ copies[v] + 1 \in Nat
    BY DEF IndexedVerses, VerseInv, VerseTypeOK
  <2> QED
    BY <1>2, <2>1 DEF VerseInv, VerseTypeOK
<1>4. \A u \in ChapterVerses : copies'[u] = copies[u]
  BY <1>2, ChapterVersesBind DEF VerseInv, VerseTypeOK
<1>5. survey' \in [exit : {"none", "clean", "dirty"}, stale : BOOLEAN] /\ survey'.stale
  BY <1>1 DEF VerseInv, VerseTypeOK
<1>6. VerseTypeOK'
  BY <1>1, <1>3, <1>5 DEF VerseInv, VerseTypeOK
<1>7. OneSeeds'
  BY <1>1, <1>4 DEF VerseInv, VerseTypeOK, OneSeeds, Seeding, SeedingRow
<1> QED
  BY <1>1, <1>4, <1>5, <1>6, <1>7 DEF VerseInv, IndexSafe

LEMMA VerseInvNext == VerseInv /\ [VerseNext]_verseVars => VerseInv'
<1>1. CASE UNCHANGED verseVars
  BY <1>1 DEF verseVars, VerseInv, VerseTypeOK, OneSeeds, Seeding, IndexSafe
<1> QED
  BY <1>1, SurveyKeeps, DeployKeeps, RepairKeeps, ReadGapsKeeps, InsertChunkKeeps, StopSeedingKeeps,
     InsertLooseKeeps DEF VerseNext

-----------------------------------------------------------------------------
(* The gate of the collections                                              *)

BookNames == {"bukhari", "nasai", "nawawi"}
NumberFields == {"ayahStart", "ayahEnd", "verseStart", "verseEnd"}

IsItem(i) ==
    /\ i = [f \in DOMAIN BlankItem |-> i[f]]
    /\ \A f \in NumberFields : i[f] \in Nat

CorpusOK ==
    /\ corpus = [f \in DOMAIN GoodCorpus |-> corpus[f]]
    /\ corpus.verses \subseteq 1 .. VerseCount
    /\ corpus.hindu \in [1 .. VerseCount -> {0, 1, 2}]
    /\ corpus.books \subseteq BookNames
    /\ \A h \in corpus.hadiths : h[1] \in corpus.books

ItemsRead == {ItemsOf[n] : n \in DOMAIN ItemsOf}

\* What a verdict on an item that is not a failure says of the content.
PartFound(part) ==
    part.shape = "hadith" =>
        \/ <<part.book, part.number>> \in corpus.hadiths
        \/ "UNVERIFIABLE" \in gate.verdicts /\ part.book \notin gate.filled \ {"nasai"}
ItemFound(i) == Recitable(i) /\ \A part \in i.citation : PartFound(part)

\* What is so while the gate reads the database, and when it has not ended with 2.
GateReads ==
    /\ gate.phase \in {"items", "report", "content", "done"}
    /\ CheckStructure \subseteq gate.verdicts
    /\ gate.filled \subseteq gate.books /\ gate.books \subseteq BookNames
    /\ gate.todo \in Seq(ItemsRead)
    /\ gate.phase # "items" => gate.todo = <<>>
    /\ \A i \in ItemsRead :
            "FAIL" \in gate.verdicts \/ ItemFound(i) \/ \E m \in DOMAIN gate.todo : gate.todo[m] = i
    /\ \/ gate.phase = "content" /\ gate.own = 0
       \/ gate.phase = "done" /\ gate.exit = 0
       => ~ Blocking(gate.verdicts, gate.strict)

\* While rows only come what was found stays: what the gate has ticked off is there.
CitationInv ==
    /\ IsItem(item) /\ CorpusOK
    /\ gate = [f \in DOMAIN NoGate |-> gate[f]]
    /\ gate.phase = "off" => gate.mode = "none"
    /\ gate.phase # "done" => gate.exit = 9
    /\ gate.mode = "database" /\ gate.exit # 2 => GateReads

LEMMA ItemsAre ==
    /\ \A i \in ItemsRead : i = item \/ \E n : i = [BlankItem EXCEPT !.sequence = n]
    /\ ItemsOf # <<>> => item \in ItemsRead
    /\ ItemsOf \in Seq(ItemsRead)
<1>1. CASE ItemsOf = <<>>
  BY <1>1 DEF ItemsRead
<1>2. CASE ItemsOf = <<item>>
  BY <1>2 DEF ItemsRead
<1>3. CASE ItemsOf = <<item, [BlankItem EXCEPT !.sequence = head.extra]>>
  <2>1. PICK blank : blank = [BlankItem EXCEPT !.sequence = head.extra]
    OBVIOUS
  <2>2. ItemsOf = <<item, blank>>
    BY <1>3, <2>1
  <2>3. ItemsRead = {item, blank}
    BY <2>2 DEF ItemsRead
  <2>4. ItemsOf \in Seq(ItemsRead)
    BY <2>2, <2>3
  <2>5. \A i \in ItemsRead : i = item \/ i = [BlankItem EXCEPT !.sequence = head.extra]
    BY <2>1, <2>3
  <2> QED
    BY <2>3, <2>4, <2>5
<1> QED
  BY <1>1, <1>2, <1>3 DEF ItemsOf

LEMMA BlankIsItem == ASSUME NEW n PROVE IsItem([BlankItem EXCEPT !.sequence = n])
BY DEF IsItem, BlankItem, NumberFields

LEMMA ReadAreItems ==
    ASSUME IsItem(item), NEW i \in ItemsRead PROVE IsItem(i)
BY ItemsAre, BlankIsItem

-----------------------------------------------------------------------------
\* As many as there is room for are all.
LEMMA RoomFilled ==
    ASSUME NEW a \in Nat, NEW b \in Nat, a <= b, NEW S \in SUBSET (a .. b), Cardinality(S) + a = b + 1
    PROVE  S = a .. b
<1>1. IsFiniteSet(a .. b) /\ Cardinality(a .. b) = b - a + 1
  <2>1. a \in Int /\ b \in Int /\ ~ (a > b)
    OBVIOUS
  <2> QED
    BY <2>1, FS_Interval
<1>2. IsFiniteSet(S)
  BY <1>1, FS_Subset
<1>3. Cardinality(S) \in Nat
  BY <1>2, FS_CardinalityType
<1>4. Cardinality(S) = Cardinality(a .. b)
  BY <1>1, <1>3
<1> QED
  BY <1>1, <1>4, FS_Subset

\* As many rows as verses, and as many verses as rows: one row of each.
LEMMA OneRowEach ==
    ASSUME CorpusOK, NEW from \in Nat, NEW to \in Nat, 1 <= from, from <= to,
           Cardinality(Rows(from, to)) + from = to + 1,
           Cardinality({row[1] : row \in Rows(from, to)}) = Cardinality(Rows(from, to))
    PROVE  to <= VerseCount /\ \A n \in from .. to : corpus.hindu[n] = 1
<1>1. PICK found : found = Rows(from, to)
  OBVIOUS
<1>2. PICK sifted : sifted = {row[1] : row \in found}
  OBVIOUS
<1>3. VerseCount \in Nat
  BY GateAssumption DEF GateAssumption
<1>4. IsFiniteSet(found)
  <2>1. IsFiniteSet(1 .. VerseCount) /\ IsFiniteSet({1, 2})
    <3>1. 1 \in Int /\ 2 \in Int /\ VerseCount \in Int
      BY <1>3
    <3>2. IsFiniteSet(1 .. VerseCount) /\ IsFiniteSet(1 .. 2)
      BY <3>1, FS_Interval
    <3>3. 1 .. 2 = {1, 2}
      OBVIOUS
    <3> QED
      BY <3>2, <3>3
  <2>2. IsFiniteSet((1 .. VerseCount) \X {1, 2})
    BY <2>1, FS_Product
  <2>3. found \in SUBSET ((1 .. VerseCount) \X {1, 2})
    BY <1>1 DEF Rows
  <2> QED
    BY <2>2, <2>3, FS_Subset
<1>5. \A row \in found : row[1] \in 1 .. VerseCount /\ row[1] \in from .. to
  BY <1>1, <1>3 DEF Rows
<1>6. sifted = from .. to
  <2>1. sifted \in SUBSET (from .. to)
    BY <1>2, <1>5
  <2>2. Cardinality(sifted) + from = to + 1
    BY <1>1, <1>2
  <2> QED
    BY <2>1, <2>2, RoomFilled
<1>7. to <= VerseCount
  <2>1. to \in sifted
    BY <1>6
  <2>2. to \in 1 .. VerseCount
    BY <1>2, <1>5, <2>1
  <2> QED
    BY <1>3, <2>2
<1> DEFINE verseOf == [row \in found |-> row[1]]
<1>8. verseOf \in Surjection(found, sifted)
  BY <1>2 DEF Surjection
<1>9. verseOf \in Injection(found, sifted)
  <2>1. Cardinality(sifted) = Cardinality(found)
    BY <1>1, <1>2
  <2> HIDE DEF verseOf
  <2> QED
    BY <1>4, <1>8, <2>1, FS_Surjection
<1>10. \A r, s \in found : r[1] = s[1] => r = s
  BY <1>9 DEF Injection, IsInjective
<1>11. ASSUME NEW n \in from .. to PROVE corpus.hindu[n] = 1
  <2>1. PICK row \in found : row[1] = n
    BY <1>2, <1>6
  <2>2. n \in 1 .. VerseCount /\ corpus.hindu[n] \in {0, 1, 2} /\ row[2] \in {1, 2} /\ row[2] <= corpus.hindu[n]
    BY <1>1, <1>5, <2>1 DEF Rows, CorpusOK
  <2>3. ASSUME corpus.hindu[n] = 2 PROVE FALSE
    <3>1. <<n, 1>> \in found /\ <<n, 2>> \in found
      BY <1>1, <2>2, <2>3 DEF Rows
    <3>2. <<n, 1>>[1] = <<n, 2>>[1] /\ <<n, 1>> # <<n, 2>>
      OBVIOUS
    <3> QED
      BY <1>10, <3>1, <3>2
  <2> QED
    BY <2>2, <2>3
<1> QED
  BY <1>7, <1>11

\* An item that is well made and does not fail is read whole.
LEMMA SurahIsRead ==
    ASSUME CorpusOK, NEW i, IsItem(i), ~ ItemFails(i), i.refType \in {"surah", "ayah_range"},
           SurahVerdict(i) \notin {"FAIL", "throws"}
    PROVE  Recitable(i)
<1>1. VerseCount \in Nat /\ i.ayahStart \in Nat /\ i.ayahEnd \in Nat
  BY GateAssumption DEF GateAssumption, IsItem, NumberFields
<1>2. IsFiniteSet(1 .. VerseCount) /\ Cardinality(1 .. VerseCount) = VerseCount
  <2>1. 1 \in Int /\ VerseCount \in Int /\ ~ (1 > VerseCount)
    BY <1>1, GateAssumption DEF GateAssumption
  <2> QED
    BY <2>1, FS_Interval
<1>3. CASE i.refType = "surah"
  <2>1. Cardinality(corpus.verses) = VerseCount
    BY <1>3 DEF SurahVerdict
  <2>2. corpus.verses = 1 .. VerseCount
    BY <1>2, <2>1, FS_Subset DEF CorpusOK
  <2> QED
    BY <1>3, <2>2 DEF Recitable
<1>4. CASE i.refType = "ayah_range"
  <2>1. PICK from \in Nat, to \in Nat : from = i.ayahStart /\ to = EndOf(i.ayahStart, i.ayahEnd)
    BY <1>1 DEF EndOf
  <2>2. /\ from # 0 /\ ~ (to > VerseCount)
        /\ Cardinality(corpus.verses \intersect (from .. to)) + from = to + 1
    BY <1>4, <2>1 DEF SurahVerdict
  <2>3. from <= to
    <3>1. ~ RangeBackwards(i.ayahStart, i.ayahEnd)
      BY DEF ItemFails
    <3> QED
      BY <1>1, <2>1, <2>2, <3>1 DEF RangeBackwards, EndOf
  <2>4. corpus.verses \intersect (from .. to) = from .. to
    <3>1. PICK S \in SUBSET (from .. to) : S = corpus.verses \intersect (from .. to)
      OBVIOUS
    <3>2. Cardinality(S) + from = to + 1
      BY <2>2, <3>1
    <3>3. S = from .. to
      BY <2>3, <3>2, RoomFilled
    <3> QED
      BY <3>1, <3>3
  <2>5. to = IF i.ayahEnd = 0 THEN i.ayahStart ELSE i.ayahEnd
    BY <2>1 DEF EndOf
  <2>6. from \in 1 .. to /\ from .. to \subseteq corpus.verses
    BY <2>2, <2>3, <2>4
  <2> QED
    BY <1>4, <2>1, <2>5, <2>6 DEF Recitable
<1> QED
  BY <1>3, <1>4

LEMMA HinduIsRead ==
    ASSUME CorpusOK, NEW i, IsItem(i), ~ ItemFails(i), i.refType = "hindu_verse_range",
           HinduVerdict(i) \notin {"FAIL", "throws"}
    PROVE  Recitable(i)
<1>1. VerseCount \in Nat /\ i.verseStart \in Nat /\ i.verseEnd \in Nat
  BY GateAssumption DEF GateAssumption, IsItem, NumberFields
<1>2. PICK from \in Nat, to \in Nat : from = i.verseStart /\ to = EndOf(i.verseStart, i.verseEnd)
  BY <1>1 DEF EndOf
<1>3. /\ from # 0
      /\ Cardinality(Rows(from, to)) + from = to + 1
      /\ Cardinality({row[1] : row \in Rows(from, to)}) = Cardinality(Rows(from, to))
  BY <1>2 DEF HinduVerdict
<1>4. 1 <= from /\ from <= to
  <2>1. ~ RangeBackwards(i.verseStart, i.verseEnd)
    BY DEF ItemFails
  <2> QED
    BY <1>1, <1>2, <1>3, <2>1 DEF RangeBackwards, EndOf
<1>5. to <= VerseCount /\ \A n \in from .. to : corpus.hindu[n] = 1
  BY <1>3, <1>4, OneRowEach
<1>6. to = IF i.verseEnd = 0 THEN i.verseStart ELSE i.verseEnd
  BY <1>2 DEF EndOf
<1>7. from \in 1 .. to
  BY <1>4
<1> QED
  BY <1>2, <1>5, <1>6, <1>7 DEF Recitable

LEMMA ItemIsRead ==
    ASSUME CorpusOK, NEW i, IsItem(i), ~ ItemFails(i), ReferenceVerdict(i) \notin {"FAIL", "throws"}
    PROVE  Recitable(i)
<1>1. CASE i.refType \in {"surah", "ayah_range"}
  BY <1>1, SurahIsRead DEF ReferenceVerdict
<1>2. CASE i.refType = "hindu_verse_range"
  BY <1>2, HinduIsRead DEF ReferenceVerdict
<1>3. CASE i.refType \in {"dua", "stotra"}
  BY <1>3 DEF ReferenceVerdict, SlugVerdict, Recitable
<1>4. CASE i.refType \notin {"surah", "ayah_range", "hindu_verse_range", "dua", "stotra"}
  BY <1>4 DEF Recitable
<1> QED
  BY <1>1, <1>2, <1>3, <1>4

\* A hadith that does not fail is there, or could not be looked up.
LEMMA PartIsFound ==
    ASSUME CorpusOK, NEW part, part.shape = "hadith", NEW books, books \subseteq BookNames, NEW filled, filled \subseteq books,
           PartVerdict(part, books, filled) # "FAIL"
    PROVE  \/ <<part.book, part.number>> \in corpus.hadiths
           \/ PartVerdict(part, books, filled) = "UNVERIFIABLE" /\ part.book \notin filled \ {"nasai"}
<1>1. PICK book : book = ResolveBook(part, books)
  OBVIOUS
<1>2. \/ book = part.book /\ part.book \in books
      \/ book = "not seeded" /\ part.book \notin books \ {"nasai"}
      \/ book = "unknown"
  BY <1>1 DEF ResolveBook
<1>3. part.book \in books => part.book # "unknown" /\ part.book # "not seeded"
  BY DEF BookNames
<1>4. PartVerdict(part, books, filled) =
        IF book = "unknown" THEN "FAIL"
        ELSE IF book = "not seeded" \/ book \notin filled THEN "UNVERIFIABLE"
        ELSE IF <<book, part.number>> \in corpus.hadiths THEN "PASS" ELSE "FAIL"
  BY <1>1 DEF PartVerdict
<1>5. CASE book = part.book /\ part.book \in books
  BY <1>3, <1>4, <1>5
<1>6. CASE book = "not seeded" /\ part.book \notin books \ {"nasai"}
  BY <1>4, <1>6
<1> QED
  BY <1>2, <1>4, <1>5, <1>6

-----------------------------------------------------------------------------
\* The steps: before the gate reads.
LEMMA BlankIs ==
    /\ DOMAIN BlankItem =
        {"sequence", "refType", "surahId", "ayahStart", "ayahEnd", "hinduTextSlug", "chapterNumber",
         "verseStart", "verseEnd", "refSlug", "refId", "repeatCount", "label", "citation", "grading"}
    /\ BlankItem = [f \in DOMAIN BlankItem |-> BlankItem[f]]
    /\ BlankItem.ayahStart = 0 /\ BlankItem.ayahEnd = 0 /\ BlankItem.verseStart = 0 /\ BlankItem.verseEnd = 0
BY DEF BlankItem

LEMMA CitationInvInit == GateInit => CitationInv
<1> SUFFICES ASSUME GateInit PROVE CitationInv
  OBVIOUS
<1>1. IsItem(item)
  <2>1. item \in GoodItems
    BY DEF GateInit
  <2>2. ASSUME NEW i, i = [BlankItem EXCEPT !.refType = "surah", !.surahId = 1, !.label = "card",
                                 !.citation = {HadithPart("bukhari", 1)}, !.grading = "sahih"]
        PROVE  IsItem(i)
    <3>1. /\ i = [f \in DOMAIN BlankItem |-> i[f]]
          /\ i.ayahStart = 0 /\ i.ayahEnd = 0 /\ i.verseStart = 0 /\ i.verseEnd = 0
      BY <2>2, BlankIs
    <3> QED
      BY <3>1 DEF IsItem, NumberFields
  <2>3. ASSUME NEW i, i = [BlankItem EXCEPT !.refType = "ayah_range", !.surahId = 1, !.ayahStart = 1, !.ayahEnd = 2,
                                 !.citation = {HadithPart("nawawi", 1), PartOf("verse")}, !.grading = "hasan"]
        PROVE  IsItem(i)
    <3>1. /\ i = [f \in DOMAIN BlankItem |-> i[f]]
          /\ i.ayahStart = 1 /\ i.ayahEnd = 2 /\ i.verseStart = 0 /\ i.verseEnd = 0
      BY <2>3, BlankIs
    <3> QED
      BY <3>1 DEF IsItem, NumberFields
  <2>4. ASSUME NEW i, i = [BlankItem EXCEPT !.refType = "hindu_verse_range", !.hinduTextSlug = "gita", !.chapterNumber = 1,
                                 !.verseStart = 1, !.verseEnd = 2, !.citation = {PartOf("verse")}]
        PROVE  IsItem(i)
    <3>1. /\ i = [f \in DOMAIN BlankItem |-> i[f]]
          /\ i.ayahStart = 0 /\ i.ayahEnd = 0 /\ i.verseStart = 1 /\ i.verseEnd = 2
      BY <2>4, BlankIs
    <3> QED
      BY <3>1 DEF IsItem, NumberFields
  <2>5. ASSUME NEW i, \/ i = [BlankItem EXCEPT !.refType = "dua", !.refSlug = "slug", !.refId = "id"]
                      \/ i = [BlankItem EXCEPT !.refType = "stotra", !.refSlug = "slug"]
                      \/ i = BlankItem
        PROVE  IsItem(i)
    <3>1. /\ i = [f \in DOMAIN BlankItem |-> i[f]]
          /\ i.ayahStart = 0 /\ i.ayahEnd = 0 /\ i.verseStart = 0 /\ i.verseEnd = 0
      BY <2>5, BlankIs
    <3> QED
      BY <3>1 DEF IsItem, NumberFields
  <2> QED
    BY <2>1, <2>2, <2>3, <2>4, <2>5, Zenon DEF GoodItems
<1>2. CorpusOK
  <2>1. corpus = GoodCorpus
    BY DEF GateInit
  <2> QED
    BY <2>1 DEF GoodCorpus, CorpusOK, BookNames
<1> QED
  BY <1>1, <1>2 DEF GateInit, NoGate, CitationInv

LEMMA ItemSlips_Keep ==
    ASSUME IsItem(item), NEW f \in DOMAIN ItemSlips, NEW v \in ItemSlips[f], NEW slipped, slipped = [item EXCEPT ![f] = v]
    PROVE  IsItem(slipped)
<1>1. VerseCount \in Nat
  BY GateAssumption DEF GateAssumption
<1>2. /\ ItemSlips["ayahStart"] = {0, 2, VerseCount + 1} /\ ItemSlips["ayahEnd"] = {0, 1, VerseCount + 1}
      /\ ItemSlips["verseStart"] = {0, 2, VerseCount + 1} /\ ItemSlips["verseEnd"] = {0, 1}
  BY DEF ItemSlips
<1>3. f \in NumberFields => v \in Nat
  BY <1>1, <1>2 DEF NumberFields
<1>4. slipped = [g \in DOMAIN BlankItem |-> IF g = f THEN v ELSE item[g]]
  BY DEF IsItem
<1>5. \A g \in NumberFields : g \in DOMAIN BlankItem
  BY DEF NumberFields, BlankItem
<1> QED
  BY <1>3, <1>4, <1>5 DEF IsItem

LEMMA CorpusSlips_Keep ==
    ASSUME CorpusOK, NEW f \in DOMAIN CorpusSlips, NEW v \in CorpusSlips[f], NEW c, c = [corpus EXCEPT ![f] = v],
           corpus' = WithParents(c)
    PROVE  CorpusOK'
<1>1. VerseCount \in Nat /\ VerseCount >= 2
  BY GateAssumption DEF GateAssumption
<1>2. DOMAIN GoodCorpus = {"verses", "surahRow", "chapterRow", "hindu", "slugs", "books", "hadiths"}
  BY DEF GoodCorpus
<1>3. c = [g \in DOMAIN GoodCorpus |-> IF g = f THEN v ELSE corpus[g]]
  BY DEF CorpusOK
<1>4. c.verses \subseteq 1 .. VerseCount
  <2>1. f = "verses" => v \in {{}, {1}, {2}, 2 .. VerseCount}
    BY DEF CorpusSlips
  <2>2. f = "verses" => v \subseteq 1 .. VerseCount
    BY <1>1, <2>1
  <2> QED
    BY <1>2, <1>3, <2>2 DEF CorpusOK
<1>5. c.hindu \in [1 .. VerseCount -> {0, 1, 2}]
  <2>1. f = "hindu" => v \in {[n \in 1 .. VerseCount |-> IF n = 1 THEN 2 ELSE 0],
                              [n \in 1 .. VerseCount |-> IF n = 1 THEN 2 ELSE 1],
                              [n \in 1 .. VerseCount |-> IF n = 1 THEN 0 ELSE 1]}
    BY DEF CorpusSlips
  <2>2. f = "hindu" => v \in [1 .. VerseCount -> {0, 1, 2}]
    BY <2>1
  <2> QED
    BY <1>2, <1>3, <2>2 DEF CorpusOK
<1>6. c.books \subseteq BookNames
  <2>1. f = "books" => v \in {{}, {"nawawi"}}
    BY DEF CorpusSlips
  <2> QED
    BY <1>2, <1>3, <2>1 DEF CorpusOK, BookNames
<1>7. corpus' = [g \in DOMAIN GoodCorpus |-> corpus'[g]]
  BY <1>2, <1>3 DEF WithParents
<1>8. /\ corpus'.verses \subseteq c.verses /\ corpus'.books = c.books
      /\ corpus'.hadiths = {h \in c.hadiths : h[1] \in c.books}
  BY <1>2, <1>3 DEF WithParents
<1>9. corpus'.hindu = [n \in 1 .. VerseCount |-> IF c.chapterRow THEN c.hindu[n] ELSE 0]
  <2>1. corpus'.hindu = [n \in DOMAIN c.hindu |-> IF c.chapterRow THEN c.hindu[n] ELSE 0]
    BY <1>2, <1>3 DEF WithParents
  <2>2. DOMAIN c.hindu = 1 .. VerseCount
    BY <1>5
  <2> QED
    BY <2>1, <2>2
<1>10. corpus'.hindu \in [1 .. VerseCount -> {0, 1, 2}]
  BY <1>5, <1>9
<1> QED
  BY <1>4, <1>6, <1>7, <1>8, <1>10 DEF CorpusOK

LEMMA SlipKeeps == ASSUME CitationInv, Slip PROVE CitationInv'
<1>1. UNCHANGED gate /\ gate.phase = "off" /\ gate.mode = "none" /\ gate.exit = 9
  BY DEF Slip, CitationInv
<1>2. IsItem(item)'
  <2>1. CASE \E f \in DOMAIN ItemSlips : \E v \in ItemSlips[f] : item' = [item EXCEPT ![f] = v]
    <3>1. PICK slipped : slipped = item'
      OBVIOUS
    <3>2. IsItem(slipped)
      BY <2>1, <3>1, ItemSlips_Keep DEF CitationInv
    <3> QED
      BY <3>1, <3>2 DEF IsItem
  <2>2. CASE UNCHANGED item
    BY <2>2 DEF CitationInv, IsItem
  <2> QED
    BY <2>1, <2>2 DEF Slip
<1>3. CorpusOK'
  <2>1. CASE \E f \in DOMAIN CorpusSlips : \E v \in CorpusSlips[f] : corpus' = WithParents([corpus EXCEPT ![f] = v])
    BY <2>1, CorpusSlips_Keep DEF CitationInv
  <2>2. CASE UNCHANGED corpus
    BY <2>2 DEF CitationInv, CorpusOK
  <2> QED
    BY <2>1, <2>2 DEF Slip
<1>4. (gate = [f \in DOMAIN NoGate |-> gate[f]])'
  BY <1>1 DEF CitationInv
<1> QED
  BY <1>1, <1>2, <1>3, <1>4 DEF CitationInv

-----------------------------------------------------------------------------
\* Content that comes meanwhile takes nothing away.
CorpusGrows ==
    /\ corpus.verses \subseteq corpus'.verses /\ corpus.hadiths \subseteq corpus'.hadiths
    /\ \A n \in 1 .. VerseCount : corpus.hindu[n] = 1 => corpus'.hindu[n] = 1
    /\ corpus'.slugs = corpus.slugs

LEMMA FoundStays ==
    ASSUME CorpusGrows, NEW i, IsItem(i), ItemFound(i), gate'.filled = gate.filled, gate.verdicts \subseteq gate'.verdicts
    PROVE  ItemFound(i)'
<1>1. Recitable(i)'
  <2>1. /\ i.refType = "surah" => 1 .. VerseCount \subseteq corpus'.verses
        /\ i.refType \in {"dua", "stotra"} => i.refSlug = "slug" /\ corpus'.slugs
    BY DEF CorpusGrows, ItemFound, Recitable
  <2>2. PICK lastAyah, lastVerse :
            /\ lastAyah = IF i.ayahEnd = 0 THEN i.ayahStart ELSE i.ayahEnd
            /\ lastVerse = IF i.verseEnd = 0 THEN i.verseStart ELSE i.verseEnd
    OBVIOUS
  <2>3. i.refType = "ayah_range" =>
            i.ayahStart \in 1 .. lastAyah /\ i.ayahStart .. lastAyah \subseteq corpus'.verses
    BY <2>2 DEF CorpusGrows, ItemFound, Recitable
  <2>4. ASSUME i.refType = "hindu_verse_range"
        PROVE  /\ i.verseStart \in 1 .. lastVerse /\ lastVerse <= VerseCount
               /\ \A n \in i.verseStart .. lastVerse : corpus'.hindu[n] = 1
    <3>1. /\ i.verseStart \in 1 .. lastVerse /\ lastVerse <= VerseCount
          /\ \A n \in i.verseStart .. lastVerse : corpus.hindu[n] = 1
      BY <2>2, <2>4 DEF ItemFound, Recitable
    <3>2. VerseCount \in Nat /\ i.verseStart \in Nat /\ lastVerse \in Nat
      BY <2>2, GateAssumption DEF GateAssumption, IsItem, NumberFields
    <3>3. \A n \in i.verseStart .. lastVerse : n \in 1 .. VerseCount
      BY <3>1, <3>2
    <3> QED
      BY <3>1, <3>3 DEF CorpusGrows
  <2> QED
    BY <2>1, <2>2, <2>3, <2>4 DEF Recitable
<1>2. ASSUME NEW p \in i.citation PROVE PartFound(p)'
  BY DEF ItemFound, PartFound, CorpusGrows
<1> QED
  BY <1>1, <1>2 DEF ItemFound

LEMMA CorpusStays == ASSUME UNCHANGED corpus PROVE CorpusGrows
BY DEF CorpusGrows

LEMMA ReadsStays ==
    ASSUME IsItem(item), GateReads, CorpusGrows, UNCHANGED <<head, item, gate>>
    PROVE  GateReads'
<1>1. ItemsOf' = ItemsOf /\ ItemsRead' = ItemsRead
  BY DEF ItemsOf, ItemsRead
<1>2. CheckStructure' = CheckStructure
  BY <1>1 DEF CheckStructure, HeadFails, ItemFails, CollectionsRead
<1>3. ASSUME NEW i \in ItemsRead, ItemFound(i) PROVE ItemFound(i)'
  BY <1>3, FoundStays, ReadAreItems
<1> QED
  BY <1>1, <1>2, <1>3 DEF GateReads

LEMMA SeedRowKeeps == ASSUME CitationInv, SeedRow PROVE CitationInv'
<1>1. UNCHANGED <<head, item, gate>>
  BY DEF SeedRow
<1>2. /\ DOMAIN GoodCorpus = {"verses", "surahRow", "chapterRow", "hindu", "slugs", "books", "hadiths"}
      /\ GoodCorpus.books = BookNames
  BY DEF GoodCorpus, BookNames
<1>3. CorpusOK' /\ CorpusGrows
  <2>1. CASE \E n \in (1 .. VerseCount) \ corpus.verses : corpus' = [corpus EXCEPT !.verses = @ \union {n}]
    <3>1. PICK n \in (1 .. VerseCount) : corpus' = [corpus EXCEPT !.verses = @ \union {n}]
      BY <2>1
    <3>2. /\ corpus' = [f \in DOMAIN GoodCorpus |-> corpus'[f]] /\ corpus'.hindu = corpus.hindu
          /\ corpus'.verses = corpus.verses \union {n} /\ corpus'.books = corpus.books /\ corpus'.hadiths = corpus.hadiths
          /\ corpus'.slugs = corpus.slugs
      BY <1>2, <3>1 DEF CitationInv, CorpusOK
    <3> QED
      BY <3>2 DEF CitationInv, CorpusOK, CorpusGrows
  <2>2. CASE \E n \in 1 .. VerseCount : corpus' = [corpus EXCEPT !.hindu[n] = 1]
    <3>1. PICK n \in 1 .. VerseCount : corpus' = [corpus EXCEPT !.hindu[n] = 1]
      BY <2>2
    <3>2. /\ corpus' = [f \in DOMAIN GoodCorpus |-> corpus'[f]] /\ corpus'.hindu = [corpus.hindu EXCEPT ![n] = 1]
          /\ corpus'.verses = corpus.verses /\ corpus'.books = corpus.books /\ corpus'.hadiths = corpus.hadiths
          /\ corpus'.slugs = corpus.slugs
      BY <1>2, <3>1 DEF CitationInv, CorpusOK
    <3>3. corpus.hindu \in [1 .. VerseCount -> {0, 1, 2}]
      BY DEF CitationInv, CorpusOK
    <3>4. /\ corpus'.hindu \in [1 .. VerseCount -> {0, 1, 2}]
          /\ \A m \in 1 .. VerseCount : corpus.hindu[m] = 1 => corpus'.hindu[m] = 1
      BY <3>2, <3>3
    <3> QED
      BY <3>2, <3>4 DEF CitationInv, CorpusOK, CorpusGrows
  <2>3. CASE \E b \in GoodCorpus.books \ corpus.books : corpus' = [corpus EXCEPT !.books = @ \union {b}]
    <3>1. PICK b \in GoodCorpus.books : corpus' = [corpus EXCEPT !.books = @ \union {b}]
      BY <2>3
    <3>2. /\ corpus' = [f \in DOMAIN GoodCorpus |-> corpus'[f]] /\ corpus'.hindu = corpus.hindu
          /\ corpus'.verses = corpus.verses /\ corpus'.books = corpus.books \union {b} /\ corpus'.hadiths = corpus.hadiths
          /\ corpus'.slugs = corpus.slugs
      BY <1>2, <3>1 DEF CitationInv, CorpusOK
    <3> QED
      BY <1>2, <3>1, <3>2 DEF CitationInv, CorpusOK, CorpusGrows
  <2>4. CASE \E h \in GoodCorpus.hadiths \ corpus.hadiths :
                h[1] \in corpus.books /\ corpus' = [corpus EXCEPT !.hadiths = @ \union {h}]
    BY <1>2, <2>4 DEF CitationInv, CorpusOK, CorpusGrows
  <2> QED
    BY <2>1, <2>2, <2>3, <2>4 DEF SeedRow
<1>4. IsItem(item)'
  BY <1>1 DEF CitationInv, IsItem
<1>5. (gate.mode = "database" /\ gate.exit # 2 => GateReads)'
  BY <1>1, <1>3, ReadsStays DEF CitationInv
<1>6. (gate = [f \in DOMAIN NoGate |-> gate[f]])'
  BY <1>1 DEF CitationInv
<1> QED
  BY <1>1, <1>3, <1>4, <1>5, <1>6 DEF CitationInv

-----------------------------------------------------------------------------
\* The steps of the gate.
LEMMA GateFields ==
    DOMAIN NoGate = {"phase", "mode", "strict", "todo", "books", "filled", "verdicts", "own", "exit"}
BY DEF NoGate

LEMMA GateStep ==
    ASSUME CitationInv, UNCHANGED <<head, item, corpus>>
    PROVE  /\ IsItem(item)' /\ CorpusOK' /\ CorpusGrows
           /\ ItemsOf' = ItemsOf /\ ItemsRead' = ItemsRead /\ CheckStructure' = CheckStructure
<1>1. ItemsOf' = ItemsOf /\ ItemsRead' = ItemsRead
  BY DEF ItemsOf, ItemsRead
<1>2. CheckStructure' = CheckStructure
  BY <1>1 DEF CheckStructure, HeadFails, ItemFails, CollectionsRead
<1> QED
  BY <1>1, <1>2, CorpusStays DEF CitationInv, IsItem, CorpusOK

LEMMA OtherModesKeep ==
    ASSUME CitationInv, \/ \E strict \in BOOLEAN : ReadSeedFile(strict)
                        \/ ReadNoCollections \/ DatabaseFails
    PROVE  CitationInv'
<1>1. UNCHANGED <<head, item, corpus>> /\ gate = [f \in DOMAIN NoGate |-> gate[f]]
  BY DEF ReadSeedFile, ReadNoCollections, DatabaseFails, CitationInv
<1>2. CASE \E strict \in BOOLEAN : ReadSeedFile(strict)
  <2>1. gate' = [f \in DOMAIN NoGate |-> gate'[f]] /\ gate'.phase = "report" /\ gate'.mode = "file" /\ gate'.exit = gate.exit /\ gate.phase = "off"
    BY <1>1, <1>2, GateFields DEF ReadSeedFile
  <2> QED
    BY <1>1, <2>1, GateStep DEF CitationInv
<1>3. CASE ReadNoCollections
  <2>1. gate' = [f \in DOMAIN NoGate |-> gate'[f]] /\ gate'.phase = "done" /\ gate'.mode = "empty"
    BY <1>1, <1>3, GateFields DEF ReadNoCollections
  <2> QED
    BY <1>1, <2>1, GateStep DEF CitationInv
<1>4. CASE DatabaseFails
  <2>1. gate' = [f \in DOMAIN NoGate |-> gate'[f]] /\ gate'.phase = "done" /\ gate'.exit = 2
    BY <1>1, <1>4, GateFields DEF DatabaseFails
  <2> QED
    BY <1>1, <2>1, GateStep DEF CitationInv
<1> QED
  BY <1>2, <1>3, <1>4

LEMMA ReadCollectionsKeeps == ASSUME CitationInv, NEW strict \in BOOLEAN, ReadCollections(strict) PROVE CitationInv'
<1>1. UNCHANGED <<head, item, corpus>> /\ gate = [f \in DOMAIN NoGate |-> gate[f]] /\ gate.phase = "off" /\ gate.exit = 9
  BY DEF ReadCollections, CitationInv
<1>2. /\ gate' = [f \in DOMAIN NoGate |-> gate'[f]] /\ gate'.phase = "items" /\ gate'.exit = gate.exit
      /\ gate'.todo = ItemsOf /\ gate'.verdicts = CheckStructure /\ gate'.books = corpus.books
      /\ gate'.filled = {h[1] : h \in corpus.hadiths}
  BY <1>1, GateFields DEF ReadCollections
<1>3. /\ IsItem(item)' /\ CorpusOK' /\ ItemsRead' = ItemsRead /\ CheckStructure' = CheckStructure
  BY <1>1, GateStep
<1>4. gate'.filled \subseteq gate'.books /\ gate'.books \subseteq BookNames
  BY <1>2 DEF CitationInv, CorpusOK
<1>5. gate'.todo \in Seq(ItemsRead) /\ \A i \in ItemsRead : \E m \in DOMAIN gate'.todo : gate'.todo[m] = i
  BY <1>2, ItemsAre DEF ItemsRead
<1>6. GateReads'
  BY <1>2, <1>3, <1>4, <1>5 DEF GateReads
<1> QED
  BY <1>1, <1>2, <1>3, <1>6 DEF CitationInv

\* An item that was looked at and did not fail is found.
LEMMA CheckItemFinds ==
    ASSUME CitationInv, GateReads, CheckItem, gate'.exit # 2
    PROVE  \A i \in ItemsRead : i = Head(gate.todo) => "FAIL" \in gate'.verdicts \/ ItemFound(i)'
<1> SUFFICES ASSUME NEW i \in ItemsRead, i = Head(gate.todo), "FAIL" \notin gate'.verdicts PROVE ItemFound(i)'
  OBVIOUS
<1>1. UNCHANGED <<head, item, corpus>> /\ gate = [f \in DOMAIN NoGate |-> gate[f]] /\ gate.books \subseteq BookNames
      /\ gate.filled \subseteq gate.books
  BY DEF CheckItem, CitationInv, GateReads
<1>2. PICK reference : reference = ReferenceVerdict(i)
  OBVIOUS
<1>3. reference # "throws"
  BY <1>1, <1>2, GateFields DEF CheckItem
<1>4. gate' = [gate EXCEPT !.todo = Tail(@),
                 !.verdicts = @ \union {reference} \union
                      {PartVerdict(part, gate.books, gate.filled) : part \in ParseHadithCitations(i.citation)}]
  BY <1>2, <1>3 DEF CheckItem
<1>5. /\ gate'.filled = gate.filled
      /\ gate'.verdicts = gate.verdicts \union {reference} \union
                {PartVerdict(part, gate.books, gate.filled) : part \in ParseHadithCitations(i.citation)}
  BY <1>1, <1>4, GateFields
<1>6. ~ ItemFails(i)
  <2>1. "FAIL" \notin CheckStructure
    BY <1>5 DEF GateReads
  <2> QED
    BY <2>1 DEF CheckStructure, ItemsRead
<1>7. IsItem(i) /\ CorpusOK
  BY ReadAreItems DEF CitationInv
<1>8. Recitable(i)
  <2>1. reference # "FAIL"
    BY <1>5
  <2> QED
    BY <1>2, <1>3, <1>6, <1>7, <2>1, ItemIsRead
<1>9. ASSUME NEW part \in i.citation, part.shape = "hadith"
      PROVE  \/ <<part.book, part.number>> \in corpus.hadiths
             \/ "UNVERIFIABLE" \in gate'.verdicts /\ part.book \notin gate.filled \ {"nasai"}
  <2>1. part \in ParseHadithCitations(i.citation)
    BY <1>9 DEF ParseHadithCitations
  <2>2. PartVerdict(part, gate.books, gate.filled) \in gate'.verdicts
    BY <1>5, <2>1
  <2>3. PartVerdict(part, gate.books, gate.filled) # "FAIL"
    BY <2>2
  <2> QED
    BY <1>1, <1>7, <1>9, <2>2, <2>3, PartIsFound
<1>10. Recitable(i)'
  BY <1>1, <1>8 DEF Recitable
<1>11. ASSUME NEW part \in i.citation PROVE PartFound(part)'
  BY <1>1, <1>5, <1>9 DEF PartFound
<1> QED
  BY <1>10, <1>11 DEF ItemFound

LEMMA CheckItemKeeps == ASSUME CitationInv, CheckItem PROVE CitationInv'
<1>1. UNCHANGED <<head, item, corpus>> /\ gate = [f \in DOMAIN NoGate |-> gate[f]]
      /\ gate.phase = "items" /\ gate.exit = 9 /\ gate.todo # <<>>
  BY DEF CheckItem, CitationInv
<1>2. /\ IsItem(item)' /\ CorpusOK' /\ ItemsRead' = ItemsRead /\ CheckStructure' = CheckStructure /\ CorpusGrows
  BY <1>1, GateStep
<1>3. CASE ReferenceVerdict(Head(gate.todo)) = "throws"
  <2>1. gate' = [gate EXCEPT !.phase = "done", !.exit = 2]
    BY <1>3 DEF CheckItem
  <2>2. gate' = [f \in DOMAIN NoGate |-> gate'[f]] /\ gate'.phase = "done" /\ gate'.exit = 2
    BY <1>1, <2>1, GateFields
  <2> QED
    BY <1>2, <2>2 DEF CitationInv
<1>4. CASE ReferenceVerdict(Head(gate.todo)) # "throws"
  <2>1. PICK more : gate' = [gate EXCEPT !.todo = Tail(@), !.verdicts = @ \union {ReferenceVerdict(Head(gate.todo))} \union more]
    BY <1>4 DEF CheckItem
  <2>2. /\ gate' = [f \in DOMAIN NoGate |-> gate'[f]] /\ gate'.phase = "items" /\ gate'.exit = 9 /\ gate'.mode = gate.mode
        /\ gate'.todo = Tail(gate.todo) /\ gate.verdicts \subseteq gate'.verdicts
        /\ gate'.filled = gate.filled /\ gate'.books = gate.books
    BY <1>1, <2>1, GateFields
  <2>3. ASSUME gate.mode = "database" PROVE GateReads'
    <3>1. GateReads
      BY <1>1, <2>3 DEF CitationInv
    <3>2. gate.todo \in Seq(ItemsRead) /\ Tail(gate.todo) \in Seq(ItemsRead)
          /\ \A m \in DOMAIN gate.todo : m = 1 \/ (m - 1 \in DOMAIN Tail(gate.todo) /\ Tail(gate.todo)[m - 1] = gate.todo[m])
      <4>1. PICK todo \in Seq(ItemsRead) : todo = gate.todo /\ todo # <<>>
        BY <1>1, <3>1 DEF GateReads
      <4>2. /\ Tail(todo) \in Seq(ItemsRead)
            /\ \A m \in DOMAIN todo : m = 1 \/ (m - 1 \in DOMAIN Tail(todo) /\ Tail(todo)[m - 1] = todo[m])
        BY <4>1
      <4> QED
        BY <4>1, <4>2
    <3>3. ASSUME NEW i \in ItemsRead
          PROVE  \/ "FAIL" \in gate'.verdicts \/ ItemFound(i)'
                 \/ \E m \in DOMAIN gate'.todo : gate'.todo[m] = i
      <4>1. CASE "FAIL" \in gate.verdicts
        BY <2>2, <4>1
      <4>2. CASE ItemFound(i)
        BY <1>2, <2>2, <4>2, FoundStays, ReadAreItems DEF CitationInv
      <4>3. CASE \E m \in DOMAIN gate.todo : gate.todo[m] = i
        <5>1. PICK m \in DOMAIN gate.todo : gate.todo[m] = i
          BY <4>3
        <5>2. CASE m = 1
          BY <2>2, <3>1, <5>1, <5>2, CheckItemFinds
        <5>3. CASE m # 1
          BY <2>2, <3>2, <5>1, <5>3
        <5> QED
          BY <5>2, <5>3
      <4> QED
        BY <3>1, <4>1, <4>2, <4>3 DEF GateReads
    <3> QED
      BY <1>2, <2>2, <3>1, <3>2, <3>3 DEF GateReads
  <2> QED
    BY <1>2, <2>2, <2>3 DEF CitationInv
<1> QED
  BY <1>3, <1>4

LEMMA VerdictsStay ==
    ASSUME CitationInv, UNCHANGED <<head, item, corpus>>, gate' = [f \in DOMAIN NoGate |-> gate'[f]],
           gate'.mode = gate.mode, gate'.todo = gate.todo, gate'.verdicts = gate.verdicts, gate'.filled = gate.filled,
           gate'.books = gate.books, gate'.strict = gate.strict,
           gate'.phase \in {"report", "content", "done"}, gate.exit = 9,
           gate.mode = "database" => gate.todo = <<>>,
           gate'.phase # "done" => gate'.exit = 9,
           \/ gate'.phase = "content" /\ gate'.own = 0
           \/ gate'.phase = "done" /\ gate'.exit = 0 /\ gate.mode = "database"
           => ~ Blocking(gate.verdicts, gate.strict)
    PROVE  CitationInv'
<1>1. /\ IsItem(item)' /\ CorpusOK' /\ ItemsRead' = ItemsRead /\ CheckStructure' = CheckStructure /\ CorpusGrows
  BY GateStep
<1>2. ASSUME gate.mode = "database" PROVE GateReads'
  <2>1. GateReads
    BY <1>2 DEF CitationInv
  <2>2. ASSUME NEW i \in ItemsRead PROVE "FAIL" \in gate'.verdicts \/ ItemFound(i)'
    <3>1. "FAIL" \in gate.verdicts \/ ItemFound(i)
      BY <1>2, <2>1 DEF GateReads
    <3> QED
      BY <1>1, <3>1, FoundStays, ReadAreItems DEF CitationInv
  <2> QED
    BY <1>1, <1>2, <2>1, <2>2 DEF GateReads, Blocking
<1> QED
  BY <1>1, <1>2 DEF CitationInv

LEMMA LastStepsKeep ==
    ASSUME CitationInv, AllChecked \/ Report \/ \E content \in 0 .. 2 : ContentGate(content)
    PROVE  CitationInv'
<1>1. UNCHANGED <<head, item, corpus>> /\ gate = [f \in DOMAIN NoGate |-> gate[f]]
  BY DEF AllChecked, Report, ContentGate, CitationInv
<1>2. CASE AllChecked
  BY <1>1, <1>2, GateFields, VerdictsStay DEF AllChecked, CitationInv
<1>3. CASE Report
  <2>1. gate.exit = 9 /\ (gate.mode = "database" => gate.todo = <<>>)
    BY <1>3 DEF Report, CitationInv, GateReads
  <2>2. PICK own : own = IF Blocking(gate.verdicts, gate.strict) THEN 1 ELSE 0
    OBVIOUS
  <2>3. gate' = IF gate.mode = "file" THEN [gate EXCEPT !.phase = "done", !.exit = own]
                ELSE [gate EXCEPT !.phase = "content", !.own = own]
    BY <1>3, <2>2 DEF Report
  <2>4. /\ gate' = [f \in DOMAIN NoGate |-> gate'[f]]
        /\ gate'.mode = gate.mode /\ gate'.todo = gate.todo /\ gate'.verdicts = gate.verdicts
        /\ gate'.filled = gate.filled /\ gate'.books = gate.books /\ gate'.strict = gate.strict
        /\ \/ gate'.phase = "done" /\ gate.mode = "file"
           \/ gate'.phase = "content" /\ gate'.own = own /\ gate'.exit = gate.exit
    BY <1>1, <2>3, GateFields
  <2>5. gate'.phase = "content" /\ gate'.own = 0 => ~ Blocking(gate.verdicts, gate.strict)
    BY <2>2, <2>4
  <2> QED
    BY <1>1, <2>1, <2>4, <2>5, VerdictsStay
<1>4. CASE \E content \in 0 .. 2 : ContentGate(content)
  <2>1. /\ gate.phase = "content"
        /\ \E content \in 0 .. 2 : gate' = [gate EXCEPT !.phase = "done", !.exit = IF gate.own = 0 /\ content = 0 THEN 0 ELSE 1]
    BY <1>4 DEF ContentGate
  <2>2. gate.exit = 9 /\ (gate.mode = "database" => gate.todo = <<>> /\ GateReads)
    <3>1. gate.exit = 9 /\ (gate.mode = "database" => GateReads)
      BY <2>1 DEF CitationInv
    <3>2. GateReads => gate.todo = <<>>
      BY <2>1 DEF GateReads
    <3> QED
      BY <3>1, <3>2
  <2>3. /\ gate' = [f \in DOMAIN NoGate |-> gate'[f]]
        /\ gate'.mode = gate.mode /\ gate'.todo = gate.todo /\ gate'.verdicts = gate.verdicts
        /\ gate'.filled = gate.filled /\ gate'.books = gate.books /\ gate'.strict = gate.strict
        /\ gate'.phase = "done" /\ (gate'.exit = 0 => gate.own = 0)
    <3>1. PICK content \in 0 .. 2 :
                gate' = [gate EXCEPT !.phase = "done", !.exit = IF gate.own = 0 /\ content = 0 THEN 0 ELSE 1]
      BY <2>1
    <3>2. PICK e : e = IF gate.own = 0 /\ content = 0 THEN 0 ELSE 1
      OBVIOUS
    <3>3. gate' = [gate EXCEPT !.phase = "done", !.exit = e] /\ (e = 0 => gate.own = 0)
      BY <3>1, <3>2
    <3> QED
      BY <1>1, <3>3, GateFields
  <2>4. gate'.exit = 0 /\ gate.mode = "database" => ~ Blocking(gate.verdicts, gate.strict)
    BY <2>1, <2>2, <2>3 DEF GateReads
  <2> QED
    BY <1>1, <2>2, <2>3, <2>4, VerdictsStay
<1> QED
  BY <1>2, <1>3, <1>4

LEMMA CitationInvNext == CitationInv /\ [GateNext]_gateVars => CitationInv'
<1> SUFFICES ASSUME CitationInv, [GateNext]_gateVars PROVE CitationInv'
  OBVIOUS
<1>1. CASE UNCHANGED gateVars
  <2>1. UNCHANGED <<head, item, corpus, gate>>
    BY <1>1 DEF gateVars
  <2>2. IsItem(item)' /\ CorpusOK'
    BY <1>1, <2>1, GateStep
  <2>3. (gate.mode = "database" /\ gate.exit # 2 => GateReads)'
    BY <1>1, <2>1, ReadsStays, CorpusStays DEF CitationInv
  <2> QED
    BY <1>1, <2>1, <2>2, <2>3 DEF CitationInv
<1> QED
  BY <1>1, SlipKeeps, SeedRowKeeps, OtherModesKeep, ReadCollectionsKeeps, CheckItemKeeps, LastStepsKeep DEF GateNext

LEMMA CitationInvSound == CitationInv => GatePassedIsSound
<1> SUFFICES ASSUME CitationInv, gate.phase = "done", gate.exit = 0, gate.mode = "database" PROVE GatePassedIsSound
  BY DEF GatePassedIsSound
<1>1. GateReads /\ gate.todo = <<>> /\ ~ Blocking(gate.verdicts, gate.strict)
  <2>1. GateReads
    BY DEF CitationInv
  <2>2. gate.phase # "items" /\ gate.phase = "done" /\ gate.exit = 0
    OBVIOUS
  <2> QED
    BY <2>1, <2>2 DEF GateReads
<1>2. "FAIL" \notin gate.verdicts /\ "FAIL" \notin CheckStructure
      /\ (gate.strict => "UNVERIFIABLE" \notin gate.verdicts /\ "WARN" \notin CheckStructure)
  BY <1>1 DEF Blocking, GateReads
<1>3. ~ HeadFails /\ \A n \in DOMAIN ItemsOf : ~ ItemFails(ItemsOf[n])
  BY <1>2 DEF CheckStructure
<1>4. \A i \in ItemsRead : ItemFound(i)
  BY <1>1, <1>2 DEF GateReads
<1>5. \A n \in DOMAIN ItemsOf : \E m \in DOMAIN ItemsOf : ItemsOf[m].sequence = n
  BY <1>3 DEF HeadFails
<1>6. \A n \in DOMAIN ItemsOf : Recitable(ItemsOf[n])
  BY <1>4 DEF ItemsRead, ItemFound
<1>7. ASSUME NEW n \in DOMAIN ItemsOf, NEW f \in {"surahId", "hinduTextSlug"}, ~ IsNull(ItemsOf[n], f)
      PROVE  f \in REF_TYPE_FIELDS[ItemsOf[n].refType].required
  <2>1. ItemsOf[n].refType \in REF_TYPES /\ f \notin REF_TYPE_FIELDS[ItemsOf[n].refType].forbidden
    BY <1>3, <1>7 DEF ItemFails, ColumnsWrong
  <2>2. \A t \in REF_TYPES : f \in REF_TYPE_FIELDS[t].required \/ f \in REF_TYPE_FIELDS[t].forbidden
    BY DEF REF_TYPES, REF_TYPE_FIELDS, VerseFields
  <2> QED
    BY <2>1, <2>2
<1>8. ASSUME NEW part \in item.citation, part.shape = "hadith"
      PROVE  \/ <<part.book, part.number>> \in corpus.hadiths
             \/ ~ gate.strict /\ part.book \notin gate.filled \ {"nasai"}
  <2>1. item \in ItemsRead
    BY <1>3, ItemsAre DEF HeadFails
  <2> QED
    BY <1>2, <1>4, <1>8, <2>1 DEF ItemFound, PartFound
<1>9. gate.strict => head.reviewStatus \in SERVABLE_REVIEW_STATUSES
  BY <1>2 DEF CheckStructure
<1> QED
  BY <1>5, <1>6, <1>7, <1>8, <1>9 DEF GatePassedIsSound

-----------------------------------------------------------------------------
(* The numbers of hadiths                                                   *)

CorpusTypeOK ==
    /\ columns \in BOOLEAN
    /\ storedRows \in [Books -> SUBSET Nat] /\ numberedRows \in [Books -> SUBSET Nat] /\ older \in [Books -> SUBSET Nat]
    /\ declared = [b \in Books |-> declared[b]]
    /\ \A b \in Books : storedRows[b] \subseteq Places(b) \union {Stray(b)}

\* The rows that are numbered, and those seeded before there were numbers.
RowsKnown ==
    /\ \A b \in Books : numberedRows[b] \subseteq storedRows[b] /\ older[b] \subseteq storedRows[b]
    /\ \A b \in Books : numberedRows[b] # {} => columns
    /\ \A b \in Books \ reseed.touched : storedRows[b] = older[b]

ReseedKnown ==
    /\ reseed = [f \in DOMAIN NoSeed |-> reseed[f]]
    /\ reseed.pc # "none" => reseed.book \in Books \intersect reseed.touched /\ columns
    /\ reseed.pc = "filling" => older[reseed.book] = {}

BackfillKnown ==
    /\ backfill = [f \in DOMAIN NoBackfill |-> backfill[f]]
    /\ backfill.problems \in Nat
    /\ DOMAIN backfill.seen \subseteq Books
    /\ \A b \in DOMAIN backfill.seen :
            older[b] \subseteq backfill.seen[b] /\ (b \notin reseed.touched => backfill.seen[b] = storedRows[b])
    /\ backfill.pc = "updating" => backfill.book \in DOMAIN backfill.seen
    /\ ~ columns => backfill.written = {}
    /\ backfill.exit # "none" => backfill.pc = "none"
    /\ backfill.exit = "ok" => backfill.problems = 0

\* A book that a run without problems is done with.
Settled(b) ==
    /\ backfill.apply /\ backfill.problems = 0 /\ backfill.exit # "infra" /\ b \in DOMAIN backfill.seen
    /\ ~ (backfill.pc = "updating" /\ backfill.book = b)
    => /\ OlderPlaces(b) \subseteq numberedRows[b]
       /\ b \notin reseed.touched => declared[b] = Cardinality(storedRows[b])

AllOrNone(b) == OlderPlaces(b) \intersect numberedRows[b] \in {{}, OlderPlaces(b)}

\* What the gate has found so far, if nothing was written since it began.
GateLooked ==
    /\ contentGate = [f \in DOMAIN GateAtRest |-> contentGate[f]]
    /\ contentGate.failures \in Nat
    /\ contentGate.pc = "pins" => contentGate.exit = "none"
    /\ contentGate.undisturbed /\ contentGate.pc = "pins" =>
            /\ contentGate.canonical = CanonicalAvailable
            /\ contentGate.failures = 0 =>
                    /\ \A pin \in Pins \ contentGate.pins : FixtureMatches(contentGate.canonical, pin)
                    /\ \A b \in Books \ contentGate.books : declared[b] # NoBook => ~ Skewed(b) /\ ~ Misdeclared(b)
            /\ (\A b \in Books : Numbered(b)) => contentGate.failures = 0

\* What the seeds and the backfill leave, the gate aside.
BackfillInv ==
    CorpusTypeOK /\ RowsKnown /\ ReseedKnown /\ BackfillKnown /\ \A b \in Books : Settled(b) /\ AllOrNone(b)

\* The numbers are all there or none, and the gate says of its corpus what it has looked at.
NumbersInv == BackfillInv /\ GateLooked /\ HadithGateSound

LEMMA NumberFieldsAre ==
    /\ DOMAIN NoBackfill = {"pc", "apply", "left", "book", "seen", "written", "problems", "exit"}
    /\ DOMAIN GateAtRest = {"pc", "canonical", "pins", "books", "failures", "exit", "undisturbed"}
    /\ DOMAIN NoSeed = {"pc", "book", "touched"}
    /\ DOMAIN <<>> = {}
BY DEF NoBackfill, GateAtRest, NoSeed

LEMMA PlacesAre == \A b \in Books : Len(Edition[b]) \in Nat /\ Places(b) = 1 .. Len(Edition[b]) /\ Stray(b) \in Nat
<1> SUFFICES ASSUME NEW b \in Books PROVE Len(Edition[b]) \in Nat /\ Places(b) = 1 .. Len(Edition[b]) /\ Stray(b) \in Nat
  OBVIOUS
<1>1. PICK S : Edition[b] \in Seq(S)
  BY NumbersAssumption DEF NumbersAssumption
<1> QED
  BY <1>1 DEF Places, Stray

LEMMA RowsAreFinite ==
    ASSUME CorpusTypeOK, NEW b \in Books
    PROVE  IsFiniteSet(storedRows[b]) /\ Cardinality(storedRows[b]) \in Nat
<1>1. IsFiniteSet(Places(b) \union {Stray(b)})
  <2>1. 1 \in Int /\ Len(Edition[b]) \in Int
    BY PlacesAre
  <2>2. IsFiniteSet(Places(b))
    BY <2>1, PlacesAre, FS_Interval
  <2> QED
    BY <2>2, FS_AddElement
<1>2. storedRows[b] \in SUBSET (Places(b) \union {Stray(b)})
  BY DEF CorpusTypeOK
<1>3. IsFiniteSet(storedRows[b])
  BY <1>1, <1>2, FS_Subset
<1> QED
  BY <1>3, FS_CardinalityType

LEMMA NumbersInvInit == NumberInit => NumbersInv
<1> SUFFICES ASSUME NumberInit PROVE NumbersInv
  OBVIOUS
<1>1. \A b \in Books : storedRows[b] \in StoredAtFirst[b] /\ storedRows[b] \subseteq Places(b) \union {Stray(b)}
  BY NumbersAssumption DEF NumberInit, NumbersAssumption
<1>2. storedRows \in [Books -> SUBSET Nat]
  <2>1. storedRows \in [Books -> UNION {StoredAtFirst[b] : b \in Books}]
    BY DEF NumberInit
  <2>2. \A b \in Books : storedRows[b] \subseteq Nat
    BY <1>1, PlacesAre
  <2> QED
    BY <2>1, <2>2
<1>3. CorpusTypeOK /\ RowsKnown
  BY <1>1, <1>2 DEF NumberInit, CorpusTypeOK, RowsKnown, NoSeed
<1>4. ReseedKnown
  BY DEF NumberInit, ReseedKnown, NoSeed
<1>5. BackfillKnown /\ \A b \in Books : Settled(b)
  <2>1. /\ backfill.problems = 0 /\ backfill.seen = <<>> /\ backfill.pc = "none" /\ backfill.written = {}
        /\ backfill.exit = "none" /\ backfill = [f \in DOMAIN NoBackfill |-> backfill[f]]
    BY DEF NumberInit, NoBackfill
  <2> QED
    BY <2>1, NumberFieldsAre DEF BackfillKnown, Settled
<1>6. \A b \in Books : AllOrNone(b)
  BY DEF NumberInit, AllOrNone
<1>7. GateLooked /\ HadithGateSound
  BY DEF NumberInit, GateLooked, GateAtRest, HadithGateSound
<1> QED
  BY <1>3, <1>4, <1>5, <1>6, <1>7 DEF NumbersInv, BackfillInv

-----------------------------------------------------------------------------
\* The steps that write nothing.
LEMMA NothingWritten ==
    ASSUME NumbersInv, UNCHANGED <<corpusVars, reseed>>
    PROVE  /\ CorpusTypeOK' /\ RowsKnown' /\ ReseedKnown' /\ \A b \in Books : AllOrNone(b)'
           /\ CanonicalAvailable' = CanonicalAvailable
           /\ \A b \in Books : (Skewed(b)' <=> Skewed(b)) /\ (Misdeclared(b)' <=> Misdeclared(b)) /\ (Numbered(b)' <=> Numbered(b))
           /\ \A pin \in Pins, c \in BOOLEAN : FixtureMatches(c, pin)' <=> FixtureMatches(c, pin)
<1>1. UNCHANGED <<columns, storedRows, numberedRows, older, declared, reseed>>
  BY DEF corpusVars
<1>2. CorpusTypeOK' /\ RowsKnown' /\ ReseedKnown'
  BY <1>1 DEF NumbersInv, BackfillInv, CorpusTypeOK, RowsKnown, ReseedKnown
<1>3. \A b \in Books : AllOrNone(b)'
  BY <1>1 DEF NumbersInv, BackfillInv, AllOrNone, OlderPlaces
<1>4. CanonicalAvailable' = CanonicalAvailable
  BY <1>1 DEF CanonicalAvailable, CitedNumber
<1>5. \A b \in Books : Skewed(b)' <=> Skewed(b)
  BY <1>1 DEF Skewed, LargestChapter, ChapterOf
<1>6. \A b \in Books : (Misdeclared(b)' <=> Misdeclared(b)) /\ (Numbered(b)' <=> Numbered(b))
  BY <1>1 DEF Misdeclared, Numbered
<1>7. \A pin \in Pins, c \in BOOLEAN : FixtureMatches(c, pin)' <=> FixtureMatches(c, pin)
  BY <1>1 DEF FixtureMatches, Lookup, CitedNumber, Precedes
<1> QED
  BY <1>2, <1>3, <1>4, <1>5, <1>6, <1>7

LEMMA CanonicalIsBoolean == CorpusTypeOK => CanonicalAvailable \in BOOLEAN
BY DEF CorpusTypeOK, CanonicalAvailable

\* The gate is left alone by them.
LEMMA GateStays ==
    ASSUME NumbersInv, UNCHANGED <<corpusVars, reseed, contentGate>>
    PROVE  GateLooked' /\ HadithGateSound'
<1>1. /\ UNCHANGED <<columns, storedRows, numberedRows, older, declared, contentGate>>
      /\ contentGate.undisturbed /\ contentGate.pc = "pins" => contentGate.canonical \in BOOLEAN
  BY CanonicalIsBoolean DEF corpusVars, NumbersInv, BackfillInv, GateLooked
<1>2. GateLooked'
  BY <1>1, NothingWritten DEF NumbersInv, GateLooked
<1>3. HadithGateSound'
  <2>1. \A pin \in Pins : Lookup(CanonicalAvailable, pin.book, pin.number)' = Lookup(CanonicalAvailable, pin.book, pin.number)
    BY <1>1, NothingWritten DEF Lookup, CitedNumber, Precedes
  <2> QED
    BY <1>1, <2>1, NothingWritten DEF NumbersInv, HadithGateSound
<1> QED
  BY <1>2, <1>3

LEMMA BackfillStep ==
    ASSUME NumbersInv, UNCHANGED <<corpusVars, reseed, contentGate>>, BackfillKnown', \A b \in Books : Settled(b)'
    PROVE  NumbersInv'
BY NothingWritten, GateStays DEF NumbersInv, BackfillInv

LEMMA StartBackfillKeeps ==
    ASSUME NumbersInv, NEW apply \in BOOLEAN, NEW targets, StartBackfill(apply, targets)
    PROVE  NumbersInv'
<1>1. UNCHANGED <<corpusVars, reseed, contentGate>>
  BY DEF StartBackfill
<1>2. /\ backfill' = [f \in DOMAIN NoBackfill |-> backfill'[f]] /\ backfill'.pc = "next" /\ backfill'.seen = <<>>
      /\ backfill'.written = {} /\ backfill'.problems = 0 /\ backfill'.exit = "none"
  BY DEF StartBackfill, NoBackfill
<1>3. BackfillKnown' /\ \A b \in Books : Settled(b)'
  BY <1>2, NumberFieldsAre DEF BackfillKnown, Settled
<1> QED
  BY <1>1, <1>3, BackfillStep

LEMMA OpenBookKeeps ==
    ASSUME NumbersInv, NEW b \in Books, OpenBook(b)
    PROVE  NumbersInv'
<1>1. /\ UNCHANGED <<corpusVars, reseed, contentGate>>
      /\ UNCHANGED <<columns, storedRows, numberedRows, older, declared, reseed>>
      /\ backfill.pc = "next" /\ backfill = [f \in DOMAIN NoBackfill |-> backfill[f]] /\ backfill.exit = "none"
  BY DEF OpenBook, corpusVars, NumbersInv, BackfillInv, BackfillKnown
<1>2. CASE declared[b] = NoBook
  <2>1. /\ backfill' = [f \in DOMAIN NoBackfill |-> backfill'[f]]
        /\ \A f \in DOMAIN NoBackfill \ {"left"} : backfill'[f] = backfill[f]
    BY <1>1, <1>2, NumberFieldsAre DEF OpenBook
  <2>2. /\ backfill'.pc = backfill.pc /\ backfill'.apply = backfill.apply /\ backfill'.book = backfill.book
        /\ backfill'.seen = backfill.seen /\ backfill'.written = backfill.written
        /\ backfill'.problems = backfill.problems /\ backfill'.exit = backfill.exit
    BY <2>1, NumberFieldsAre
  <2>3. BackfillKnown' /\ \A c \in Books : Settled(c)'
    BY <1>1, <2>1, <2>2 DEF NumbersInv, BackfillInv, BackfillKnown, Settled, OlderPlaces
  <2> QED
    BY <1>1, <2>3, BackfillStep
<1>3. CASE declared[b] # NoBook
  <2>1. PICK seen, problems, pc :
            /\ seen = [c \in DOMAIN backfill.seen \union {b} |-> IF c = b THEN storedRows[b] ELSE backfill.seen[c]]
            /\ problems = IF storedRows[b] \ Places(b) # {} THEN backfill.problems + 1 ELSE backfill.problems
            /\ pc = IF backfill.apply THEN "updating" ELSE "next"
            /\ backfill' = [backfill EXCEPT !.left = @ \ {b}, !.book = b, !.written = {}, !.seen = seen, !.problems = problems,
                                           !.pc = pc]
    BY <1>3 DEF OpenBook
  <2>2. /\ backfill' = [f \in DOMAIN NoBackfill |-> backfill'[f]]
        /\ backfill'.apply = backfill.apply /\ backfill'.book = b /\ backfill'.written = {} /\ backfill'.seen = seen
        /\ backfill'.problems = problems /\ backfill'.pc = pc /\ backfill'.exit = backfill.exit
    BY <1>1, <2>1, NumberFieldsAre
  <2>3. problems \in Nat /\ (problems = 0 => backfill.problems = 0)
    BY <2>1 DEF NumbersInv, BackfillInv, BackfillKnown
  <2>4. \A c \in DOMAIN seen : seen[c] = IF c = b THEN storedRows[b] ELSE backfill.seen[c]
    BY <2>1
  <2>5. DOMAIN seen = DOMAIN backfill.seen \union {b}
    BY <2>1
  <2>6. BackfillKnown'
    BY <1>1, <2>2, <2>3, <2>4, <2>5 DEF NumbersInv, BackfillInv, BackfillKnown, RowsKnown
  <2>7. ASSUME NEW c \in Books PROVE Settled(c)'
    <3>1. CASE c = b
      BY <2>1, <2>2, <3>1 DEF Settled
    <3>2. CASE c # b
      <4>1. Settled(c)
        BY DEF NumbersInv, BackfillInv
      <4> QED
        BY <1>1, <2>2, <2>3, <2>5, <3>2, <4>1 DEF Settled, OlderPlaces
    <3> QED
      BY <3>1, <3>2
  <2> QED
    BY <1>1, <2>6, <2>7, BackfillStep
<1> QED
  BY <1>2, <1>3

LEMMA UpdateBatchKeeps == ASSUME NumbersInv, UpdateBatch PROVE NumbersInv'
<1>1. /\ UNCHANGED <<corpusVars, reseed, contentGate>>
      /\ UNCHANGED <<columns, storedRows, numberedRows, older, declared, reseed>> /\ columns
      /\ backfill = [f \in DOMAIN NoBackfill |-> backfill[f]]
  BY DEF UpdateBatch, corpusVars, NumbersInv, BackfillInv, BackfillKnown
<1>2. PICK written : backfill' = [backfill EXCEPT !.written = written]
  BY DEF UpdateBatch
<1>3. /\ backfill' = [f \in DOMAIN NoBackfill |-> backfill'[f]]
      /\ backfill'.pc = backfill.pc /\ backfill'.apply = backfill.apply /\ backfill'.book = backfill.book
      /\ backfill'.seen = backfill.seen /\ backfill'.problems = backfill.problems /\ backfill'.exit = backfill.exit
  BY <1>1, <1>2, NumberFieldsAre
<1>4. BackfillKnown' /\ \A b \in Books : Settled(b)'
  BY <1>1, <1>3 DEF NumbersInv, BackfillInv, BackfillKnown, Settled, OlderPlaces
<1> QED
  BY <1>1, <1>4, BackfillStep

LEMMA BackfillEndsKeep == ASSUME NumbersInv, Rollback \/ BreakOff \/ EndBackfill PROVE NumbersInv'
<1>1. /\ UNCHANGED <<corpusVars, reseed, contentGate>>
      /\ UNCHANGED <<columns, storedRows, numberedRows, older, declared, reseed>>
      /\ backfill = [f \in DOMAIN NoBackfill |-> backfill[f]]
  BY DEF Rollback, BreakOff, EndBackfill, corpusVars, NumbersInv, BackfillInv, BackfillKnown
<1>2. PICK pc, problems, exit : backfill' = [backfill EXCEPT !.pc = pc, !.problems = problems, !.exit = exit]
        /\ \/ pc = "next" /\ problems = backfill.problems + 1 /\ exit = backfill.exit /\ backfill.pc = "updating"
           \/ pc = "none" /\ problems = backfill.problems /\ exit = "infra"
           \/ /\ pc = "none" /\ problems = backfill.problems /\ backfill.pc = "next"
              /\ exit = IF backfill.problems > 0 THEN "problem" ELSE "ok"
  <2>1. CASE Rollback
    <3>1. backfill' = [backfill EXCEPT !.pc = "next", !.problems = backfill.problems + 1, !.exit = backfill.exit]
      BY <1>1, <2>1, NumberFieldsAre DEF Rollback
    <3> QED
      BY <2>1, <3>1 DEF Rollback
  <2>2. CASE BreakOff
    <3>1. backfill' = [backfill EXCEPT !.pc = "none", !.problems = backfill.problems, !.exit = "infra"]
      BY <1>1, <2>2, NumberFieldsAre DEF BreakOff
    <3> QED
      BY <3>1
  <2>3. CASE EndBackfill
    <3>1. PICK exit : exit = IF backfill.problems > 0 THEN "problem" ELSE "ok"
      OBVIOUS
    <3>2. backfill' = [backfill EXCEPT !.pc = "none", !.problems = backfill.problems, !.exit = exit]
      BY <1>1, <2>3, <3>1, NumberFieldsAre DEF EndBackfill
    <3> QED
      BY <2>3, <3>1, <3>2 DEF EndBackfill
  <2> QED
    BY <2>1, <2>2, <2>3
<1>3. /\ backfill' = [f \in DOMAIN NoBackfill |-> backfill'[f]]
      /\ backfill'.pc = pc /\ backfill'.apply = backfill.apply /\ backfill'.book = backfill.book
      /\ backfill'.seen = backfill.seen /\ backfill'.problems = problems /\ backfill'.exit = exit
      /\ backfill'.written = backfill.written
  BY <1>1, <1>2, NumberFieldsAre
<1>4. backfill.problems \in Nat /\ problems \in Nat /\ (pc = "next" => problems # 0)
  BY <1>2 DEF NumbersInv, BackfillInv, BackfillKnown
<1>5. BackfillKnown'
  <2>1. exit = "ok" => problems = 0
    <3>1. backfill.exit = "ok" => backfill.pc = "none"
      BY DEF NumbersInv, BackfillInv, BackfillKnown
    <3> QED
      BY <1>2, <1>4, <3>1
  <2>2. exit # "none" => pc = "none"
    <3>1. backfill.pc = "updating" => backfill.exit = "none"
      BY DEF NumbersInv, BackfillInv, BackfillKnown
    <3> QED
      BY <1>2, <3>1
  <2>3. pc # "updating"
    BY <1>2
  <2> QED
    BY <1>1, <1>3, <1>4, <2>1, <2>2, <2>3 DEF NumbersInv, BackfillInv, BackfillKnown
<1>6. ASSUME NEW b \in Books PROVE Settled(b)'
  <2>1. Settled(b)
    BY DEF NumbersInv, BackfillInv
  <2>2. CASE pc = "next" \/ exit = "infra"
    BY <1>3, <1>4, <2>2 DEF Settled
  <2>3. CASE pc = "none" /\ backfill.pc = "next" /\ problems = backfill.problems
    <3>1. backfill.exit # "infra"
      BY <2>3 DEF NumbersInv, BackfillInv, BackfillKnown
    <3> QED
      BY <1>1, <1>3, <2>1, <2>3, <3>1 DEF Settled, OlderPlaces
  <2> QED
    BY <1>2, <2>2, <2>3
<1> QED
  BY <1>1, <1>5, <1>6, BackfillStep

-----------------------------------------------------------------------------
\* The steps that write, after which the gate may say what it likes.
LEMMA DisturbedGate == ASSUME NumbersInv, Disturb PROVE GateLooked' /\ HadithGateSound'
<1>1. contentGate' = [f \in DOMAIN GateAtRest |-> contentGate'[f]] /\ ~ contentGate'.undisturbed
      /\ contentGate'.failures = contentGate.failures /\ contentGate'.pc = contentGate.pc /\ contentGate'.exit = contentGate.exit
  <2>1. contentGate = [f \in DOMAIN GateAtRest |-> contentGate[f]]
    BY DEF NumbersInv, GateLooked
  <2> QED
    BY <2>1, NumberFieldsAre DEF Disturb
<1> QED
  BY <1>1 DEF NumbersInv, GateLooked, HadithGateSound

LEMMA CommitKeeps == ASSUME NumbersInv, Commit PROVE NumbersInv'
<1>1. UNCHANGED <<columns, storedRows, older, reseed>> /\ Disturb /\ backfill.pc = "updating" /\ backfill.written = Entries
      /\ backfill = [f \in DOMAIN NoBackfill |-> backfill[f]]
  BY DEF Commit, NumbersInv, BackfillInv, BackfillKnown
<1>2. PICK b \in Books : b = backfill.book /\ b \in DOMAIN backfill.seen
  BY <1>1 DEF NumbersInv, BackfillInv, BackfillKnown
<1>3. PICK new : new = backfill.written \intersect storedRows[b]
  OBVIOUS
<1>4. /\ numberedRows' = [numberedRows EXCEPT ![b] = @ \union new]
      /\ declared' = [declared EXCEPT ![b] = Cardinality(backfill.seen[b])]
      /\ backfill' = [backfill EXCEPT !.pc = "next"]
  BY <1>2, <1>3 DEF Commit
<1>5. /\ backfill' = [f \in DOMAIN NoBackfill |-> backfill'[f]]
      /\ backfill'.pc = "next" /\ backfill'.apply = backfill.apply /\ backfill'.book = b
      /\ backfill'.seen = backfill.seen /\ backfill'.problems = backfill.problems /\ backfill'.exit = backfill.exit
      /\ backfill'.written = backfill.written
  BY <1>1, <1>2, <1>4, NumberFieldsAre
<1>6. \A c \in Books : numberedRows'[c] = IF c = b THEN numberedRows[b] \union new ELSE numberedRows[c]
  BY <1>4 DEF NumbersInv, BackfillInv, CorpusTypeOK
<1>7. \A c \in Books : declared'[c] = IF c = b THEN Cardinality(backfill.seen[b]) ELSE declared[c]
  BY <1>4 DEF NumbersInv, BackfillInv, CorpusTypeOK
<1>8. CorpusTypeOK'
  <2>1. new \subseteq Nat
    BY <1>3 DEF NumbersInv, BackfillInv, CorpusTypeOK
  <2>2. numberedRows' \in [Books -> SUBSET Nat]
    BY <1>4, <2>1 DEF NumbersInv, BackfillInv, CorpusTypeOK
  <2>3. declared' = [c \in Books |-> declared'[c]]
    BY <1>4 DEF NumbersInv, BackfillInv, CorpusTypeOK
  <2> QED
    BY <1>1, <2>2, <2>3 DEF NumbersInv, BackfillInv, CorpusTypeOK
<1>9. RowsKnown'
  BY <1>1, <1>3, <1>6 DEF NumbersInv, BackfillInv, RowsKnown, BackfillKnown
<1>10. ReseedKnown' /\ BackfillKnown'
  <2>1. backfill.exit = "none"
    BY <1>1 DEF NumbersInv, BackfillInv, BackfillKnown
  <2>2. ReseedKnown'
    BY <1>1 DEF NumbersInv, BackfillInv, ReseedKnown
  <2> QED
    BY <1>1, <1>5, <2>1, <2>2 DEF NumbersInv, BackfillInv, BackfillKnown
<1>11. OlderPlaces(b) \subseteq numberedRows'[b]
  <2>1. older[b] \subseteq backfill.seen[b] /\ older[b] \subseteq storedRows[b]
    BY <1>2 DEF NumbersInv, BackfillInv, RowsKnown, BackfillKnown
  <2>2. OlderPlaces(b) \subseteq new
    BY <1>1, <1>2, <1>3, <2>1 DEF OlderPlaces, Entries
  <2> QED
    BY <1>6, <2>2
<1>12. b \notin reseed.touched => declared'[b] = Cardinality(storedRows[b])
  <2>1. b \notin reseed.touched => backfill.seen[b] = storedRows[b]
    BY <1>2 DEF NumbersInv, BackfillInv, BackfillKnown
  <2> QED
    BY <1>7, <2>1
<1>13. ASSUME NEW c \in Books PROVE Settled(c)' /\ AllOrNone(c)'
  <2>1. CASE c = b
    BY <1>1, <1>11, <1>12, <2>1 DEF Settled, AllOrNone, OlderPlaces
  <2>2. CASE c # b
    <3>1. Settled(c) /\ AllOrNone(c)
      BY DEF NumbersInv, BackfillInv
    <3> QED
      BY <1>1, <1>2, <1>5, <1>6, <1>7, <2>2, <3>1 DEF Settled, AllOrNone, OlderPlaces
  <2> QED
    BY <2>1, <2>2
<1> QED
  BY <1>1, <1>8, <1>9, <1>10, <1>13, DisturbedGate DEF NumbersInv, BackfillInv

LEMMA SeedBookKeeps == ASSUME NumbersInv, NEW b \in Books, SeedBook(b) PROVE NumbersInv'
<1>1. UNCHANGED <<columns, storedRows, numberedRows, older, backfill>> /\ Disturb /\ columns
  BY DEF SeedBook
<1>2. /\ reseed' = [f \in DOMAIN NoSeed |-> reseed'[f]]
      /\ reseed'.pc = "clearing" /\ reseed'.book = b /\ reseed'.touched = reseed.touched \union {b}
  BY DEF SeedBook, NoSeed
<1>3. /\ declared' = [c \in Books |-> declared'[c]]
      /\ \A c \in Books : c # b => declared'[c] = declared[c]
  BY DEF SeedBook, NumbersInv, BackfillInv, CorpusTypeOK
<1>4. CorpusTypeOK' /\ RowsKnown' /\ ReseedKnown'
  BY <1>1, <1>2, <1>3 DEF NumbersInv, BackfillInv, CorpusTypeOK, RowsKnown, ReseedKnown
<1>5. BackfillKnown'
  BY <1>1, <1>2 DEF NumbersInv, BackfillInv, BackfillKnown
<1>6. ASSUME NEW c \in Books PROVE Settled(c)' /\ AllOrNone(c)'
  <2>1. Settled(c) /\ AllOrNone(c)
    BY DEF NumbersInv, BackfillInv
  <2> QED
    BY <1>1, <1>2, <1>3, <2>1 DEF Settled, AllOrNone, OlderPlaces
<1> QED
  BY <1>1, <1>4, <1>5, <1>6, DisturbedGate DEF NumbersInv, BackfillInv

LEMMA ClearBookKeeps == ASSUME NumbersInv, ClearBook PROVE NumbersInv'
<1>1. UNCHANGED <<columns, declared, backfill>> /\ Disturb /\ reseed.pc = "clearing"
  BY DEF ClearBook
<1>2. PICK b \in Books : b = reseed.book /\ b \in reseed.touched /\ columns
  BY <1>1 DEF NumbersInv, BackfillInv, ReseedKnown
<1>3. /\ storedRows' = [storedRows EXCEPT ![b] = {}] /\ numberedRows' = [numberedRows EXCEPT ![b] = {}]
      /\ older' = [older EXCEPT ![b] = {}]
  BY <1>2 DEF ClearBook
<1>4. /\ reseed' = [f \in DOMAIN NoSeed |-> reseed'[f]]
      /\ reseed'.pc = "filling" /\ reseed'.book = b /\ reseed'.touched = reseed.touched
  BY <1>2, NumberFieldsAre DEF ClearBook, NumbersInv, BackfillInv, ReseedKnown
<1>5. \A c \in Books : /\ storedRows'[c] = IF c = b THEN {} ELSE storedRows[c]
                       /\ numberedRows'[c] = IF c = b THEN {} ELSE numberedRows[c]
                       /\ older'[c] = IF c = b THEN {} ELSE older[c]
  BY <1>3 DEF NumbersInv, BackfillInv, CorpusTypeOK
<1>6. CorpusTypeOK'
  <2>1. storedRows' \in [Books -> SUBSET Nat] /\ numberedRows' \in [Books -> SUBSET Nat] /\ older' \in [Books -> SUBSET Nat]
    BY <1>3 DEF NumbersInv, BackfillInv, CorpusTypeOK
  <2> QED
    BY <1>1, <1>5, <2>1 DEF NumbersInv, BackfillInv, CorpusTypeOK
<1>7. RowsKnown' /\ ReseedKnown'
  BY <1>1, <1>2, <1>4, <1>5 DEF NumbersInv, BackfillInv, RowsKnown, ReseedKnown
<1>8. BackfillKnown'
  BY <1>1, <1>2, <1>4, <1>5 DEF NumbersInv, BackfillInv, BackfillKnown
<1>9. ASSUME NEW c \in Books PROVE Settled(c)' /\ AllOrNone(c)'
  <2>1. Settled(c) /\ AllOrNone(c)
    BY DEF NumbersInv, BackfillInv
  <2> QED
    BY <1>1, <1>2, <1>4, <1>5, <2>1 DEF Settled, AllOrNone, OlderPlaces
<1> QED
  BY <1>1, <1>6, <1>7, <1>8, <1>9, DisturbedGate DEF NumbersInv, BackfillInv

LEMMA FillBookKeeps == ASSUME NumbersInv, FillBook PROVE NumbersInv'
<1>1. UNCHANGED <<columns, older, declared, backfill, reseed>> /\ Disturb /\ reseed.pc = "filling"
  BY DEF FillBook
<1>2. PICK b \in Books : b = reseed.book /\ b \in reseed.touched /\ columns /\ older[b] = {}
  BY <1>1 DEF NumbersInv, BackfillInv, ReseedKnown
<1>3. PICK batch \in SUBSET Places(b) : /\ storedRows' = [storedRows EXCEPT ![b] = @ \union batch]
                                       /\ numberedRows' = [numberedRows EXCEPT ![b] = @ \union batch]
  BY <1>2 DEF FillBook
<1>4. \A c \in Books : /\ storedRows'[c] = IF c = b THEN storedRows[b] \union batch ELSE storedRows[c]
                       /\ numberedRows'[c] = IF c = b THEN numberedRows[b] \union batch ELSE numberedRows[c]
  BY <1>3 DEF NumbersInv, BackfillInv, CorpusTypeOK
<1>5. CorpusTypeOK'
  <2>1. batch \subseteq Nat
    BY PlacesAre
  <2>2. storedRows' \in [Books -> SUBSET Nat] /\ numberedRows' \in [Books -> SUBSET Nat]
    BY <1>3, <2>1 DEF NumbersInv, BackfillInv, CorpusTypeOK
  <2> QED
    BY <1>1, <1>4, <2>2 DEF NumbersInv, BackfillInv, CorpusTypeOK
<1>6. RowsKnown' /\ ReseedKnown'
  BY <1>1, <1>2, <1>4 DEF NumbersInv, BackfillInv, RowsKnown, ReseedKnown
<1>7. BackfillKnown'
  BY <1>1, <1>2, <1>4 DEF NumbersInv, BackfillInv, BackfillKnown
<1>8. ASSUME NEW c \in Books PROVE Settled(c)' /\ AllOrNone(c)'
  <2>1. Settled(c) /\ AllOrNone(c)
    BY DEF NumbersInv, BackfillInv
  <2> QED
    BY <1>1, <1>2, <1>4, <2>1 DEF Settled, AllOrNone, OlderPlaces
<1> QED
  BY <1>1, <1>5, <1>6, <1>7, <1>8, DisturbedGate DEF NumbersInv, BackfillInv

LEMMA EndSeedKeeps == ASSUME NumbersInv, EndSeed PROVE NumbersInv'
<1>1. UNCHANGED <<columns, storedRows, numberedRows, older, backfill>> /\ Disturb /\ reseed.pc # "none"
  BY DEF EndSeed
<1>2. PICK b \in Books : b = reseed.book /\ b \in reseed.touched
  BY <1>1 DEF NumbersInv, BackfillInv, ReseedKnown
<1>3. \/ declared' = [declared EXCEPT ![b] = Cardinality(storedRows[b])]
      \/ declared' = declared
  BY <1>2 DEF EndSeed
<1>4. /\ declared' = [c \in Books |-> declared'[c]]
      /\ \A c \in Books : c # b => declared'[c] = declared[c]
  BY <1>3 DEF NumbersInv, BackfillInv, CorpusTypeOK
<1>5. reseed' = [f \in DOMAIN NoSeed |-> reseed'[f]] /\ reseed'.pc = "none" /\ reseed'.touched = reseed.touched
  BY NumberFieldsAre DEF EndSeed, NumbersInv, BackfillInv, ReseedKnown
<1>6. CorpusTypeOK' /\ RowsKnown' /\ ReseedKnown'
  BY <1>1, <1>4, <1>5 DEF NumbersInv, BackfillInv, CorpusTypeOK, RowsKnown, ReseedKnown
<1>7. BackfillKnown'
  BY <1>1, <1>5 DEF NumbersInv, BackfillInv, BackfillKnown
<1>8. ASSUME NEW c \in Books PROVE Settled(c)' /\ AllOrNone(c)'
  <2>1. Settled(c) /\ AllOrNone(c)
    BY DEF NumbersInv, BackfillInv
  <2> QED
    BY <1>1, <1>2, <1>4, <1>5, <2>1 DEF Settled, AllOrNone, OlderPlaces
<1> QED
  BY <1>1, <1>6, <1>7, <1>8, DisturbedGate DEF NumbersInv, BackfillInv

LEMMA MigrateKeeps == ASSUME NumbersInv, Migrate PROVE NumbersInv'
<1>1. UNCHANGED <<storedRows, numberedRows, older, declared, backfill, reseed>> /\ Disturb /\ columns'
  BY DEF Migrate
<1>2. CorpusTypeOK' /\ RowsKnown' /\ ReseedKnown' /\ BackfillKnown'
  BY <1>1 DEF NumbersInv, BackfillInv, CorpusTypeOK, RowsKnown, ReseedKnown, BackfillKnown
<1>3. \A c \in Books : Settled(c)' /\ AllOrNone(c)'
  BY <1>1 DEF NumbersInv, BackfillInv, Settled, AllOrNone, OlderPlaces
<1> QED
  BY <1>1, <1>2, <1>3, DisturbedGate DEF NumbersInv, BackfillInv

\* A set of naturals with a bound has a largest element.
LEMMA LargestNat ==
    ASSUME NEW T, T \subseteq Nat, T # {}, NEW bound \in Nat, \A t \in T : t <= bound
    PROVE  \E x \in T : \A y \in T : y <= x
<1> DEFINE U == {u \in Nat : \A t \in T : t <= u}
<1>1. U \subseteq Nat /\ U # {}
  OBVIOUS
<1>2. PICK m \in U : \A u \in U : m <= u
  BY <1>1, LeastNat
<1>3. m \in T
  <2> SUFFICES ASSUME m \notin T PROVE FALSE
    OBVIOUS
  <2>1. m \in Nat /\ \A t \in T : t \in Nat /\ t <= m /\ t # m
    OBVIOUS
  <2>2. \A t \in T : t <= m - 1
    BY <2>1
  <2>3. m - 1 \in Nat
    <3>1. PICK t : t \in T
      OBVIOUS
    <3>2. t \in Nat /\ t <= m /\ t # m
      BY <2>1, <3>1
    <3> QED
      BY <2>1, <3>2
  <2>4. m - 1 \in U
    BY <2>2, <2>3
  <2> QED
    BY <1>2, <2>1, <2>4
<1> QED
  BY <1>3

\* A book without numbers or rows missing is served as the edition gives it.
LEMMA NumberedMatches ==
    ASSUME NumbersInv, NEW pin \in Pins, Numbered(pin.book)
    PROVE  FixtureMatches(CanonicalAvailable, pin)
<1>1. PICK b \in Books : b = pin.book
  BY NumbersAssumption DEF NumbersAssumption
<1>2. storedRows[b] = Places(b) /\ numberedRows[b] = Places(b) /\ declared[b] = Cardinality(storedRows[b])
  BY <1>1 DEF Numbered
<1>3. pin.number # 0
  BY NumbersAssumption DEF NumbersAssumption
<1>4. declared[b] # NoBook
  <2>1. Cardinality(storedRows[b]) \in Nat
    BY RowsAreFinite DEF NumbersInv, BackfillInv
  <2> QED
    BY <1>2, <2>1 DEF NoBook
<1>5. PICK n \in GivenUnder(b, pin.number) : MatchFixture(pin, Edition[b][n].phrases)
  BY <1>1, EditionAssumption DEF EditionAssumption
<1>6. \A m \in Places(b) : CitedNumber(b, m) = PlannedNumber(b, m)
  BY <1>2 DEF CitedNumber
<1>7. PICK cited : cited = {m \in Places(b) : PlannedNumber(b, m).number = pin.number}
  OBVIOUS
<1>8. cited = {m \in storedRows[b] : CitedNumber(b, m).number = pin.number}
  BY <1>2, <1>6, <1>7
<1>9. n \in Lookup(CanonicalAvailable, b, pin.number) /\ n \in Places(b)
  <2>1. CASE cited = {}
    <3>1. n \in Places(b) \intersect {pin.number}
      BY <1>5, <1>7, <2>1 DEF GivenUnder
    <3> QED
      BY <1>2, <1>8, <2>1, <3>1 DEF Lookup
  <2>2. CASE cited # {}
    <3>1. n \in cited /\ \A m \in cited :
                \/ PlannedNumber(b, n).suffix < PlannedNumber(b, m).suffix
                \/ PlannedNumber(b, n).suffix = PlannedNumber(b, m).suffix /\ n <= m
      BY <1>5, <1>7, <2>2 DEF GivenUnder
    <3>2. n \in Places(b) /\ \A m \in cited : m \in Places(b)
      BY <1>7, <3>1
    <3>3. \A m \in cited : Precedes(b, n, m)
      BY <1>6, <3>1, <3>2 DEF Precedes
    <3>4. CanonicalAvailable
      <4>1. CitedNumber(b, n) # NoNumber
        BY <1>3, <1>8, <3>1 DEF NoNumber
      <4>2. columns
        BY <1>2, <3>2 DEF NumbersInv, BackfillInv, RowsKnown
      <4> QED
        BY <1>2, <3>2, <4>1, <4>2 DEF CanonicalAvailable
    <3>5. Lookup(CanonicalAvailable, b, pin.number) = {k \in cited : \A m \in cited : Precedes(b, k, m)}
      <4> HIDE DEF CanonicalAvailable
      <4> QED
        BY <1>8, <2>2, <3>4 DEF Lookup
    <3> QED
      BY <3>1, <3>2, <3>3, <3>5
  <2> QED
    BY <2>1, <2>2
<1>10. PhrasesOf(b, n) = Edition[b][n].phrases
  BY <1>9 DEF PhrasesOf
<1> QED
  BY <1>1, <1>4, <1>5, <1>9, <1>10 DEF FixtureMatches

LEMMA NumberedIsWhole ==
    ASSUME NumbersInv, NEW b \in Books, Numbered(b)
    PROVE  ~ Skewed(b) /\ ~ Misdeclared(b)
<1>1. storedRows[b] = Places(b) /\ numberedRows[b] = Places(b) /\ declared[b] = Cardinality(storedRows[b])
  BY DEF Numbered
<1>2. IsFiniteSet(Places(b)) /\ Cardinality(Places(b)) = Len(Edition[b]) /\ Len(Edition[b]) \in Nat
  <2>1. Len(Edition[b]) \in Nat /\ Places(b) = 1 .. Len(Edition[b])
    BY PlacesAre
  <2>2. 1 \in Int /\ Len(Edition[b]) \in Int
    BY <2>1
  <2>3. IsFiniteSet(Places(b)) /\ Cardinality(Places(b)) = IF 1 > Len(Edition[b]) THEN 0 ELSE Len(Edition[b]) - 1 + 1
    BY <2>1, <2>2, FS_Interval
  <2> QED
    BY <2>1, <2>3
<1> DEFINE size(c) == Cardinality({n \in storedRows[b] : ChapterOf(b, n) = c})
           sizes == {size(ChapterOf(b, n)) : n \in storedRows[b]}
<1>3. \A c : size(c) \in Nat /\ size(c) <= Len(Edition[b])
  <2> SUFFICES ASSUME NEW c PROVE size(c) \in Nat /\ size(c) <= Len(Edition[b])
    OBVIOUS
  <2>1. {n \in storedRows[b] : ChapterOf(b, n) = c} \in SUBSET Places(b)
    BY <1>1
  <2>2. /\ IsFiniteSet({n \in storedRows[b] : ChapterOf(b, n) = c})
        /\ Cardinality({n \in storedRows[b] : ChapterOf(b, n) = c}) <= Cardinality(Places(b))
    BY <1>2, <2>1, FS_Subset
  <2> QED
    BY <1>2, <2>2, FS_CardinalityType
<1>4. \A k \in Places(b) : size(ChapterOf(b, k)) = Cardinality({n \in Places(b) : Edition[b][n].section = Edition[b][k].section})
  BY <1>1 DEF ChapterOf
<1>5. LargestChapter(b) = 0 \/ \E k \in Places(b) : LargestChapter(b) = size(ChapterOf(b, k))
  <2>1. LargestChapter(b) = IF sizes = {} THEN 0 ELSE CHOOSE s \in sizes : \A t \in sizes : t <= s
    BY DEF LargestChapter
  <2>2. CASE sizes # {}
    <3>1. sizes \subseteq Nat /\ \A t \in sizes : t <= Len(Edition[b])
      BY <1>3
    <3>2. \E s \in sizes : \A t \in sizes : t <= s
      <4> HIDE DEF sizes
      <4> QED
        BY <1>2, <2>2, <3>1, LargestNat
    <3>3. LargestChapter(b) \in sizes
      <4> HIDE DEF sizes
      <4> QED
        BY <2>1, <2>2, <3>2
    <3> QED
      BY <1>1, <3>3
  <2> QED
    BY <2>1, <2>2
<1>6. ~ Skewed(b)
  <2> SUFFICES ASSUME Len(Edition[b]) >= ChapterRuleMinRows PROVE ~ (LargestChapter(b) * 100 > 35 * Len(Edition[b]))
    BY <1>1, <1>2 DEF Skewed
  <2>1. \A k \in Places(b) : size(ChapterOf(b, k)) * 100 <= 35 * Len(Edition[b])
    BY <1>4, EditionAssumption DEF EditionAssumption
  <2> HIDE DEF size
  <2> QED
    BY <1>2, <1>3, <1>5, <2>1
<1> QED
  BY <1>1, <1>6 DEF Misdeclared

\* The steps of the gate.
LEMMA OnlyTheGate == ASSUME NumbersInv, UNCHANGED <<corpusVars, reseed, backfill>> PROVE BackfillInv'
<1>1. UNCHANGED <<columns, storedRows, numberedRows, older, declared, reseed, backfill>>
  BY DEF corpusVars
<1>2. BackfillKnown' /\ \A b \in Books : Settled(b)'
  BY <1>1 DEF NumbersInv, BackfillInv, BackfillKnown, Settled, OlderPlaces
<1> QED
  BY <1>2, NothingWritten DEF BackfillInv

\* A row that is not at the place of the number it is served for has that number.
LEMMA ServedByNumber ==
    ASSUME NEW pin \in Pins, NEW c, NEW n \in Lookup(c, pin.book, pin.number)
    PROVE  n # pin.number => n \in numberedRows[pin.book]
<1>1. n \in storedRows[pin.book] \intersect {pin.number} \/ CitedNumber(pin.book, n).number = pin.number
  BY DEF Lookup
<1>2. pin.number # 0
  BY NumbersAssumption DEF NumbersAssumption
<1> QED
  BY <1>1, <1>2 DEF CitedNumber, NoNumber

LEMMA StartGateKeeps == ASSUME NumbersInv, StartGate PROVE NumbersInv'
<1>1. UNCHANGED <<corpusVars, reseed, backfill>> /\ UNCHANGED declared
  BY DEF StartGate, corpusVars
<1>2. PICK canonical, books : canonical = CanonicalAvailable /\ books = {b \in Books : declared[b] # NoBook}
  OBVIOUS
<1>3. contentGate' = [GateAtRest EXCEPT !.pc = "pins", !.canonical = canonical, !.pins = Pins, !.books = books]
  BY <1>2 DEF StartGate
<1>4. /\ contentGate' = [f \in DOMAIN GateAtRest |-> contentGate'[f]]
      /\ contentGate'.pc = "pins" /\ contentGate'.canonical = canonical /\ contentGate'.pins = Pins
      /\ contentGate'.books = books /\ contentGate'.failures = 0 /\ contentGate'.exit = "none"
  BY <1>3 DEF GateAtRest
<1>5. GateLooked'
  BY <1>1, <1>2, <1>4, NothingWritten DEF GateLooked
<1>6. HadithGateSound'
  BY <1>4 DEF HadithGateSound
<1> QED
  BY <1>1, <1>5, <1>6, OnlyTheGate DEF NumbersInv

LEMMA RunFixtureKeeps == ASSUME NumbersInv, NEW pin \in Pins, RunFixture(pin) PROVE NumbersInv'
<1>1. UNCHANGED <<corpusVars, reseed, backfill>> /\ UNCHANGED declared /\ contentGate.pc = "pins"
      /\ contentGate = [f \in DOMAIN GateAtRest |-> contentGate[f]] /\ contentGate.failures \in Nat
  BY DEF RunFixture, corpusVars, NumbersInv, GateLooked
<1>2. PICK failures : failures = IF FixtureMatches(contentGate.canonical, pin) THEN contentGate.failures ELSE contentGate.failures + 1
  OBVIOUS
<1>3. contentGate' = [contentGate EXCEPT !.pins = @ \ {pin}, !.failures = failures]
  BY <1>2 DEF RunFixture
<1>4. /\ contentGate' = [f \in DOMAIN GateAtRest |-> contentGate'[f]]
      /\ contentGate'.pc = "pins" /\ contentGate'.canonical = contentGate.canonical
      /\ contentGate'.pins = contentGate.pins \ {pin} /\ contentGate'.books = contentGate.books
      /\ contentGate'.failures = failures /\ contentGate'.exit = contentGate.exit
      /\ contentGate'.undisturbed = contentGate.undisturbed
  BY <1>1, <1>3, NumberFieldsAre
<1>5. failures \in Nat /\ (failures = 0 => contentGate.failures = 0 /\ FixtureMatches(contentGate.canonical, pin))
  BY <1>1, <1>2
<1>6. contentGate.exit = "none"
  BY <1>1 DEF NumbersInv, GateLooked
<1>7. ASSUME contentGate.undisturbed
      PROVE  /\ contentGate.canonical = CanonicalAvailable /\ contentGate.canonical \in BOOLEAN
             /\ failures = 0 =>
                    /\ \A p \in Pins \ contentGate'.pins : FixtureMatches(contentGate.canonical, p)
                    /\ \A b \in Books \ contentGate.books : declared[b] # NoBook => ~ Skewed(b) /\ ~ Misdeclared(b)
             /\ (\A b \in Books : Numbered(b)) => failures = 0
  <2>1. contentGate.canonical = CanonicalAvailable /\ contentGate.canonical \in BOOLEAN
    BY <1>1, <1>7, CanonicalIsBoolean DEF NumbersInv, BackfillInv, GateLooked
  <2>2. ASSUME failures = 0 PROVE /\ \A p \in Pins \ contentGate'.pins : FixtureMatches(contentGate.canonical, p)
                                  /\ \A b \in Books \ contentGate.books : declared[b] # NoBook => ~ Skewed(b) /\ ~ Misdeclared(b)
    <3>1. /\ \A p \in Pins \ contentGate.pins : FixtureMatches(contentGate.canonical, p)
          /\ \A b \in Books \ contentGate.books : declared[b] # NoBook => ~ Skewed(b) /\ ~ Misdeclared(b)
      BY <1>1, <1>5, <1>7, <2>2 DEF NumbersInv, GateLooked
    <3> QED
      BY <1>4, <1>5, <2>2, <3>1
  <2>3. ASSUME \A b \in Books : Numbered(b) PROVE failures = 0
    <3>1. contentGate.failures = 0
      BY <1>1, <1>7, <2>3 DEF NumbersInv, GateLooked
    <3>2. pin.book \in Books
      BY NumbersAssumption DEF NumbersAssumption
    <3>3. FixtureMatches(contentGate.canonical, pin)
      BY <2>1, <2>3, <3>2, NumberedMatches
    <3> QED
      BY <1>2, <3>1, <3>3
  <2> QED
    BY <2>1, <2>2, <2>3
<1>8. GateLooked'
  <2>1. \A p \in Pins : contentGate.undisturbed => (FixtureMatches(contentGate.canonical, p)' <=> FixtureMatches(contentGate.canonical, p))
    <3>1. ASSUME NEW p \in Pins, NEW c \in BOOLEAN, c = contentGate.canonical, c = contentGate'.canonical
          PROVE  FixtureMatches(contentGate.canonical, p)' <=> FixtureMatches(contentGate.canonical, p)
      BY <1>1, <3>1, NothingWritten
    <3> QED
      BY <1>4, <1>7, <3>1
  <2> QED
    BY <1>1, <1>4, <1>5, <1>6, <1>7, <2>1, NothingWritten DEF GateLooked
<1>9. HadithGateSound'
  BY <1>4, <1>6 DEF HadithGateSound
<1> QED
  BY <1>1, <1>8, <1>9, OnlyTheGate DEF NumbersInv

LEMMA CheckBookKeeps == ASSUME NumbersInv, NEW b \in Books, CheckBook(b) PROVE NumbersInv'
<1>1. UNCHANGED <<corpusVars, reseed, backfill>> /\ UNCHANGED declared /\ contentGate.pc = "pins"
      /\ contentGate = [f \in DOMAIN GateAtRest |-> contentGate[f]] /\ contentGate.failures \in Nat
  BY DEF CheckBook, corpusVars, NumbersInv, GateLooked
<1>2. PICK wrong : wrong = {k \in {"skew", "total"} : (k = "skew" /\ Skewed(b)) \/ (k = "total" /\ Misdeclared(b))}
  OBVIOUS
<1>3. contentGate' = [contentGate EXCEPT !.books = @ \ {b}, !.failures = contentGate.failures + Cardinality(wrong)]
  BY <1>2 DEF CheckBook
<1>4. /\ contentGate' = [f \in DOMAIN GateAtRest |-> contentGate'[f]]
      /\ contentGate'.pc = "pins" /\ contentGate'.canonical = contentGate.canonical
      /\ contentGate'.pins = contentGate.pins /\ contentGate'.books = contentGate.books \ {b}
      /\ contentGate'.failures = contentGate.failures + Cardinality(wrong) /\ contentGate'.exit = contentGate.exit
      /\ contentGate'.undisturbed = contentGate.undisturbed
  BY <1>1, <1>3, NumberFieldsAre
<1>5. Cardinality(wrong) \in Nat /\ (Cardinality(wrong) = 0 <=> ~ Skewed(b) /\ ~ Misdeclared(b))
  <2>1. wrong \in SUBSET {"skew", "total"}
    BY <1>2
  <2>2. IsFiniteSet({"skew", "total"})
    <3>1. IsFiniteSet({"skew"})
      BY FS_Singleton
    <3>2. {"skew", "total"} = {"skew"} \union {"total"}
      OBVIOUS
    <3> QED
      BY <3>1, <3>2, FS_AddElement
  <2>3. IsFiniteSet(wrong)
    BY <2>1, <2>2, FS_Subset
  <2>4. wrong = {} <=> ~ Skewed(b) /\ ~ Misdeclared(b)
    BY <1>2
  <2> QED
    BY <2>3, <2>4, FS_EmptySet, FS_CardinalityType
<1>6. contentGate.exit = "none"
  BY <1>1 DEF NumbersInv, GateLooked
<1>7. ASSUME contentGate.undisturbed
      PROVE  /\ contentGate.canonical = CanonicalAvailable /\ contentGate.canonical \in BOOLEAN
             /\ contentGate'.failures = 0 =>
                    /\ \A p \in Pins \ contentGate.pins : FixtureMatches(contentGate.canonical, p)
                    /\ \A c \in Books \ contentGate'.books : declared[c] # NoBook => ~ Skewed(c) /\ ~ Misdeclared(c)
             /\ (\A c \in Books : Numbered(c)) => contentGate'.failures = 0
  <2>1. contentGate.canonical = CanonicalAvailable /\ contentGate.canonical \in BOOLEAN
    BY <1>1, <1>7, CanonicalIsBoolean DEF NumbersInv, BackfillInv, GateLooked
  <2>2. ASSUME contentGate'.failures = 0
        PROVE  /\ \A p \in Pins \ contentGate.pins : FixtureMatches(contentGate.canonical, p)
               /\ \A c \in Books \ contentGate'.books : declared[c] # NoBook => ~ Skewed(c) /\ ~ Misdeclared(c)
    <3>1. contentGate.failures = 0 /\ Cardinality(wrong) = 0
      BY <1>1, <1>4, <1>5, <2>2
    <3>2. /\ \A p \in Pins \ contentGate.pins : FixtureMatches(contentGate.canonical, p)
          /\ \A c \in Books \ contentGate.books : declared[c] # NoBook => ~ Skewed(c) /\ ~ Misdeclared(c)
      BY <1>1, <1>7, <3>1 DEF NumbersInv, GateLooked
    <3> QED
      BY <1>4, <1>5, <3>1, <3>2
  <2>3. ASSUME \A c \in Books : Numbered(c) PROVE contentGate'.failures = 0
    <3>1. contentGate.failures = 0
      BY <1>1, <1>7, <2>3 DEF NumbersInv, GateLooked
    <3>2. ~ Skewed(b) /\ ~ Misdeclared(b)
      BY <2>3, NumberedIsWhole
    <3> QED
      BY <1>4, <1>5, <3>1, <3>2
  <2> QED
    BY <2>1, <2>2, <2>3
<1>8. GateLooked'
  <2>1. \A p \in Pins : contentGate.undisturbed => (FixtureMatches(contentGate.canonical, p)' <=> FixtureMatches(contentGate.canonical, p))
    <3>1. ASSUME NEW p \in Pins, NEW c \in BOOLEAN, c = contentGate.canonical, c = contentGate'.canonical
          PROVE  FixtureMatches(contentGate.canonical, p)' <=> FixtureMatches(contentGate.canonical, p)
      BY <1>1, <3>1, NothingWritten
    <3> QED
      BY <1>4, <1>7, <3>1
  <2>2. contentGate'.failures \in Nat
    BY <1>1, <1>4, <1>5
  <2> QED
    BY <1>1, <1>4, <1>6, <1>7, <2>1, <2>2, NothingWritten DEF GateLooked
<1>9. HadithGateSound'
  BY <1>4, <1>6 DEF HadithGateSound
<1> QED
  BY <1>1, <1>8, <1>9, OnlyTheGate DEF NumbersInv

LEMMA EndGateKeeps == ASSUME NumbersInv, EndGate PROVE NumbersInv'
<1>1. UNCHANGED <<corpusVars, reseed, backfill>> /\ contentGate.pc = "pins"
      /\ UNCHANGED <<columns, storedRows, numberedRows, declared>>
      /\ contentGate = [f \in DOMAIN GateAtRest |-> contentGate[f]] /\ contentGate.failures \in Nat
  BY DEF EndGate, corpusVars, NumbersInv, GateLooked
<1>2. PICK exit : /\ contentGate' = [contentGate EXCEPT !.pc = "none", !.exit = exit]
                  /\ \/ exit = "infra"
                     \/ /\ contentGate.pins = {} /\ contentGate.books = {}
                        /\ exit = IF contentGate.failures = 0 THEN "ok" ELSE "failures"
  BY DEF EndGate
<1>3. /\ contentGate' = [f \in DOMAIN GateAtRest |-> contentGate'[f]]
      /\ contentGate'.pc = "none" /\ contentGate'.exit = exit /\ contentGate'.failures = contentGate.failures
      /\ contentGate'.undisturbed = contentGate.undisturbed
  BY <1>1, <1>2, NumberFieldsAre
<1>4. GateLooked'
  BY <1>1, <1>3 DEF GateLooked
<1>5. ASSUME contentGate.undisturbed, exit = "ok"
      PROVE  /\ \A pin \in Pins :
                    \E n \in Lookup(CanonicalAvailable, pin.book, pin.number) :
                        /\ MatchFixture(pin, PhrasesOf(pin.book, n))
                        /\ n # pin.number => n \in numberedRows[pin.book]
             /\ \A b \in Books : declared[b] # NoBook => ~ Skewed(b) /\ ~ Misdeclared(b)
  <2>1. contentGate.pins = {} /\ contentGate.books = {} /\ contentGate.failures = 0
    BY <1>2, <1>5
  <2>2. /\ contentGate.canonical = CanonicalAvailable
        /\ \A pin \in Pins : FixtureMatches(contentGate.canonical, pin)
        /\ \A b \in Books : declared[b] # NoBook => ~ Skewed(b) /\ ~ Misdeclared(b)
    BY <1>1, <1>5, <2>1 DEF NumbersInv, GateLooked
  <2>3. ASSUME NEW pin \in Pins
        PROVE  \E n \in Lookup(CanonicalAvailable, pin.book, pin.number) :
                        /\ MatchFixture(pin, PhrasesOf(pin.book, n))
                        /\ n # pin.number => n \in numberedRows[pin.book]
    <3>1. PICK n \in Lookup(CanonicalAvailable, pin.book, pin.number) : MatchFixture(pin, PhrasesOf(pin.book, n))
      BY <2>2 DEF FixtureMatches
    <3>2. n # pin.number => n \in numberedRows[pin.book]
      BY ServedByNumber
    <3> QED
      BY <3>1, <3>2
  <2> QED
    BY <2>2, <2>3
<1>6. ASSUME contentGate.undisturbed, exit = "failures" PROVE \E b \in Books : ~ Numbered(b)
  <2>1. contentGate.failures # 0
    BY <1>2, <1>6
  <2> QED
    BY <1>1, <1>6, <2>1 DEF NumbersInv, GateLooked
<1>7. HadithGateSound'
  <2>1. \A pin \in Pins : Lookup(CanonicalAvailable, pin.book, pin.number)' = Lookup(CanonicalAvailable, pin.book, pin.number)
    BY <1>1, NothingWritten DEF Lookup, CitedNumber, Precedes
  <2>2. ASSUME contentGate.undisturbed, exit = "ok"
        PROVE  (/\ \A pin \in Pins :
                        \E n \in Lookup(CanonicalAvailable, pin.book, pin.number) :
                            /\ MatchFixture(pin, PhrasesOf(pin.book, n))
                            /\ n # pin.number => n \in numberedRows[pin.book]
                /\ \A b \in Books : declared[b] # NoBook => ~ Skewed(b) /\ ~ Misdeclared(b))'
    BY <1>1, <1>5, <2>1, <2>2, NothingWritten
  <2>3. ASSUME contentGate.undisturbed, exit = "failures" PROVE \E b \in Books : ~ Numbered(b)'
    BY <1>1, <1>6, <2>3, NothingWritten
  <2> QED
    BY <1>3, <2>2, <2>3 DEF HadithGateSound
<1> QED
  BY <1>1, <1>4, <1>7, OnlyTheGate DEF NumbersInv

LEMMA NumbersInvNext == NumbersInv /\ [NumberNext]_numberVars => NumbersInv'
<1> SUFFICES ASSUME NumbersInv, [NumberNext]_numberVars PROVE NumbersInv'
  OBVIOUS
<1>1. CASE UNCHANGED numberVars
  <2>1. UNCHANGED <<corpusVars, reseed, contentGate, backfill>>
    BY <1>1 DEF numberVars
  <2> QED
    BY <2>1, OnlyTheGate, GateStays DEF NumbersInv
<1>2. CASE NumberNext
  BY <1>2, StartBackfillKeeps, OpenBookKeeps, UpdateBatchKeeps, CommitKeeps, BackfillEndsKeep, StartGateKeeps, RunFixtureKeeps,
     CheckBookKeeps, EndGateKeeps, SeedBookKeeps, ClearBookKeeps, FillBookKeeps, EndSeedKeeps, MigrateKeeps DEF NumberNext
<1> QED
  BY <1>1, <1>2

LEMMA NumbersInvWhole == NumbersInv => NumbersWhole /\ HadithGateSound
<1> SUFFICES ASSUME NumbersInv, NEW b \in Books
             PROVE  /\ OlderPlaces(b) \intersect numberedRows[b] \in {{}, OlderPlaces(b)}
                    /\ backfill.exit = "ok" /\ backfill.apply /\ b \in DOMAIN backfill.seen =>
                            /\ OlderPlaces(b) \subseteq numberedRows[b]
                            /\ b \notin reseed.touched => declared[b] = Cardinality(storedRows[b])
  BY DEF NumbersInv, NumbersWhole
<1>1. AllOrNone(b) /\ Settled(b)
  BY DEF NumbersInv, BackfillInv
<1>2. backfill.exit = "ok" => backfill.problems = 0 /\ backfill.pc = "none"
  BY DEF NumbersInv, BackfillInv, BackfillKnown
<1> QED
  BY <1>1, <1>2 DEF AllOrNone, Settled

-----------------------------------------------------------------------------
(* The texts of the feelings' remedies                                      *)

\* A value built along a sequence: `step' takes a place and the value before it.
IsBuilt(f, n, first, step) == f = [i \in 0 .. n |-> IF i = 0 THEN first ELSE step[<<i, f[i - 1]>>]]

LEMMA BuiltExists ==
    ASSUME NEW S, NEW first \in S, NEW top \in Nat, NEW step, \A i \in 1 .. top, v \in S : step[<<i, v>>] \in S
    PROVE  \E f : IsBuilt(f, top, first, step) /\ \A i \in 0 .. top : f[i] \in S
<1> DEFINE Built(n) == \E f : IsBuilt(f, n, first, step) /\ \A i \in 0 .. n : f[i] \in S
           T == {n \in Nat : n <= top /\ ~ Built(n)}
<1>1. SUFFICES ASSUME T # {} PROVE FALSE
  <2>1. T = {} => Built(top)
    <3> HIDE DEF Built
    <3> QED
      OBVIOUS
  <2> QED
    BY <1>1, <2>1
<1>2. PICK n \in T : \A m \in T : n <= m
  <2>1. T \subseteq Nat
    OBVIOUS
  <2> HIDE DEF T
  <2> QED
    BY <1>1, <2>1, LeastNat
<1>3. n \in Nat /\ n <= top /\ ~ Built(n)
  BY <1>2
<1>4. CASE n = 0
  <2> DEFINE f == [i \in 0 .. 0 |-> first]
  <2>1. IsBuilt(f, 0, first, step) /\ \A i \in 0 .. 0 : f[i] \in S
    BY DEF IsBuilt
  <2> QED
    BY <1>3, <1>4, <2>1
<1>5. CASE n # 0
  <2>1. n - 1 \in Nat /\ n - 1 <= top /\ n \in 1 .. top
    BY <1>3, <1>5
  <2>2. Built(n - 1)
    <3>1. n - 1 \notin T
      <4>1. ~ (n <= n - 1)
        BY <1>3
      <4> HIDE DEF T
      <4> QED
        BY <1>2, <4>1
    <3> HIDE DEF Built
    <3> QED
      BY <2>1, <3>1
  <2>3. PICK g : IsBuilt(g, n - 1, first, step) /\ \A i \in 0 .. n - 1 : g[i] \in S
    BY <2>2
  <2> DEFINE f == [i \in 0 .. n |-> IF i = n THEN step[<<n, g[n - 1]>>] ELSE g[i]]
  <2>4. \A i \in 0 .. n : i # n => i \in 0 .. n - 1 /\ f[i] = g[i]
    BY <1>3
  <2>5. f[n] = step[<<n, g[n - 1]>>] /\ f[n - 1] = g[n - 1] /\ g[n - 1] \in S
    BY <1>3, <1>5, <2>1, <2>3
  <2>6. ASSUME NEW i \in 0 .. n PROVE f[i] = (IF i = 0 THEN first ELSE step[<<i, f[i - 1]>>]) /\ f[i] \in S
    <3>1. CASE i = n
      <4> HIDE DEF f
      <4> QED
        BY <1>5, <2>1, <2>5, <3>1
    <3>2. CASE i # n
      <4>1. g[i] = IF i = 0 THEN first ELSE step[<<i, g[i - 1]>>]
        BY <2>3, <2>4, <3>2, Zenon DEF IsBuilt
      <4>2. i # 0 => i - 1 \in 0 .. n /\ i - 1 # n
        BY <1>3, <3>2
      <4>3. g[i] \in S
        BY <2>3, <2>4, <3>2
      <4> HIDE DEF f
      <4> QED
        BY <2>4, <3>2, <4>1, <4>2, <4>3
    <3> QED
      BY <3>1, <3>2
  <2>7. IsBuilt(f, n, first, step)
    <3>1. f = [i \in 0 .. n |-> f[i]]
      OBVIOUS
    <3> HIDE DEF f
    <3> QED
      BY <2>6, <3>1, Zenon DEF IsBuilt
  <2> QED
    BY <1>3, <2>6, <2>7
<1> QED
  BY <1>4, <1>5

\* Without takes its letters out one by one.
IsKept(f, text, letters) ==
    f = [i \in 0 .. Len(text) |-> IF i = 0 THEN <<>> ELSE IF text[i] \in letters THEN f[i - 1] ELSE Append(f[i - 1], text[i])]

LEMMA KeptExists ==
    ASSUME NEW S, NEW text \in Seq(S), NEW letters
    PROVE  \E f : IsKept(f, text, letters) /\ \A i \in 0 .. Len(text) : f[i] \in Seq(S)
<1> DEFINE step == [p \in (1 .. Len(text)) \X Seq(S) |-> IF text[p[1]] \in letters THEN p[2] ELSE Append(p[2], text[p[1]])]
<1>1. Len(text) \in Nat /\ <<>> \in Seq(S)
  OBVIOUS
<1>2. ASSUME NEW i \in 1 .. Len(text), NEW v \in Seq(S)
      PROVE  step[<<i, v>>] = (IF text[i] \in letters THEN v ELSE Append(v, text[i])) /\ step[<<i, v>>] \in Seq(S)
  <2>1. text[i] \in S
    OBVIOUS
  <2>2. Append(v, text[i]) \in Seq(S)
    BY <2>1
  <2>3. step[<<i, v>>] = IF text[i] \in letters THEN v ELSE Append(v, text[i])
    OBVIOUS
  <2> QED
    BY <2>2, <2>3
<1> HIDE DEF step
<1>3. PICK f : IsBuilt(f, Len(text), <<>>, step) /\ \A i \in 0 .. Len(text) : f[i] \in Seq(S)
  BY <1>1, <1>2, BuiltExists
<1>4. ASSUME NEW i \in 0 .. Len(text)
      PROVE  f[i] = IF i = 0 THEN <<>> ELSE IF text[i] \in letters THEN f[i - 1] ELSE Append(f[i - 1], text[i])
  <2>1. f[i] = IF i = 0 THEN <<>> ELSE step[<<i, f[i - 1]>>]
    BY <1>3, Zenon DEF IsBuilt
  <2>2. i # 0 => i \in 1 .. Len(text) /\ f[i - 1] \in Seq(S)
    BY <1>1, <1>3
  <2> QED
    BY <1>2, <2>1, <2>2
<1>5. f = [i \in 0 .. Len(text) |-> f[i]]
  BY <1>3 DEF IsBuilt
<1>6. IsKept(f, text, letters)
  BY <1>4, <1>5, Zenon DEF IsKept
<1> QED
  BY <1>3, <1>6

LEMMA WithoutIs ==
    ASSUME NEW S, NEW text \in Seq(S), NEW letters
    PROVE  \E f : IsKept(f, text, letters) /\ Without(text, letters) = f[Len(text)]
<1>1. \E f : IsKept(f, text, letters)
  BY KeptExists
<1>2. PICK f : f = CHOOSE g : IsKept(g, text, letters)
  OBVIOUS
<1>3. IsKept(f, text, letters)
  BY <1>1, <1>2
<1>4. Without(text, letters) = f[Len(text)]
  BY <1>2, Zenon DEF Without, IsKept
<1> QED
  BY <1>3, <1>4

\* What is kept of a text is kept of one that goes on.
LEMMA KeptAgrees ==
    ASSUME NEW S, NEW text \in Seq(S), NEW longer \in Seq(S), NEW letters, NEW f, NEW g,
           Len(text) <= Len(longer), \A i \in 1 .. Len(text) : text[i] = longer[i],
           IsKept(f, text, letters), IsKept(g, longer, letters)
    PROVE  \A i \in 0 .. Len(text) : f[i] = g[i]
<1> DEFINE T == {i \in 0 .. Len(text) : f[i] # g[i]}
<1>1. SUFFICES ASSUME T # {} PROVE FALSE
  OBVIOUS
<1>2. PICK n \in T : \A m \in T : n <= m
  <2>1. T \subseteq Nat
    OBVIOUS
  <2> HIDE DEF T
  <2> QED
    BY <1>1, <2>1, LeastNat
<1>3. n \in 0 .. Len(text) /\ n \in 0 .. Len(longer) /\ f[n] # g[n] /\ Len(text) \in Nat
  BY <1>2
<1>4. f[n] = IF n = 0 THEN <<>> ELSE IF text[n] \in letters THEN f[n - 1] ELSE Append(f[n - 1], text[n])
  BY <1>3, Zenon DEF IsKept
<1>5. g[n] = IF n = 0 THEN <<>> ELSE IF longer[n] \in letters THEN g[n - 1] ELSE Append(g[n - 1], longer[n])
  BY <1>3, Zenon DEF IsKept
<1>6. n # 0 => f[n - 1] = g[n - 1] /\ text[n] = longer[n]
  <2>1. n # 0 => n - 1 \in 0 .. Len(text) /\ ~ (n <= n - 1) /\ n \in 1 .. Len(text)
    BY <1>3
  <2> QED
    BY <1>2, <2>1
<1> QED
  BY <1>3, <1>4, <1>5, <1>6

LEMMA WithoutType ==
    ASSUME NEW S, NEW text \in Seq(S), NEW letters
    PROVE  Without(text, letters) \in Seq(S)
<1>1. PICK f : IsKept(f, text, letters) /\ \A i \in 0 .. Len(text) : f[i] \in Seq(S)
  BY KeptExists
<1>2. PICK g : IsKept(g, text, letters) /\ Without(text, letters) = g[Len(text)]
  BY WithoutIs
<1>3. Len(text) \in 0 .. Len(text)
  OBVIOUS
<1>4. f[Len(text)] = g[Len(text)]
  BY <1>1, <1>2, <1>3, KeptAgrees
<1> QED
  BY <1>1, <1>2, <1>3, <1>4

LEMMA WithoutNothing == ASSUME NEW letters PROVE Without(<<>>, letters) = <<>>
<1>1. <<>> \in Seq(STRING) /\ Len(<<>>) = 0
  OBVIOUS
<1>2. PICK g : IsKept(g, <<>>, letters) /\ Without(<<>>, letters) = g[0]
  BY <1>1, WithoutIs
<1>3. 0 \in 0 .. Len(<<>>)
  BY <1>1
<1> QED
  BY <1>2, <1>3, Zenon DEF IsKept

LEMMA WithoutAppend ==
    ASSUME NEW S, NEW text \in Seq(S), NEW letter \in S, NEW letters
    PROVE  Without(Append(text, letter), letters) =
                IF letter \in letters THEN Without(text, letters) ELSE Append(Without(text, letters), letter)
<1>1. PICK longer \in Seq(S) : longer = Append(text, letter)
  BY AppendProperties
<1>2. Len(text) \in Nat /\ Len(longer) = Len(text) + 1 /\ longer[Len(longer)] = letter
      /\ \A i \in 1 .. Len(text) : text[i] = longer[i]
  BY <1>1
<1>3. PICK f : IsKept(f, text, letters) /\ Without(text, letters) = f[Len(text)]
  BY WithoutIs
<1>4. PICK g : IsKept(g, longer, letters) /\ Without(longer, letters) = g[Len(longer)]
  BY WithoutIs
<1>5. f[Len(text)] = g[Len(text)]
  BY <1>2, <1>3, <1>4, KeptAgrees
<1>6. Len(longer) \in 0 .. Len(longer) /\ Len(longer) # 0 /\ Len(longer) - 1 = Len(text)
  BY <1>2
<1>7. g[Len(longer)] = IF longer[Len(longer)] \in letters THEN g[Len(longer) - 1] ELSE Append(g[Len(longer) - 1], longer[Len(longer)])
  BY <1>4, <1>6, Zenon DEF IsKept
<1> QED
  BY <1>1, <1>2, <1>3, <1>4, <1>5, <1>6, <1>7

LEMMA WithoutTyped ==
    ASSUME NEW S, NEW text \in Seq(S), NEW letters
    PROVE  \E f : /\ IsKept(f, text, letters) /\ Without(text, letters) = f[Len(text)]
                  /\ \A i \in 0 .. Len(text) : f[i] \in Seq(S)
<1>1. PICK f : IsKept(f, text, letters) /\ \A i \in 0 .. Len(text) : f[i] \in Seq(S)
  BY KeptExists
<1>2. PICK g : IsKept(g, text, letters) /\ Without(text, letters) = g[Len(text)]
  BY WithoutIs
<1>3. Len(text) <= Len(text)
  OBVIOUS
<1>4. \A i \in 0 .. Len(text) : f[i] = g[i]
  BY <1>1, <1>2, <1>3, KeptAgrees
<1> QED
  BY <1>1, <1>2, <1>4

LEMMA FoldedAppend ==
    ASSUME NEW S, NEW text \in Seq(S), NEW letter \in S
    PROVE  LET T == {Fold(l) : l \in S}
           IN  /\ Folded(text) \in Seq(T) /\ Fold(letter) \in T
               /\ Folded(Append(text, letter)) = Append(Folded(text), Fold(letter))
<1>1. PICK T : T = {Fold(l) : l \in S}
  OBVIOUS
<1>2. \A l \in S : Fold(l) \in T
  BY <1>1
<1>3. Len(text) \in Nat /\ DOMAIN text = 1 .. Len(text) /\ \A i \in 1 .. Len(text) : text[i] \in S
  OBVIOUS
<1>4. Folded(text) = [i \in 1 .. Len(text) |-> Fold(text[i])]
  BY <1>3 DEF Folded
<1>5. Folded(text) \in Seq(T) /\ Len(Folded(text)) = Len(text)
  BY <1>2, <1>3, <1>4
<1>6. PICK longer : longer = Append(text, letter)
  OBVIOUS
<1>7. /\ longer \in Seq(S) /\ Len(longer) = Len(text) + 1
      /\ \A i \in 1 .. Len(text) : longer[i] = text[i]
      /\ longer[Len(text) + 1] = letter
  BY <1>6, AppendProperties
<1>8. DOMAIN longer = 1 .. Len(longer) /\ \A i \in 1 .. Len(longer) : longer[i] \in S
  BY <1>7
<1>9. Folded(longer) = [i \in 1 .. Len(longer) |-> Fold(longer[i])]
  BY <1>8 DEF Folded
<1>10. Len(longer) \in Nat
  BY <1>3, <1>7
<1>11. Folded(longer) \in Seq(T) /\ Len(Folded(longer)) = Len(longer)
  BY <1>2, <1>8, <1>9, <1>10
<1>12. PICK other : other = Append(Folded(text), Fold(letter))
  OBVIOUS
<1>13. /\ other \in Seq(T) /\ Len(other) = Len(Folded(text)) + 1
       /\ \A i \in 1 .. Len(Folded(text)) : other[i] = Folded(text)[i]
       /\ other[Len(Folded(text)) + 1] = Fold(letter)
  BY <1>2, <1>5, <1>12, AppendProperties
<1>14. ASSUME NEW i \in 1 .. Len(longer) PROVE Folded(longer)[i] = other[i]
  <2>1. i \in 1 .. Len(text) \/ i = Len(text) + 1
    BY <1>3, <1>7
  <2>2. Folded(longer)[i] = Fold(longer[i])
    BY <1>9
  <2>3. i \in 1 .. Len(text) => Folded(text)[i] = Fold(text[i]) /\ longer[i] = text[i]
    BY <1>4, <1>7
  <2> QED
    BY <1>5, <1>7, <1>13, <2>1, <2>2, <2>3
<1>15. Folded(longer) = other
  BY <1>5, <1>7, <1>11, <1>13, <1>14, SeqEqual
<1> QED
  BY <1>1, <1>2, <1>5, <1>6, <1>12, <1>15

\* What the gate compares at last is what the property speaks of.
LEMMA LooseIsConsonants == ASSUME NEW text \in Seq(STRING) PROVE LooseSkeleton(text) = Consonants(text)
<1>1. PICK f : /\ IsKept(f, text, Marks) /\ Without(text, Marks) = f[Len(text)]
               /\ \A i \in 0 .. Len(text) : f[i] \in Seq(STRING)
  BY WithoutTyped
<1>2. PICK g : /\ IsKept(g, text, Vowels \union Marks \union {"A^"}) /\ Consonants(text) = g[Len(text)]
  BY WithoutTyped DEF Consonants
<1> DEFINE loose(i) == Without(Folded(f[i]), Vowels)
           T == {i \in 0 .. Len(text) : loose(i) # g[i]}
<1>3. Len(text) \in 0 .. Len(text)
  OBVIOUS
<1>4. SUFFICES ASSUME T # {} PROVE FALSE
  <2>1. LooseSkeleton(text) = loose(Len(text))
    BY <1>1 DEF LooseSkeleton, Skeleton
  <2> HIDE DEF loose
  <2> QED
    BY <1>2, <1>3, <1>4, <2>1
<1>5. PICK n \in T : \A m \in T : n <= m
  <2>1. T \subseteq Nat
    OBVIOUS
  <2> HIDE DEF T
  <2> QED
    BY <1>4, <2>1, LeastNat
<1>6. n \in 0 .. Len(text) /\ loose(n) # g[n]
  BY <1>5
<1>7. f[n] = IF n = 0 THEN <<>> ELSE IF text[n] \in Marks THEN f[n - 1] ELSE Append(f[n - 1], text[n])
  BY <1>1, <1>6, Zenon DEF IsKept
<1>8. g[n] = IF n = 0 THEN <<>> ELSE IF text[n] \in Vowels \union Marks \union {"A^"} THEN g[n - 1] ELSE Append(g[n - 1], text[n])
  BY <1>2, <1>6, Zenon DEF IsKept
<1>9. CASE n = 0
  <2>1. Folded(<<>>) = <<>>
    BY DEF Folded
  <2>2. loose(n) = <<>>
    BY <1>7, <1>9, <2>1, WithoutNothing
  <2> HIDE DEF loose
  <2> QED
    BY <1>6, <1>8, <1>9, <2>2
<1>10. CASE n # 0
  <2>1. n - 1 \in 0 .. Len(text) /\ n \in 1 .. Len(text) /\ ~ (n <= n - 1)
    BY <1>6, <1>10
  <2>2. loose(n - 1) = g[n - 1]
    <3> HIDE DEF loose
    <3> QED
      BY <1>5, <2>1
  <2>3. text[n] \in STRING /\ f[n - 1] \in Seq(STRING)
    BY <1>1, <2>1
  <2>4. CASE text[n] \in Marks
    <3>1. loose(n) = loose(n - 1) /\ g[n] = g[n - 1]
      BY <1>7, <1>8, <1>10, <2>4
    <3> HIDE DEF loose
    <3> QED
      BY <1>6, <2>2, <3>1
  <2>5. CASE text[n] \notin Marks
    <3>1. PICK letters : letters = {Fold(l) : l \in STRING}
      OBVIOUS
    <3>2. /\ Folded(f[n]) = Append(Folded(f[n - 1]), Fold(text[n]))
          /\ Folded(f[n - 1]) \in Seq(letters) /\ Fold(text[n]) \in letters
      BY <1>7, <1>10, <2>3, <2>5, <3>1, FoldedAppend
    <3>3. loose(n) = IF Fold(text[n]) \in Vowels THEN loose(n - 1) ELSE Append(loose(n - 1), Fold(text[n]))
      <4>1. Without(Append(Folded(f[n - 1]), Fold(text[n])), Vowels) =
                IF Fold(text[n]) \in Vowels THEN Without(Folded(f[n - 1]), Vowels)
                ELSE Append(Without(Folded(f[n - 1]), Vowels), Fold(text[n]))
        <5>1. ASSUME NEW start \in Seq(letters), NEW letter \in letters
              PROVE  Without(Append(start, letter), Vowels) =
                        IF letter \in Vowels THEN Without(start, Vowels) ELSE Append(Without(start, Vowels), letter)
          BY WithoutAppend
        <5> QED
          BY <3>2, <5>1
      <4> QED
        BY <3>2, <4>1
    <3>4. /\ Fold(text[n]) \in Vowels <=> text[n] \in Vowels \union Marks \union {"A^"}
          /\ Fold(text[n]) \notin Vowels => Fold(text[n]) = text[n]
      BY <2>5 DEF Fold, Vowels
    <3> HIDE DEF loose
    <3> QED
      BY <1>6, <1>8, <1>10, <2>2, <3>3, <3>4
  <2> QED
    BY <2>4, <2>5
<1> QED
  BY <1>9, <1>10

\* A text that the gate passes as it is is the passage, vowels aside.
LEMMA ComparedIsSame ==
    ASSUME NEW remedy \in Seq(STRING), NEW passage \in Seq(STRING),
           CompareText(remedy, passage) \in {"EXACT", "EXACT_ORTHOGRAPHY"}
    PROVE  Consonants(remedy) = Consonants(passage)
<1>1. Skeleton(remedy) = Skeleton(passage) \/ LooseSkeleton(remedy) = LooseSkeleton(passage)
  BY DEF CompareText
<1>2. LooseSkeleton(remedy) = LooseSkeleton(passage)
  BY <1>1 DEF LooseSkeleton
<1> QED
  BY <1>2, LooseIsConsonants

-----------------------------------------------------------------------------
\* Join puts texts one behind another.
IsJoin(f, texts) == f = [i \in 0 .. Len(texts) |-> IF i = 0 THEN <<>> ELSE f[i - 1] \o texts[i]]

LEMMA JoinIs ==
    ASSUME NEW texts \in Seq(Seq(STRING))
    PROVE  \E f : IsJoin(f, texts) /\ Join(texts) = f[Len(texts)]
<1> DEFINE step == [p \in (1 .. Len(texts)) \X Seq(STRING) |-> p[2] \o texts[p[1]]]
<1>1. Len(texts) \in Nat /\ <<>> \in Seq(STRING)
  OBVIOUS
<1>2. ASSUME NEW i \in 1 .. Len(texts), NEW v \in Seq(STRING)
      PROVE  step[<<i, v>>] = v \o texts[i] /\ step[<<i, v>>] \in Seq(STRING)
  <2>1. texts[i] \in Seq(STRING)
    OBVIOUS
  <2>2. v \o texts[i] \in Seq(STRING)
    BY <2>1, ConcatProperties
  <2>3. step[<<i, v>>] = v \o texts[i]
    OBVIOUS
  <2> QED
    BY <2>2, <2>3
<1> HIDE DEF step
<1>3. PICK f : IsBuilt(f, Len(texts), <<>>, step) /\ \A i \in 0 .. Len(texts) : f[i] \in Seq(STRING)
  BY <1>1, <1>2, BuiltExists
<1>4. ASSUME NEW i \in 0 .. Len(texts) PROVE f[i] = IF i = 0 THEN <<>> ELSE f[i - 1] \o texts[i]
  <2>1. f[i] = IF i = 0 THEN <<>> ELSE step[<<i, f[i - 1]>>]
    BY <1>3, Zenon DEF IsBuilt
  <2>2. i # 0 => i \in 1 .. Len(texts) /\ f[i - 1] \in Seq(STRING)
    BY <1>1, <1>3
  <2> QED
    BY <1>2, <2>1, <2>2
<1>5. f = [i \in 0 .. Len(texts) |-> f[i]]
  BY <1>3 DEF IsBuilt
<1>6. IsJoin(f, texts)
  BY <1>4, <1>5, Zenon DEF IsJoin
<1>7. PICK g : g = CHOOSE h : IsJoin(h, texts)
  OBVIOUS
<1>8. IsJoin(g, texts)
  BY <1>6, <1>7
<1>9. Join(texts) = g[Len(texts)]
  BY <1>7, Zenon DEF Join, IsJoin
<1> QED
  BY <1>8, <1>9

LEMMA JoinType == ASSUME NEW texts \in Seq(Seq(STRING)) PROVE Join(texts) \in Seq(STRING)
<1>1. PICK f : IsJoin(f, texts) /\ Join(texts) = f[Len(texts)]
  BY JoinIs
<1> DEFINE T == {i \in 0 .. Len(texts) : f[i] \notin Seq(STRING)}
<1>2. SUFFICES ASSUME T # {} PROVE FALSE
  <2>1. Len(texts) \in 0 .. Len(texts)
    OBVIOUS
  <2> QED
    BY <1>1, <1>2, <2>1
<1>3. PICK n \in T : \A m \in T : n <= m
  <2>1. T \subseteq Nat
    OBVIOUS
  <2> HIDE DEF T
  <2> QED
    BY <1>2, <2>1, LeastNat
<1>4. n \in 0 .. Len(texts) /\ f[n] \notin Seq(STRING)
  BY <1>3
<1>5. f[n] = IF n = 0 THEN <<>> ELSE f[n - 1] \o texts[n]
  BY <1>1, <1>4, Zenon DEF IsJoin
<1>6. n # 0
  <2>1. <<>> \in Seq(STRING)
    OBVIOUS
  <2> QED
    BY <1>4, <1>5, <2>1
<1>7. n - 1 \in 0 .. Len(texts) /\ n \in 1 .. Len(texts) /\ ~ (n <= n - 1)
  BY <1>4, <1>6
<1>8. f[n - 1] \in Seq(STRING) /\ texts[n] \in Seq(STRING)
  BY <1>3, <1>7
<1> QED
  BY <1>4, <1>5, <1>6, <1>8, ConcatProperties

LEMMA JoinOne == ASSUME NEW text \in Seq(STRING) PROVE Join(<<text>>) = text
<1>1. PICK texts : texts = <<text>>
  OBVIOUS
<1>2. texts \in Seq(Seq(STRING)) /\ Len(texts) = 1 /\ texts[1] = text
  BY <1>1
<1>3. PICK f : IsJoin(f, texts) /\ Join(texts) = f[1]
  BY <1>2, JoinIs
<1>4. 0 \in 0 .. Len(texts) /\ 1 \in 0 .. Len(texts)
  BY <1>2
<1>5. f[0] = <<>>
  BY <1>3, <1>4, Zenon DEF IsJoin
<1>6. f[1] = IF 1 = 0 THEN <<>> ELSE f[1 - 1] \o texts[1]
  BY <1>3, <1>4, Zenon DEF IsJoin
<1>7. f[1] = <<>> \o text
  BY <1>2, <1>5, <1>6
<1> QED
  BY <1>1, <1>3, <1>7, ConcatEmptySeq

\* The last number that a source names.
LastOf(source) == IF source.to = 0 THEN source.from ELSE source.to

PassagesKnown ==
    /\ verses \subseteq 1 .. LastAyah /\ hadiths \subseteq DOMAIN HadithTexts
    /\ totalHadiths \in {Len(HadithTexts), Cardinality(hadiths)}
    /\ arrived \in Nat
    /\ check = [f \in DOMAIN NoCheck |-> check[f]]
    /\ check.todo \in Seq(Remedies)
    /\ check.phase # "done" => check.exit = 9

\* What is remembered of a surah and of a book was so when they were asked for.
AskedThen ==
    /\ check.surah # NotAsked =>
            check.surah.declared = LastAyah /\ check.surah.seeded \in Nat /\ check.surah.seeded <= Cardinality(verses)
    /\ check.book # NotAsked => check.book.seeded \in Nat /\ check.book.declared \in {Len(HadithTexts), check.book.seeded}
    /\ arrived = 0 /\ numbered = "filled" => check.canonical # "no"

\* The rows are looked up of a source that was parsed, and after its surah or book.
SourceChecked ==
    check.phase = "rows" =>
        /\ check.todo # <<>>
        /\ LET c == ParseCitation(Head(check.todo).source)
           IN  c.ok /\ IF c.kind = "quran" THEN c.surah = 1 /\ check.surah # NotAsked ELSE check.book # NotAsked

\* What a result says of its remedy.
ResultSound(r) ==
    LET s == r.remedy.source
        c == ParseCitation(s)
    IN  /\ r.remedy \in Remedies
        /\ ~ c.ok => r.status = "FAIL"
        /\ r.status = "FAIL" /\ c.ok =>
                IF s.shape = "verse" THEN c.to > LastAyah
                ELSE c.to > Len(HadithTexts) \/ (check.book # NotAsked /\ check.book.declared <= check.book.seeded)
        /\ r.status # "FAIL" /\ c.ok /\ s.shape = "verse" /\ s.number = 1 /\ c.to > LastAyah =>
                check.surah # NotAsked /\ check.surah.seeded = 0
        /\ r.status = "PASS" /\ r.text \in {"EXACT", "EXACT_ORTHOGRAPHY"} => Whole(r.remedy)
        /\ r.status \in {"FAIL", "UNVERIFIABLE", "PASS"} /\ (r.status = "PASS" => r.text # "NOT_COMPARED")

\* No result that blocks.
NoneBad ==
    \A r \in check.results :
        r.status # "FAIL" /\ (check.strict => r.status = "PASS" /\ r.text \in {"EXACT", "EXACT_ORTHOGRAPHY"})

\* Each result is sound when it is written, and stays so while rows come; an exit
\* code of 0 needs that none is bad.
FeelingsInv ==
    /\ PassagesKnown /\ AskedThen /\ SourceChecked
    /\ \A r \in check.results : ResultSound(r)
    /\ check.phase = "content" /\ check.own = 0 => NoneBad
    /\ check.exit = 0 => NoneBad

LEMMA CheckFields ==
    DOMAIN NoCheck = {"phase", "strict", "todo", "surah", "book", "canonical", "results", "own", "exit"}
BY DEF NoCheck

LEMMA TextsAre ==
    /\ Len(VerseTexts) \in Nat /\ LastAyah = Len(VerseTexts) /\ DOMAIN VerseTexts = 1 .. LastAyah
    /\ \A n \in 1 .. LastAyah : VerseTexts[n] \in Seq(STRING)
    /\ Len(HadithTexts) \in Nat /\ DOMAIN HadithTexts = 1 .. Len(HadithTexts)
    /\ \A n \in DOMAIN HadithTexts : HadithTexts[n] \in Seq(STRING)
    /\ \A n \in DOMAIN HadithTexts : CanonicalNumbers[n][1] \in Nat /\ CanonicalNumbers[n][2] \in Nat
BY FeelingsAssumption DEF FeelingsAssumption, LastAyah

LEMMA ParsedIs ==
    ASSUME NEW remedy \in Remedies, NEW s, s = remedy.source, NEW c, c = ParseCitation(s)
    PROVE  /\ s.from \in Nat /\ s.to \in Nat /\ s.number \in Nat /\ remedy.text \in Seq(STRING)
           /\ c.from \in Nat /\ c.to \in Nat /\ c.ok \in BOOLEAN
           /\ c.ok => /\ s.names = 1 /\ c.from = s.from /\ c.to = LastOf(s) /\ c.from <= c.to /\ c.surah = s.number
                      /\ IF s.shape = "verse" THEN c.kind = "quran" /\ c.from >= 1 ELSE c.kind = "hadith"
<1>1. s.from \in Nat /\ s.to \in Nat /\ s.number \in Nat /\ remedy.text \in Seq(STRING)
  BY FeelingsAssumption DEF FeelingsAssumption
<1>2. LastOf(s) \in Nat
  BY <1>1 DEF LastOf
<1>3. CASE c = Unparsed
  BY <1>1, <1>3 DEF Unparsed
<1>4. CASE c # Unparsed
  <2>1. PICK claim, book : c = [ok |-> TRUE, kind |-> IF s.shape = "verse" THEN "quran" ELSE "hadith", surah |-> s.number,
                                from |-> s.from, to |-> LastOf(s), claim |-> claim, book |-> book]
    BY <1>4 DEF ParseCitation, LastOf
  <2>2. s.names = 1 /\ s.from <= LastOf(s) /\ (s.shape = "verse" => s.from >= 1)
    BY <1>4 DEF ParseCitation, LastOf
  <2>3. /\ c.ok = TRUE /\ c.from = s.from /\ c.to = LastOf(s) /\ c.surah = s.number
        /\ c.kind = IF s.shape = "verse" THEN "quran" ELSE "hadith"
    BY <2>1
  <2> QED
    BY <1>1, <1>2, <2>2, <2>3
<1> QED
  BY <1>3, <1>4

LEMMA PassagesAreFinite ==
    ASSUME PassagesKnown
    PROVE  /\ IsFiniteSet(verses) /\ Cardinality(verses) \in Nat /\ Cardinality(verses) <= LastAyah
           /\ Cardinality(verses) = LastAyah => verses = 1 .. LastAyah
           /\ IsFiniteSet(hadiths) /\ Cardinality(hadiths) \in Nat
<1>1. 1 \in Int /\ LastAyah \in Int /\ Len(HadithTexts) \in Int /\ LastAyah \in Nat
  BY TextsAre
<1>2. IsFiniteSet(1 .. LastAyah) /\ Cardinality(1 .. LastAyah) = IF 1 > LastAyah THEN 0 ELSE LastAyah - 1 + 1
  BY <1>1, FS_Interval
<1>3. Cardinality(1 .. LastAyah) = LastAyah
  BY <1>1, <1>2
<1>4. verses \in SUBSET (1 .. LastAyah) /\ hadiths \in SUBSET (1 .. Len(HadithTexts))
  BY TextsAre DEF PassagesKnown
<1>5. IsFiniteSet(verses) /\ Cardinality(verses) <= LastAyah /\ (LastAyah = Cardinality(verses) => verses = 1 .. LastAyah)
  BY <1>2, <1>3, <1>4, FS_Subset
<1>6. IsFiniteSet(1 .. Len(HadithTexts))
  BY <1>1, FS_Interval
<1>7. IsFiniteSet(hadiths)
  BY <1>4, <1>6, FS_Subset
<1> QED
  BY <1>5, <1>7, FS_CardinalityType

LEMMA FeelingsInvInit == FeelingsInit => FeelingsInv
<1> SUFFICES ASSUME FeelingsInit PROVE FeelingsInv
  OBVIOUS
<1>1. /\ check = [f \in DOMAIN NoCheck |-> check[f]] /\ check.phase = "off" /\ check.todo = <<>> /\ check.surah = NotAsked
      /\ check.book = NotAsked /\ check.canonical = "unknown" /\ check.results = {} /\ check.exit = 9
  BY DEF FeelingsInit, NoCheck
<1>2. verses \subseteq 1 .. LastAyah /\ hadiths \subseteq DOMAIN HadithTexts
  <2>1. CASE verses \in SUBSET (1 .. LastAyah) /\ hadiths = {}
    BY <2>1
  <2>2. CASE verses = {} /\ \E n \in 0 .. Len(HadithTexts) : hadiths = 1 .. n
    BY <2>2, TextsAre
  <2> QED
    BY <2>1, <2>2 DEF FeelingsInit
<1>3. totalHadiths \in {Len(HadithTexts), Cardinality(hadiths)} /\ arrived = 0
  BY DEF FeelingsInit
<1>4. check.todo \in Seq(Remedies)
  <2>1. <<>> \in Seq(Remedies)
    OBVIOUS
  <2> QED
    BY <1>1, <2>1
<1>5. PassagesKnown
  BY <1>1, <1>2, <1>3, <1>4 DEF PassagesKnown
<1>6. AskedThen /\ SourceChecked
  BY <1>1 DEF AskedThen, SourceChecked
<1> QED
  BY <1>1, <1>5, <1>6 DEF FeelingsInv, NoneBad

-----------------------------------------------------------------------------
\* What a result says stays so: passages are added, and a surah or a book that was
\* asked for is remembered as it was.
LEMMA ResultStays ==
    ASSUME FeelingsInv, NEW r \in check.results, verses \subseteq verses',
           arrived' = 0 => arrived = 0 /\ hadiths' = hadiths /\ numbered' = numbered,
           check.surah # NotAsked => check'.surah = check.surah,
           check.book # NotAsked => check'.book = check.book
    PROVE  ResultSound(r)'
<1>1. ResultSound(r)
  BY DEF FeelingsInv
<1>2. Whole(r.remedy) => Whole(r.remedy)'
  BY DEF Whole
<1> QED
  BY <1>1, <1>2 DEF ResultSound

LEMMA SeedPassageKeeps == ASSUME FeelingsInv, SeedPassage PROVE FeelingsInv'
<1>1. /\ UNCHANGED <<numbered, check>> /\ arrived' = arrived + 1 /\ arrived \in Nat /\ check.exit = 9
      /\ check.phase \notin {"off", "done"}
  BY DEF SeedPassage, WhileChecking, FeelingsInv, PassagesKnown
<1>2. /\ verses \subseteq verses' /\ verses' \subseteq 1 .. LastAyah /\ hadiths' \subseteq DOMAIN HadithTexts
      /\ totalHadiths' \in {Len(HadithTexts), Cardinality(hadiths')}
  BY DEF SeedPassage, FeelingsInv, PassagesKnown
<1>3. PassagesKnown'
  BY <1>1, <1>2 DEF FeelingsInv, PassagesKnown
<1>4. Cardinality(verses) <= Cardinality(verses') /\ Cardinality(verses) \in Nat /\ Cardinality(verses') \in Nat
  <2>1. IsFiniteSet(verses') /\ Cardinality(verses') \in Nat
    <3>1. 1 \in Int /\ LastAyah \in Int
      BY TextsAre
    <3>2. IsFiniteSet(1 .. LastAyah)
      BY <3>1, FS_Interval
    <3>3. verses' \in SUBSET (1 .. LastAyah)
      BY <1>2
    <3>4. IsFiniteSet(verses')
      BY <3>2, <3>3, FS_Subset
    <3> QED
      BY <3>4, FS_CardinalityType
  <2>2. verses \in SUBSET verses'
    BY <1>2
  <2> QED
    BY <2>1, <2>2, FS_Subset, PassagesAreFinite DEF FeelingsInv
<1>5. AskedThen'
  BY <1>1, <1>4 DEF FeelingsInv, AskedThen
<1>6. SourceChecked'
  BY <1>1 DEF FeelingsInv, SourceChecked
<1>7. \A r \in check'.results : ResultSound(r)'
  BY <1>1, <1>2, ResultStays
<1>8. (check.phase = "content" /\ check.own = 0 => NoneBad)' /\ (check.exit = 0 => NoneBad)'
  BY <1>1 DEF FeelingsInv, NoneBad
<1> QED
  BY <1>3, <1>5, <1>6, <1>7, <1>8 DEF FeelingsInv

LEMMA BackfillKeeps == ASSUME FeelingsInv, Backfill PROVE FeelingsInv'
<1>1. /\ UNCHANGED <<verses, hadiths, check>> /\ arrived' = arrived + 1 /\ arrived \in Nat
      /\ totalHadiths' = Cardinality(hadiths)
  BY DEF Backfill, WhileChecking, FeelingsInv, PassagesKnown
<1>2. PassagesKnown' /\ AskedThen' /\ SourceChecked'
  BY <1>1 DEF FeelingsInv, PassagesKnown, AskedThen, SourceChecked
<1>3. \A r \in check'.results : ResultSound(r)'
  BY <1>1, ResultStays
<1>4. (check.phase = "content" /\ check.own = 0 => NoneBad)' /\ (check.exit = 0 => NoneBad)'
  BY <1>1 DEF FeelingsInv, NoneBad
<1> QED
  BY <1>2, <1>3, <1>4 DEF FeelingsInv

-----------------------------------------------------------------------------
\* A step of the gate itself.
LEMMA GateStepKeeps ==
    ASSUME FeelingsInv, UNCHANGED <<verses, hadiths, totalHadiths, numbered, arrived>>,
           check' = [f \in DOMAIN NoCheck |-> check'[f]], check'.todo \in Seq(Remedies),
           check.surah # NotAsked => check'.surah = check.surah,
           check.book # NotAsked => check'.book = check.book,
           AskedThen', SourceChecked',
           check'.phase # "done" => check'.exit = 9,
           \A r \in check'.results \ check.results : ResultSound(r)',
           check'.phase = "content" /\ check'.own = 0 => NoneBad',
           check'.exit = 0 => NoneBad'
    PROVE  FeelingsInv'
<1>1. PassagesKnown'
  BY DEF FeelingsInv, PassagesKnown
<1>2. ASSUME NEW r \in check'.results PROVE ResultSound(r)'
  <2>1. CASE r \in check.results
    BY <2>1, ResultStays
  <2> QED
    BY <2>1
<1> QED
  BY <1>1, <1>2 DEF FeelingsInv

LEMMA StartCheckKeeps ==
    ASSUME FeelingsInv, NEW remedy \in Remedies, NEW rowsOf \in 1 .. 2, NEW strict \in BOOLEAN, StartCheck(remedy, rowsOf, strict)
    PROVE  FeelingsInv'
<1>1. check = [f \in DOMAIN NoCheck |-> check[f]] /\ check.phase = "off" /\ check.exit = 9
  BY DEF StartCheck, FeelingsInv, PassagesKnown
<1>2. PICK todo : todo = [i \in 1 .. rowsOf |-> remedy]
  OBVIOUS
<1>3. todo \in Seq(Remedies)
  BY <1>2
<1>4. check' = [check EXCEPT !.phase = "source", !.strict = strict, !.todo = todo]
  BY <1>2 DEF StartCheck
<1>5. /\ check' = [f \in DOMAIN NoCheck |-> check'[f]] /\ check'.phase = "source" /\ check'.todo = todo
      /\ check'.surah = check.surah /\ check'.book = check.book /\ check'.canonical = check.canonical
      /\ check'.results = check.results /\ check'.exit = 9
  BY <1>1, <1>4, CheckFields
<1>6. UNCHANGED <<verses, hadiths, totalHadiths, numbered, arrived>>
  BY DEF StartCheck
<1>7. AskedThen' /\ SourceChecked'
  BY <1>5, <1>6 DEF FeelingsInv, AskedThen, SourceChecked
<1> QED
  BY <1>3, <1>5, <1>6, <1>7, GateStepKeeps

LEMMA CheckFailsKeeps == ASSUME FeelingsInv, CheckFails PROVE FeelingsInv'
<1>1. check = [f \in DOMAIN NoCheck |-> check[f]] /\ check.todo \in Seq(Remedies)
  BY DEF FeelingsInv, PassagesKnown
<1>2. check' = [check EXCEPT !.phase = "done", !.exit = 2] /\ UNCHANGED <<verses, hadiths, totalHadiths, numbered, arrived>>
  BY DEF CheckFails
<1>3. /\ check' = [f \in DOMAIN NoCheck |-> check'[f]] /\ check'.phase = "done" /\ check'.todo = check.todo
      /\ check'.surah = check.surah /\ check'.book = check.book /\ check'.canonical = check.canonical
      /\ check'.results = check.results /\ check'.exit = 2
  BY <1>1, <1>2, CheckFields
<1>4. AskedThen' /\ SourceChecked'
  BY <1>2, <1>3 DEF FeelingsInv, AskedThen, SourceChecked
<1>5. \A r \in check'.results \ check.results : ResultSound(r)'
  BY <1>3
<1>6. check'.phase # "content" /\ check'.exit # 0
  BY <1>3
<1> QED
  BY <1>1, <1>2, <1>3, <1>4, <1>5, <1>6, GateStepKeeps

LEMMA ReportKeeps == ASSUME FeelingsInv, ReportRemedies PROVE FeelingsInv'
<1>1. check = [f \in DOMAIN NoCheck |-> check[f]] /\ check.todo \in Seq(Remedies) /\ check.phase = "source" /\ check.exit = 9
  BY DEF FeelingsInv, PassagesKnown, ReportRemedies
<1>2. PICK own : own = IF \/ \E r \in check.results : r.status = "FAIL"
                          \/ check.strict /\ \E r \in check.results : r.status = "UNVERIFIABLE" \/ IsWarning(r)
                       THEN 1 ELSE 0
  OBVIOUS
<1>3. check' = [check EXCEPT !.phase = "content", !.own = own] /\ UNCHANGED <<verses, hadiths, totalHadiths, numbered, arrived>>
  BY <1>2 DEF ReportRemedies
<1>4. /\ check' = [f \in DOMAIN NoCheck |-> check'[f]] /\ check'.phase = "content" /\ check'.todo = check.todo
      /\ check'.surah = check.surah /\ check'.book = check.book /\ check'.canonical = check.canonical
      /\ check'.results = check.results /\ check'.exit = 9 /\ check'.own = own /\ check'.strict = check.strict
  BY <1>1, <1>3, CheckFields
<1>5. AskedThen' /\ SourceChecked'
  BY <1>3, <1>4 DEF FeelingsInv, AskedThen, SourceChecked
<1>6. own = 0 => NoneBad'
  <2> SUFFICES ASSUME own = 0, NEW r \in check.results
               PROVE  r.status # "FAIL" /\ (check.strict => r.status = "PASS" /\ r.text \in {"EXACT", "EXACT_ORTHOGRAPHY"})
    BY <1>4 DEF NoneBad
  <2>1. r.status # "FAIL" /\ (check.strict => r.status # "UNVERIFIABLE" /\ ~ IsWarning(r))
    BY <1>2
  <2>2. r.status \in {"FAIL", "UNVERIFIABLE", "PASS"} /\ (r.status = "PASS" => r.text # "NOT_COMPARED")
    BY DEF FeelingsInv, ResultSound
  <2> QED
    BY <2>1, <2>2 DEF IsWarning
<1>7. \A r \in check'.results \ check.results : ResultSound(r)'
  BY <1>4
<1>8. check'.exit # 0 /\ (check'.own = 0 => NoneBad')
  BY <1>4, <1>6
<1> QED
  BY <1>1, <1>3, <1>4, <1>5, <1>7, <1>8, GateStepKeeps

LEMMA ContentCheckedKeeps == ASSUME FeelingsInv, NEW content, ContentChecked(content) PROVE FeelingsInv'
<1>1. check = [f \in DOMAIN NoCheck |-> check[f]] /\ check.todo \in Seq(Remedies) /\ check.phase = "content"
  BY DEF FeelingsInv, PassagesKnown, ContentChecked
<1>2. PICK exit : exit = IF check.own = 0 /\ content = 0 THEN 0 ELSE 1
  OBVIOUS
<1>3. check' = [check EXCEPT !.phase = "done", !.exit = exit] /\ UNCHANGED <<verses, hadiths, totalHadiths, numbered, arrived>>
  BY <1>2 DEF ContentChecked
<1>4. /\ check' = [f \in DOMAIN NoCheck |-> check'[f]] /\ check'.phase = "done" /\ check'.todo = check.todo
      /\ check'.surah = check.surah /\ check'.book = check.book /\ check'.canonical = check.canonical
      /\ check'.results = check.results /\ check'.exit = exit /\ check'.strict = check.strict
  BY <1>1, <1>3, CheckFields
<1>5. AskedThen' /\ SourceChecked'
  BY <1>3, <1>4 DEF FeelingsInv, AskedThen, SourceChecked
<1>6. check'.exit = 0 => NoneBad'
  <2>1. exit = 0 => NoneBad
    BY <1>1, <1>2 DEF FeelingsInv
  <2>2. NoneBad => NoneBad'
    BY <1>4 DEF NoneBad
  <2> QED
    BY <1>4, <2>1, <2>2
<1>7. \A r \in check'.results \ check.results : ResultSound(r)'
  BY <1>4
<1>8. check'.phase # "content"
  BY <1>4
<1> QED
  BY <1>1, <1>3, <1>4, <1>5, <1>6, <1>7, <1>8, GateStepKeeps

LEMMA SurahIs ==
    ASSUME FeelingsInv, NEW info, info = SurahInfo
    PROVE  /\ info # NotAsked /\ info.declared = LastAyah /\ info.seeded \in Nat /\ info.seeded <= Cardinality(verses)
           /\ check.surah # NotAsked => info = check.surah
<1>1. LastAyah \in Nat /\ NotAsked.declared = -1 /\ Cardinality(verses) \in Nat
  BY TextsAre, PassagesAreFinite DEF NotAsked, FeelingsInv
<1>2. CASE check.surah # NotAsked
  BY <1>2 DEF SurahInfo, FeelingsInv, AskedThen
<1>3. CASE check.surah = NotAsked
  <2>1. info = [seeded |-> Cardinality(verses), declared |-> LastAyah]
    BY <1>3 DEF SurahInfo
  <2>2. info.declared = LastAyah /\ info.seeded = Cardinality(verses)
    BY <2>1
  <2> QED
    BY <1>1, <1>3, <2>2
<1> QED
  BY <1>2, <1>3

LEMMA BookIs ==
    ASSUME FeelingsInv, NEW info, info = BookInfo
    PROVE  /\ info # NotAsked /\ info.seeded \in Nat /\ info.declared \in {Len(HadithTexts), info.seeded}
           /\ check.book # NotAsked => info = check.book
<1>1. Len(HadithTexts) \in Nat /\ NotAsked.declared = -1 /\ Cardinality(hadiths) \in Nat
  BY TextsAre, PassagesAreFinite DEF NotAsked, FeelingsInv
<1>2. CASE check.book # NotAsked
  BY <1>2 DEF BookInfo, FeelingsInv, AskedThen
<1>3. CASE check.book = NotAsked
  <2>1. info = [seeded |-> Cardinality(hadiths), declared |-> totalHadiths]
    BY <1>3 DEF BookInfo
  <2>2. info.declared = totalHadiths /\ info.seeded = Cardinality(hadiths)
    BY <2>1
  <2>3. totalHadiths \in {Len(HadithTexts), Cardinality(hadiths)}
    BY DEF FeelingsInv, PassagesKnown
  <2>4. info.declared \in Nat
    BY <1>1, <2>2, <2>3
  <2> QED
    BY <1>1, <1>3, <2>2, <2>3, <2>4
<1> QED
  BY <1>2, <1>3

LEMMA ResultFields ==
    ASSUME FeelingsInv, check.todo # <<>>, NEW standing, NEW compared, NEW x, x = Result(standing, compared)
    PROVE  /\ x = [f \in DOMAIN NoCheck |-> x[f]]
           /\ x.phase = "source" /\ x.todo = Tail(check.todo) /\ x.todo \in Seq(Remedies)
           /\ x.results = check.results \union {[remedy |-> Head(check.todo), status |-> standing, text |-> compared]}
           /\ x.surah = check.surah /\ x.book = check.book /\ x.canonical = check.canonical /\ x.exit = check.exit
           /\ x.own = check.own /\ x.strict = check.strict
<1>1. check = [f \in DOMAIN NoCheck |-> check[f]] /\ Tail(check.todo) \in Seq(Remedies)
  BY HeadTailProperties DEF FeelingsInv, PassagesKnown
<1> QED
  BY <1>1, CheckFields DEF Result

LEMMA CheckSourceKeeps == ASSUME FeelingsInv, CheckSource PROVE FeelingsInv'
<1>1. /\ check = [f \in DOMAIN NoCheck |-> check[f]] /\ check.todo \in Seq(Remedies) /\ check.todo # <<>>
      /\ check.phase = "source" /\ check.exit = 9 /\ UNCHANGED <<verses, hadiths, totalHadiths, numbered, arrived>>
  BY DEF FeelingsInv, PassagesKnown, CheckSource
<1>2. PICK remedy \in Remedies : remedy = Head(check.todo)
  BY <1>1, HeadTailProperties
<1>3. PICK s, c : s = remedy.source /\ c = ParseCitation(s)
  OBVIOUS
<1>4. PICK surah, book : surah = SurahInfo /\ book = BookInfo
  OBVIOUS
<1>5. check' = IF ~ c.ok THEN Result("FAIL", "NOT_COMPARED")
               ELSE IF c.kind = "quran"
               THEN IF c.surah # 1 THEN Result("UNVERIFIABLE", "NOT_COMPARED")
                    ELSE IF surah.seeded = 0 THEN [Result("UNVERIFIABLE", "NOT_COMPARED") EXCEPT !.surah = surah]
                    ELSE [check EXCEPT !.surah = surah, !.phase = "rows"]
               ELSE IF c.book = "none" THEN Result("UNVERIFIABLE", "NOT_COMPARED")
                    ELSE IF book.seeded = 0 THEN [Result("UNVERIFIABLE", "NOT_COMPARED") EXCEPT !.book = book]
                    ELSE [check EXCEPT !.book = book, !.phase = "rows"]
  BY <1>2, <1>3, <1>4 DEF CheckSource
<1>6. /\ c.ok \in BOOLEAN
      /\ c.ok => c.surah = s.number /\ IF s.shape = "verse" THEN c.kind = "quran" ELSE c.kind = "hadith"
  BY <1>2, <1>3, ParsedIs
<1>7. /\ surah # NotAsked /\ surah.declared = LastAyah /\ surah.seeded \in Nat /\ surah.seeded <= Cardinality(verses)
      /\ check.surah # NotAsked => surah = check.surah
  BY <1>4, SurahIs
<1>8. /\ book # NotAsked /\ book.seeded \in Nat /\ book.declared \in {Len(HadithTexts), book.seeded}
      /\ check.book # NotAsked => book = check.book
  BY <1>4, BookIs
\* The source has rows to be looked up.
<1>9. ASSUME c.ok, check'.todo = check.todo, check'.results = check.results, check'.phase = "rows", check'.exit = check.exit,
             check' = [f \in DOMAIN NoCheck |-> check'[f]], check'.canonical = check.canonical,
             \/ c.kind = "quran" /\ c.surah = 1 /\ check'.surah = surah /\ check'.book = check.book
             \/ c.kind # "quran" /\ check'.surah = check.surah /\ check'.book = book
      PROVE  FeelingsInv'
  <2>1. AskedThen'
    BY <1>1, <1>7, <1>8, <1>9 DEF FeelingsInv, AskedThen
  <2>2. SourceChecked'
    BY <1>1, <1>2, <1>3, <1>7, <1>8, <1>9 DEF SourceChecked
  <2>3. check'.phase # "content" /\ check'.exit = 9
    BY <1>1, <1>9
  <2>4. \A r \in check'.results \ check.results : ResultSound(r)'
    BY <1>9
  <2>5. /\ check.surah # NotAsked => check'.surah = check.surah
        /\ check.book # NotAsked => check'.book = check.book
    BY <1>7, <1>8, <1>9
  <2> QED
    BY <1>1, <1>9, <2>1, <2>2, <2>3, <2>4, <2>5, GateStepKeeps
\* It has a result.
<1>10. ASSUME NEW standing, check'.todo \in Seq(Remedies), check'.phase = "source", check'.exit = check.exit,
              check' = [f \in DOMAIN NoCheck |-> check'[f]], check'.canonical = check.canonical,
              check'.results = check.results \union {[remedy |-> Head(check.todo), status |-> standing, text |-> "NOT_COMPARED"]},
              \/ ~ c.ok /\ standing = "FAIL" /\ check'.surah = check.surah
              \/ c.ok /\ standing = "UNVERIFIABLE" /\ c.kind = "quran" /\ c.surah # 1 /\ check'.surah = check.surah
              \/ c.ok /\ standing = "UNVERIFIABLE" /\ c.kind = "quran" /\ check'.surah = surah /\ surah.seeded = 0
              \/ c.ok /\ standing = "UNVERIFIABLE" /\ c.kind # "quran" /\ check'.surah = check.surah,
              check'.book \in {check.book, book}
       PROVE  FeelingsInv'
  <2>1. AskedThen'
    BY <1>1, <1>7, <1>8, <1>10 DEF FeelingsInv, AskedThen
  <2>2. SourceChecked'
    BY <1>10 DEF SourceChecked
  <2>3. check'.phase # "content" /\ check'.exit = 9
    BY <1>1, <1>10
  <2>4. ASSUME NEW r \in check'.results \ check.results PROVE ResultSound(r)'
    <3>1. r = [remedy |-> remedy, status |-> standing, text |-> "NOT_COMPARED"]
      BY <1>2, <1>10
    <3>2. r.remedy = remedy /\ r.status = standing /\ r.text = "NOT_COMPARED"
      BY <3>1
    <3>3. standing # "FAIL" /\ c.ok /\ s.shape = "verse" /\ s.number = 1 => check'.surah # NotAsked /\ check'.surah.seeded = 0
      BY <1>6, <1>7, <1>10
    <3> QED
      BY <1>2, <1>3, <1>10, <3>2, <3>3 DEF ResultSound
  <2>5. /\ check.surah # NotAsked => check'.surah = check.surah
        /\ check.book # NotAsked => check'.book = check.book
    BY <1>7, <1>8, <1>10
  <2> QED
    BY <1>1, <1>10, <2>1, <2>2, <2>3, <2>4, <2>5, GateStepKeeps
<1>11. CASE ~ c.ok
  <2>1. check' = Result("FAIL", "NOT_COMPARED")
    BY <1>5, <1>11
  <2> QED
    BY <1>1, <1>10, <1>11, <2>1, ResultFields
<1>12. CASE c.ok /\ (IF c.kind = "quran" THEN c.surah # 1 ELSE c.book = "none")
  <2>1. check' = Result("UNVERIFIABLE", "NOT_COMPARED")
    BY <1>5, <1>12
  <2>2. /\ check' = [f \in DOMAIN NoCheck |-> check'[f]]
        /\ check'.phase = "source" /\ check'.todo \in Seq(Remedies)
        /\ check'.results = check.results \union {[remedy |-> Head(check.todo), status |-> "UNVERIFIABLE", text |-> "NOT_COMPARED"]}
        /\ check'.surah = check.surah /\ check'.book = check.book /\ check'.canonical = check.canonical /\ check'.exit = check.exit
    BY <1>1, <2>1, ResultFields
  <2>3. CASE c.kind = "quran"
    BY <1>10, <1>12, <2>2, <2>3
  <2>4. CASE c.kind # "quran"
    BY <1>10, <1>12, <2>2, <2>4
  <2> QED
    BY <2>3, <2>4
<1>13. CASE c.ok /\ c.kind = "quran" /\ c.surah = 1 /\ surah.seeded = 0
  <2>1. PICK x : x = Result("UNVERIFIABLE", "NOT_COMPARED")
    OBVIOUS
  <2>2. check' = [x EXCEPT !.surah = surah]
    BY <1>5, <1>13, <2>1
  <2>3. /\ x = [f \in DOMAIN NoCheck |-> x[f]]
        /\ x.phase = "source" /\ x.todo \in Seq(Remedies)
        /\ x.results = check.results \union {[remedy |-> Head(check.todo), status |-> "UNVERIFIABLE", text |-> "NOT_COMPARED"]}
        /\ x.book = check.book /\ x.canonical = check.canonical /\ x.exit = check.exit
    <3>1. check.todo # <<>>
      BY <1>1
    <3> QED
      BY <2>1, <3>1, ResultFields
  <2>4. /\ check' = [f \in DOMAIN NoCheck |-> check'[f]]
        /\ check'.phase = x.phase /\ check'.todo = x.todo /\ check'.results = x.results /\ check'.surah = surah
        /\ check'.book = x.book /\ check'.canonical = x.canonical /\ check'.exit = x.exit
    BY <2>2, <2>3, CheckFields
  <2> QED
    BY <1>10, <1>13, <2>3, <2>4
<1>14. CASE c.ok /\ c.kind = "quran" /\ c.surah = 1 /\ surah.seeded # 0
  <2>1. check' = [check EXCEPT !.surah = surah, !.phase = "rows"]
    BY <1>5, <1>14
  <2>2. /\ check' = [f \in DOMAIN NoCheck |-> check'[f]]
        /\ check'.phase = "rows" /\ check'.todo = check.todo /\ check'.results = check.results /\ check'.surah = surah
        /\ check'.book = check.book /\ check'.canonical = check.canonical /\ check'.exit = check.exit
    BY <1>1, <2>1, CheckFields
  <2> QED
    BY <1>9, <1>14, <2>2
<1>15. CASE c.ok /\ c.kind # "quran" /\ c.book # "none" /\ book.seeded = 0
  <2>1. PICK x : x = Result("UNVERIFIABLE", "NOT_COMPARED")
    OBVIOUS
  <2>2. check' = [x EXCEPT !.book = book]
    BY <1>5, <1>15, <2>1
  <2>3. /\ x = [f \in DOMAIN NoCheck |-> x[f]]
        /\ x.phase = "source" /\ x.todo \in Seq(Remedies)
        /\ x.results = check.results \union {[remedy |-> Head(check.todo), status |-> "UNVERIFIABLE", text |-> "NOT_COMPARED"]}
        /\ x.surah = check.surah /\ x.canonical = check.canonical /\ x.exit = check.exit
    <3>1. check.todo # <<>>
      BY <1>1
    <3> QED
      BY <2>1, <3>1, ResultFields
  <2>4. /\ check' = [f \in DOMAIN NoCheck |-> check'[f]]
        /\ check'.phase = x.phase /\ check'.todo = x.todo /\ check'.results = x.results /\ check'.book = book
        /\ check'.surah = x.surah /\ check'.canonical = x.canonical /\ check'.exit = x.exit
    BY <2>2, <2>3, CheckFields
  <2> QED
    BY <1>10, <1>15, <2>3, <2>4
<1>16. CASE c.ok /\ c.kind # "quran" /\ c.book # "none" /\ book.seeded # 0
  <2>1. check' = [check EXCEPT !.book = book, !.phase = "rows"]
    BY <1>5, <1>16
  <2>2. /\ check' = [f \in DOMAIN NoCheck |-> check'[f]]
        /\ check'.phase = "rows" /\ check'.todo = check.todo /\ check'.results = check.results /\ check'.surah = check.surah
        /\ check'.book = book /\ check'.canonical = check.canonical /\ check'.exit = check.exit
    BY <1>1, <2>1, CheckFields
  <2> QED
    BY <1>9, <1>16, <2>2
<1> QED
  BY <1>6, <1>11, <1>12, <1>13, <1>14, <1>15, <1>16

\* The verses that a source cites, all there, put together.
LEMMA VersesJoined ==
    ASSUME PassagesKnown, NEW from \in Nat, NEW to \in Nat, from >= 1, from <= to, from .. to \subseteq verses,
           NEW passage, passage = Join([i \in 1 .. to + 1 - from |-> VerseTexts[from + i - 1]])
    PROVE  passage = Join(SubSeq(VerseTexts, from, to)) /\ passage \in Seq(STRING)
<1>1. PICK texts : texts = [i \in 1 .. to + 1 - from |-> VerseTexts[from + i - 1]]
  OBVIOUS
<1>2. \A n \in from .. to : VerseTexts[n] \in Seq(STRING)
  BY TextsAre DEF PassagesKnown
<1>3. to + 1 - from \in Nat /\ from \in Int /\ to \in Int
  OBVIOUS
<1>4. \A i \in 1 .. to + 1 - from : from + i - 1 \in from .. to
  OBVIOUS
<1>5. texts \in Seq(Seq(STRING)) /\ Len(texts) = to + 1 - from /\ \A i \in 1 .. to + 1 - from : texts[i] = VerseTexts[from + i - 1]
  BY <1>1, <1>2, <1>3, <1>4
<1>6. PICK part : part = SubSeq(VerseTexts, from, to)
  OBVIOUS
<1>7. part \in Seq(Seq(STRING)) /\ Len(part) = to - from + 1 /\ \A i \in 1 .. to - from + 1 : part[i] = VerseTexts[from + i - 1]
  BY <1>2, <1>3, <1>6, SubSeqProperties
<1>8. texts = part
  <2>1. Len(texts) = Len(part) /\ to + 1 - from = to - from + 1
    BY <1>3, <1>5, <1>7
  <2>2. \A i \in 1 .. Len(texts) : texts[i] = part[i]
    BY <1>5, <1>7, <2>1
  <2> QED
    BY <1>5, <1>7, <2>1, <2>2, SeqEqual
<1> QED
  BY <1>1, <1>5, <1>6, <1>8, JoinType

\* The narration that readers mean by a number, if the numbers are on the rows.
LEMMA PrimaryIs ==
    ASSUME FeelingsInv, numbered = "filled", NEW n, NEW ready, ready # "no",
           NEW named, named = {p \in hadiths : CanonicalNumbers[p][1] = n}, named # {}
    PROVE  /\ PlaceOf(n, ready) # {}
           /\ \A p \in PlaceOf(n, ready) : /\ p \in named /\ p \in DOMAIN HadithTexts
                                           /\ \A q \in named : CanonicalNumbers[p][2] <= CanonicalNumbers[q][2]
<1>1. \A p \in hadiths : CanonicalOf(p) = CanonicalNumbers[p][1] /\ p \in DOMAIN HadithTexts /\ CanonicalNumbers[p][2] \in Nat
  BY TextsAre DEF CanonicalOf, FeelingsInv, PassagesKnown
<1>2. PICK suffixes : suffixes = {CanonicalNumbers[p][2] : p \in named}
  OBVIOUS
<1>3. suffixes \subseteq Nat /\ suffixes # {}
  BY <1>1, <1>2
<1>4. PICK least \in suffixes : \A x \in suffixes : least <= x
  BY <1>3, LeastNat
<1>5. PICK p \in named : CanonicalNumbers[p][2] = least
  BY <1>2, <1>4
<1>6. \A q \in named : CanonicalNumbers[p][2] <= CanonicalNumbers[q][2]
  BY <1>2, <1>4, <1>5
<1>7. p \in Primary(n)
  BY <1>1, <1>5, <1>6 DEF Primary
<1>8. PlaceOf(n, ready) = Primary(n)
  BY <1>7 DEF PlaceOf
<1>9. \A k \in Primary(n) : k \in named /\ k \in DOMAIN HadithTexts /\ \A q \in named : CanonicalNumbers[k][2] <= CanonicalNumbers[q][2]
  BY <1>1 DEF Primary
<1> QED
  BY <1>7, <1>8, <1>9

\* What CheckRows compares, and what it makes of it.
RowsAnswer(remedy, c, missing, passage, standing, compared) ==
    LET quran == c.kind = "quran"
        found(n) == IF quran THEN verses \intersect {n} ELSE PlaceOf(n, Ready)
    IN  /\ remedy = Head(check.todo) /\ c = ParseCitation(remedy.source)
        /\ missing = {n \in c.from .. c.to : found(n) = {}}
        /\ passage = Join([i \in 1 .. c.to + 1 - c.from |->
                            IF quran THEN VerseTexts[c.from + i - 1]
                            ELSE HadithTexts[CHOOSE p \in found(c.from + i - 1) : TRUE]])
        /\ standing = IF missing # {} THEN MissingStatus(missing, IF quran THEN check.surah ELSE check.book) ELSE "PASS"
        /\ compared = IF missing # {} THEN "NOT_COMPARED"
                      ELSE IF quran /\ c.claim /\ CompareText(remedy.text, passage) = "EXACT" THEN "MISMATCH"
                      ELSE CompareText(remedy.text, passage)

LEMMA RowsAre ==
    ASSUME CheckRows
    PROVE  \E remedy, c, missing, passage, standing, compared :
                /\ RowsAnswer(remedy, c, missing, passage, standing, compared)
                /\ check' = [Result(standing, compared) EXCEPT !.canonical = IF c.kind = "quran" THEN @ ELSE Ready]
<1> DEFINE remedy == Head(check.todo)
           c == ParseCitation(remedy.source)
           quran == c.kind = "quran"
           found(n) == IF quran THEN verses \intersect {n} ELSE PlaceOf(n, Ready)
           missing == {n \in c.from .. c.to : found(n) = {}}
           passage == Join([i \in 1 .. c.to + 1 - c.from |->
                            IF quran THEN VerseTexts[c.from + i - 1]
                            ELSE HadithTexts[CHOOSE p \in found(c.from + i - 1) : TRUE]])
           text == CompareText(remedy.text, passage)
           compared == IF quran /\ c.claim /\ text = "EXACT" THEN "MISMATCH" ELSE text
           standing == MissingStatus(missing, IF quran THEN check.surah ELSE check.book)
<1>1. check' = [IF missing # {} THEN Result(standing, "NOT_COMPARED") ELSE Result("PASS", compared)
                EXCEPT !.canonical = IF quran THEN @ ELSE Ready]
  BY Zenon DEF CheckRows
<1>2. CASE missing # {}
  <2>1. RowsAnswer(remedy, c, missing, passage, standing, "NOT_COMPARED")
    BY <1>2, Zenon DEF RowsAnswer
  <2>2. check' = [Result(standing, "NOT_COMPARED") EXCEPT !.canonical = IF c.kind = "quran" THEN @ ELSE Ready]
    <3> HIDE DEF missing, standing, compared
    <3> QED
      BY <1>1, <1>2
  <2> HIDE DEF remedy, c, missing, passage, standing
  <2> QED
    BY <2>1, <2>2
<1>3. CASE missing = {}
  <2>1. RowsAnswer(remedy, c, missing, passage, "PASS", compared)
    BY <1>3, Zenon DEF RowsAnswer
  <2>2. check' = [Result("PASS", compared) EXCEPT !.canonical = IF c.kind = "quran" THEN @ ELSE Ready]
    <3> HIDE DEF missing, standing, compared
    <3> QED
      BY <1>1, <1>3
  <2> HIDE DEF remedy, c, missing, passage, compared
  <2> QED
    BY <2>1, <2>2
<1> QED
  BY <1>2, <1>3

\* A remedy whose text is that of its rows is whole.
LEMMA PassIsWhole ==
    ASSUME FeelingsInv, check.phase = "rows", NEW remedy \in Remedies, NEW c, NEW missing, NEW passage, NEW compared,
           RowsAnswer(remedy, c, missing, passage, "PASS", compared), missing = {},
           compared \in {"EXACT", "EXACT_ORTHOGRAPHY"}
    PROVE  Whole(remedy)
<1>1. CompareText(remedy.text, passage) \in {"EXACT", "EXACT_ORTHOGRAPHY"}
  BY DEF RowsAnswer
<1>2. PICK s : s = remedy.source /\ c = ParseCitation(s)
  BY DEF RowsAnswer
<1>3. c.ok /\ IF c.kind = "quran" THEN c.surah = 1 ELSE check.book # NotAsked
  BY <1>2 DEF RowsAnswer, FeelingsInv, SourceChecked
<1>4. /\ s.from \in Nat /\ s.to \in Nat /\ remedy.text \in Seq(STRING) /\ c.from \in Nat /\ c.to \in Nat
      /\ c.from = s.from /\ c.to = LastOf(s) /\ c.from <= c.to /\ c.surah = s.number
      /\ IF s.shape = "verse" THEN c.kind = "quran" /\ c.from >= 1 ELSE c.kind = "hadith"
  BY <1>2, <1>3, ParsedIs
<1>5. CASE s.shape = "verse"
  <2>1. c.kind = "quran" /\ c.from >= 1 /\ s.number = 1
    BY <1>3, <1>4, <1>5
  <2>2. \A n \in c.from .. c.to : verses \intersect {n} # {}
    BY <2>1 DEF RowsAnswer
  <2>3. c.from .. c.to \subseteq verses
    BY <2>2
  <2>4. passage = Join([i \in 1 .. c.to + 1 - c.from |-> VerseTexts[c.from + i - 1]])
    BY <2>1 DEF RowsAnswer
  <2>5. passage = Join(SubSeq(VerseTexts, c.from, c.to)) /\ passage \in Seq(STRING)
    BY <1>4, <2>1, <2>3, <2>4, VersesJoined DEF FeelingsInv
  <2>6. Consonants(remedy.text) = Consonants(passage)
    BY <1>1, <1>4, <2>5, ComparedIsSame
  <2> QED
    BY <1>2, <1>4, <1>5, <2>1, <2>3, <2>5, <2>6 DEF Whole, LastOf
<1>6. CASE s.shape # "verse"
  <2> DEFINE named == {p \in hadiths : CanonicalNumbers[p][1] = s.from}
  <2>1. SUFFICES ASSUME arrived = 0, s.from = LastOf(s), numbered = "filled", named # {}
                 PROVE  \E p \in named : /\ \A q \in named : CanonicalNumbers[p][2] <= CanonicalNumbers[q][2]
                                         /\ Consonants(remedy.text) = Consonants(HadithTexts[p])
    BY <1>2, <1>6 DEF Whole, LastOf
  <2>2. c.kind # "quran" /\ c.to = c.from /\ c.from = s.from
    BY <1>4, <1>6, <2>1
  <2>3. Ready # "no"
    BY <2>1 DEF Ready, FeelingsInv, AskedThen
  <2>4. PICK p : p = CHOOSE k \in PlaceOf(c.from, Ready) : TRUE
    OBVIOUS
  <2>5. p \in named /\ p \in DOMAIN HadithTexts /\ \A q \in named : CanonicalNumbers[p][2] <= CanonicalNumbers[q][2]
    <3> HIDE DEF named
    <3>1. PICK others : others = named
      OBVIOUS
    <3>2. others = {k \in hadiths : CanonicalNumbers[k][1] = c.from} /\ others # {}
      BY <2>1, <2>2, <3>1 DEF named
    <3>3. PICK ready : ready = Ready /\ ready # "no"
      BY <2>3
    <3>4. PlaceOf(c.from, ready) # {} /\ \A k \in PlaceOf(c.from, ready) :
                /\ k \in others /\ k \in DOMAIN HadithTexts
                /\ \A q \in others : CanonicalNumbers[k][2] <= CanonicalNumbers[q][2]
      BY <2>1, <3>2, <3>3, PrimaryIs
    <3>5. p \in PlaceOf(c.from, ready)
      BY <2>4, <3>3, <3>4
    <3> QED
      BY <3>1, <3>4, <3>5
  <2>6. passage = HadithTexts[p]
    <3>1. PICK texts : texts = [i \in 1 .. c.to + 1 - c.from |->
                                    IF c.kind = "quran" THEN VerseTexts[c.from + i - 1]
                                    ELSE HadithTexts[CHOOSE k \in IF c.kind = "quran" THEN verses \intersect {c.from + i - 1}
                                                                  ELSE PlaceOf(c.from + i - 1, Ready) : TRUE]]
      OBVIOUS
    <3>2. passage = Join(texts)
      BY <3>1, Zenon DEF RowsAnswer
    <3>3. c.to + 1 - c.from = 1 /\ c.from + 1 - 1 = c.from
      BY <1>4, <2>2
    <3>4. texts = <<HadithTexts[p]>>
      <4>1. texts = [i \in 1 .. 1 |-> IF c.kind = "quran" THEN VerseTexts[c.from + i - 1]
                                    ELSE HadithTexts[CHOOSE k \in IF c.kind = "quran" THEN verses \intersect {c.from + i - 1}
                                                                  ELSE PlaceOf(c.from + i - 1, Ready) : TRUE]]
        BY <3>1, <3>3
      <4>2. texts[1] = HadithTexts[CHOOSE k \in PlaceOf(c.from + 1 - 1, Ready) : TRUE]
        BY <2>2, <4>1
      <4>3. texts[1] = HadithTexts[p]
        BY <2>4, <3>3, <4>2
      <4>4. texts = [i \in 1 .. 1 |-> texts[i]]
        BY <4>1
      <4> QED
        BY <4>3, <4>4
    <3>5. HadithTexts[p] \in Seq(STRING)
      BY <2>5, TextsAre
    <3> QED
      BY <3>2, <3>4, <3>5, JoinOne
  <2>7. Consonants(remedy.text) = Consonants(HadithTexts[p])
    <3>1. HadithTexts[p] \in Seq(STRING)
      BY <2>5, TextsAre
    <3> QED
      BY <1>1, <1>4, <2>6, <3>1, ComparedIsSame
  <2> QED
    BY <2>5, <2>7
<1> QED
  BY <1>5, <1>6

\* A number that fails is past the end of its surah, or of a book that is all there.
LEMMA MissingIsPast ==
    ASSUME FeelingsInv, check.phase = "rows", NEW remedy \in Remedies, NEW c, NEW missing, NEW passage, NEW standing, NEW compared,
           RowsAnswer(remedy, c, missing, passage, standing, compared), standing = "FAIL"
    PROVE  IF c.kind = "quran" THEN c.to > LastAyah
           ELSE c.to > Len(HadithTexts) \/ check.book.declared <= check.book.seeded
<1>1. PICK s : s = remedy.source /\ c = ParseCitation(s)
  BY DEF RowsAnswer
<1>2. c.ok /\ IF c.kind = "quran" THEN c.surah = 1 /\ check.surah # NotAsked ELSE check.book # NotAsked
  BY <1>1 DEF RowsAnswer, FeelingsInv, SourceChecked
<1>3. c.from \in Nat /\ c.to \in Nat /\ (c.kind = "quran" => c.from >= 1)
  BY <1>1, <1>2, ParsedIs
<1>4. missing # {} /\ missing \subseteq c.from .. c.to
  BY DEF RowsAnswer
<1>5. PICK info : info = IF c.kind = "quran" THEN check.surah ELSE check.book
  OBVIOUS
<1>6. MissingStatus(missing, info) = "FAIL"
  BY <1>4, <1>5 DEF RowsAnswer
<1>7. ~ (info.seeded < info.declared) \/ \E n \in missing : ~ (n <= info.declared)
  BY <1>6 DEF MissingStatus
<1>8. CASE c.kind = "quran"
  <2>1. info.declared = LastAyah /\ info.seeded \in Nat /\ info.seeded <= Cardinality(verses) /\ LastAyah \in Nat
    BY <1>2, <1>5, <1>8, TextsAre DEF FeelingsInv, AskedThen
  <2>2. CASE \E n \in missing : ~ (n <= info.declared)
    <3>1. PICK n \in missing : ~ (n <= info.declared)
      BY <2>2
    <3>2. n \in c.from .. c.to
      BY <1>4
    <3>3. n \in Int /\ n <= c.to
      BY <1>3, <3>2
    <3> QED
      BY <1>3, <1>8, <2>1, <3>1, <3>3
  <2>3. CASE ~ (info.seeded < info.declared)
    <3>1. Cardinality(verses) \in Nat /\ Cardinality(verses) <= LastAyah /\ (Cardinality(verses) = LastAyah => verses = 1 .. LastAyah)
      BY PassagesAreFinite DEF FeelingsInv
    <3>2. Cardinality(verses) = LastAyah
      BY <2>1, <2>3, <3>1
    <3>3. PICK n \in missing : n \in c.from .. c.to
      BY <1>4
    <3>4. n \notin verses
      <4>1. verses \intersect {n} = {}
        BY <1>8, <3>3 DEF RowsAnswer
      <4> QED
        BY <4>1
    <3> QED
      BY <1>3, <1>8, <2>1, <3>1, <3>2, <3>3, <3>4
  <2> QED
    BY <1>7, <1>8, <2>2, <2>3
<1>9. CASE c.kind # "quran"
  <2>1. info = check.book /\ info.seeded \in Nat /\ info.declared \in {Len(HadithTexts), info.seeded} /\ Len(HadithTexts) \in Nat
    BY <1>2, <1>5, <1>9, TextsAre DEF FeelingsInv, AskedThen
  <2>2. CASE ~ (info.seeded < info.declared)
    BY <1>9, <2>1, <2>2
  <2>3. CASE info.declared = Len(HadithTexts) /\ \E n \in missing : ~ (n <= info.declared)
    <3>1. PICK n \in missing : ~ (n <= Len(HadithTexts))
      BY <2>3
    <3>2. n \in c.from .. c.to
      BY <1>4
    <3>3. n \in Int /\ n <= c.to
      BY <1>3, <3>2
    <3> QED
      BY <1>3, <1>9, <2>1, <3>1, <3>3
  <2> QED
    BY <1>7, <1>9, <2>1, <2>2, <2>3
<1> QED
  BY <1>8, <1>9

\* A verse past the end of its surah fails.
LEMMA PastFails ==
    ASSUME FeelingsInv, check.phase = "rows", NEW remedy \in Remedies, NEW c, NEW missing, NEW passage, NEW standing, NEW compared,
           RowsAnswer(remedy, c, missing, passage, standing, compared), c.kind = "quran", c.to > LastAyah
    PROVE  standing = "FAIL"
<1>1. PICK s : s = remedy.source /\ c = ParseCitation(s)
  BY DEF RowsAnswer
<1>2. c.ok /\ check.surah # NotAsked
  BY <1>1 DEF RowsAnswer, FeelingsInv, SourceChecked
<1>3. c.from \in Nat /\ c.to \in Nat /\ c.from <= c.to
  BY <1>1, <1>2, ParsedIs
<1>4. check.surah.declared = LastAyah /\ LastAyah \in Nat
  BY <1>2, TextsAre DEF FeelingsInv, AskedThen
<1>5. c.to \in missing
  <2>1. c.to \notin verses
    BY <1>3, <1>4 DEF FeelingsInv, PassagesKnown
  <2>2. verses \intersect {c.to} = {} /\ c.to \in c.from .. c.to
    BY <1>3, <2>1
  <2> QED
    BY <2>2 DEF RowsAnswer
<1>6. MissingStatus(missing, check.surah) = "FAIL"
  <2>1. ~ (c.to <= check.surah.declared)
    BY <1>3, <1>4
  <2> QED
    BY <1>5, <2>1 DEF MissingStatus
<1> QED
  BY <1>5, <1>6 DEF RowsAnswer

LEMMA CheckRowsKeeps == ASSUME FeelingsInv, CheckRows PROVE FeelingsInv'
<1>1. /\ check = [f \in DOMAIN NoCheck |-> check[f]] /\ check.todo \in Seq(Remedies) /\ check.todo # <<>>
      /\ check.phase = "rows" /\ check.exit = 9 /\ UNCHANGED <<verses, hadiths, totalHadiths, numbered, arrived>>
  BY DEF FeelingsInv, PassagesKnown, SourceChecked, CheckRows
<1>2. PICK remedy, c, missing, passage, standing, compared :
            /\ RowsAnswer(remedy, c, missing, passage, standing, compared)
            /\ check' = [Result(standing, compared) EXCEPT !.canonical = IF c.kind = "quran" THEN @ ELSE Ready]
  BY RowsAre
<1>3. remedy \in Remedies /\ remedy = Head(check.todo) /\ c = ParseCitation(remedy.source)
  BY <1>1, <1>2, HeadTailProperties DEF RowsAnswer
<1>4. PICK s : s = remedy.source
  OBVIOUS
<1>5. PICK x, canonical : x = Result(standing, compared) /\ canonical = IF c.kind = "quran" THEN x.canonical ELSE Ready
  OBVIOUS
<1>6. /\ x = [f \in DOMAIN NoCheck |-> x[f]]
      /\ x.phase = "source" /\ x.todo \in Seq(Remedies)
      /\ x.results = check.results \union {[remedy |-> Head(check.todo), status |-> standing, text |-> compared]}
      /\ x.surah = check.surah /\ x.book = check.book /\ x.canonical = check.canonical /\ x.exit = check.exit
  BY <1>1, <1>5, ResultFields
<1>7. check' = [x EXCEPT !.canonical = canonical]
  BY <1>2, <1>5
<1>8. /\ check' = [f \in DOMAIN NoCheck |-> check'[f]]
      /\ check'.phase = "source" /\ check'.todo = x.todo /\ check'.results = x.results /\ check'.surah = check.surah
      /\ check'.book = check.book /\ check'.canonical = canonical /\ check'.exit = 9
  BY <1>1, <1>6, <1>7, CheckFields
<1>9. AskedThen'
  <2>1. arrived = 0 /\ numbered = "filled" => canonical # "no"
    BY <1>5, <1>6 DEF FeelingsInv, AskedThen, Ready
  <2> QED
    BY <1>1, <1>8, <2>1 DEF FeelingsInv, AskedThen
<1>10. SourceChecked'
  BY <1>8 DEF SourceChecked
<1>11. /\ c.ok /\ IF c.kind = "quran" THEN c.surah = 1 /\ check.surah # NotAsked ELSE check.book # NotAsked
       /\ IF s.shape = "verse" THEN c.kind = "quran" ELSE c.kind = "hadith"
  <2>1. c.ok /\ IF c.kind = "quran" THEN c.surah = 1 /\ check.surah # NotAsked ELSE check.book # NotAsked
    BY <1>1, <1>3 DEF FeelingsInv, SourceChecked
  <2> QED
    BY <1>3, <1>4, <2>1, ParsedIs
<1>12. ASSUME NEW r \in check'.results \ check.results PROVE ResultSound(r)'
  <2>1. r = [remedy |-> remedy, status |-> standing, text |-> compared]
    BY <1>3, <1>6, <1>8
  <2>2. r.remedy = remedy /\ r.status = standing /\ r.text = compared
    BY <2>1
  <2>3. standing = "FAIL" => IF s.shape = "verse" THEN c.to > LastAyah
                             ELSE c.to > Len(HadithTexts) \/ (check.book # NotAsked /\ check.book.declared <= check.book.seeded)
    BY <1>1, <1>2, <1>3, <1>11, MissingIsPast
  <2>4. standing # "FAIL" => ~ (s.shape = "verse" /\ c.to > LastAyah)
    BY <1>1, <1>2, <1>3, <1>11, PastFails
  <2>5. standing \in {"FAIL", "UNVERIFIABLE", "PASS"} /\ (standing = "PASS" => missing = {})
    BY <1>2 DEF RowsAnswer, MissingStatus
  <2>6. standing = "PASS" /\ compared \in {"EXACT", "EXACT_ORTHOGRAPHY"} => Whole(remedy)
    BY <1>1, <1>2, <1>3, <2>5, PassIsWhole
  <2>7. standing = "PASS" => compared # "NOT_COMPARED"
    <3>1. CompareText(remedy.text, passage) # "NOT_COMPARED"
      BY DEF CompareText
    <3> QED
      BY <1>2, <2>5, <3>1 DEF RowsAnswer
  <2>8. Whole(remedy)' <=> Whole(remedy)
    BY <1>1 DEF Whole
  <2> QED
    BY <1>3, <1>4, <1>8, <1>11, <2>2, <2>3, <2>4, <2>5, <2>6, <2>7, <2>8 DEF ResultSound
<1>13. check'.phase # "content" /\ check'.exit # 0
  BY <1>8
<1> QED
  BY <1>1, <1>6, <1>8, <1>9, <1>10, <1>12, <1>13, GateStepKeeps

LEMMA FeelingsInvNext == FeelingsInv /\ [FeelingsNext]_feelingsVars => FeelingsInv'
<1> SUFFICES ASSUME FeelingsInv, [FeelingsNext]_feelingsVars PROVE FeelingsInv'
  OBVIOUS
<1>1. CASE UNCHANGED feelingsVars
  <2>1. UNCHANGED <<verses, hadiths, totalHadiths, numbered, arrived, check>>
    BY <1>1 DEF feelingsVars
  <2>2. AskedThen' /\ SourceChecked' /\ PassagesKnown' /\ (NoneBad <=> NoneBad')
    BY <2>1 DEF FeelingsInv, AskedThen, SourceChecked, PassagesKnown, NoneBad
  <2>3. \A r \in check'.results : ResultSound(r)'
    BY <2>1, ResultStays
  <2> QED
    BY <2>1, <2>2, <2>3 DEF FeelingsInv
<1>2. CASE FeelingsNext
  BY <1>2, StartCheckKeeps, CheckFailsKeeps, CheckSourceKeeps, CheckRowsKeeps, ReportKeeps, SeedPassageKeeps, BackfillKeeps,
     ContentCheckedKeeps DEF FeelingsNext
<1> QED
  BY <1>1, <1>2

LEMMA FeelingsInvSound == FeelingsInv => FeelingsVerdictsSound
<1> SUFFICES ASSUME FeelingsInv, check.phase = "done", NEW r \in check.results, NEW s, s = r.remedy.source,
                    NEW c, c = ParseCitation(s)
             PROVE  /\ check.exit = 0 =>
                       /\ s.names = 1
                       /\ s.shape = "verse" /\ s.number = 1 /\ check.surah.seeded > 0 =>
                            (IF s.to = 0 THEN s.from ELSE s.to) <= LastAyah
                       /\ check.strict => Whole(r.remedy)
                    /\ r.status = "FAIL" /\ c.ok =>
                       IF s.shape = "verse" THEN c.to > LastAyah
                       ELSE \/ c.to > Len(HadithTexts)
                            \/ check.book.declared <= check.book.seeded
  BY DEF FeelingsVerdictsSound
<1>1. ResultSound(r) /\ r.remedy \in Remedies
  BY DEF FeelingsInv, ResultSound
<1>2. check.exit = 0 => r.status # "FAIL" /\ (check.strict => r.status = "PASS" /\ r.text \in {"EXACT", "EXACT_ORTHOGRAPHY"})
  BY DEF FeelingsInv, NoneBad
<1>3. c.ok => s.names = 1 /\ c.to = (IF s.to = 0 THEN s.from ELSE s.to) /\ c.to \in Nat
  BY <1>1, ParsedIs DEF LastOf
<1>4. LastAyah \in Nat
  BY TextsAre
<1>5. ASSUME check.exit = 0, s.shape = "verse", s.number = 1, check.surah.seeded > 0
      PROVE  (IF s.to = 0 THEN s.from ELSE s.to) <= LastAyah
  <2>1. c.ok
    BY <1>1, <1>2, <1>5 DEF ResultSound
  <2>2. ~ (c.to > LastAyah)
    BY <1>1, <1>2, <1>5, <2>1 DEF ResultSound
  <2> QED
    BY <1>3, <1>4, <2>1, <2>2
<1>6. check.exit = 0 => s.names = 1
  BY <1>1, <1>2, <1>3 DEF ResultSound
<1>7. check.exit = 0 /\ check.strict => Whole(r.remedy)
  BY <1>1, <1>2 DEF ResultSound
<1>8. r.status = "FAIL" /\ c.ok => IF s.shape = "verse" THEN c.to > LastAyah
                                   ELSE \/ c.to > Len(HadithTexts)
                                        \/ check.book.declared <= check.book.seeded
  BY <1>1 DEF ResultSound
<1> QED
  BY <1>5, <1>6, <1>7, <1>8
==============================================================================
