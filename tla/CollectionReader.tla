--------------------------- MODULE CollectionReader ---------------------------
(***************************************************************************)
(* GET a curated collection: collections.service.ts.  An item refers to     *)
(* content; the service reads the collection, its items, and then all the   *)
(* content they refer to, by batched queries for all items of a family, and *)
(* gives each item its own out of the batch.  The content is seeded         *)
(* meanwhile, between any two queries.                                      *)
(*                                                                          *)
(* A verse is of a surah or a chapter; number 0 is the row of the surah or  *)
(* the chapter itself, and chapter 0 that of the one Hindu text; 0 is also  *)
(* a null bound of a range.  Duas stand for what is found by a key: the     *)
(* names, the stotras and the hadiths (once their books are read, as the    *)
(* chapters are once their texts are) have only one key each.               *)
(***************************************************************************)
EXTENDS Naturals, FiniteSets

CONSTANTS
    Content,        \* everything there is to be seeded: verses, duas
    Refs,           \* the references an item of the collection may hold
    MaxItems

QuranRef(surah, start, end) == [family |-> "quran", of |-> surah, start |-> start, end |-> end]
HinduRef(chapter, start, end) == [family |-> "hindu", of |-> chapter, start |-> start, end |-> end]
DuaRef(slug, id) == [family |-> "dua", slug |-> slug, id |-> id]

Families == {"quran", "hindu", "dua"}

Verse(family, of, number) == [family |-> family, of |-> of, number |-> number]
Dua(slug, id) == [family |-> "dua", slug |-> slug, id |-> id]

\* The rows an answer shows above the verses of a surah or a chapter.
Heads(ref) ==
    CASE ref.family = "quran" -> {Verse("quran", ref.of, 0)}
      [] ref.family = "hindu" -> {Verse("hindu", 0, 0), Verse("hindu", ref.of, 0)}
      [] OTHER -> {}

ASSUME CollectionAssumption ==
    /\ Content \subseteq
            [family : {"quran", "hindu"}, of : Nat, number : Nat]
                \union [family : {"dua"}, slug : STRING, id : STRING]
    /\ Refs \subseteq
            [family : {"quran", "hindu"}, of : Nat \ {0}, start : Nat, end : Nat]
                \union [family : {"dua"}, slug : STRING, id : STRING]
    /\ MaxItems \in Nat

VARIABLES
    items,          \* collection_items of the collection
    status,         \* collections: reviewStatus, with isActive
    stored,         \* content that is seeded
    get,            \* the request: its phase, the items it read, the batch, the queries left
    before          \* ghost: the content stored when the queries began

collectionVars == <<items, status, stored, get, before>>

NoGet == [phase |-> "idle", status |-> "none", items |-> {}, batch |-> {}, unread |-> {}]

CollectionInit ==
    /\ items \in {set \in SUBSET Refs : Cardinality(set) <= MaxItems}
    /\ status \in {"draft", "reviewed"}
    /\ stored = {} /\ get = NoGet /\ before = {}

\* Foreign keys: a verse comes after its surah or chapter, that after its text.
Seed(c) ==
    /\ c \notin stored /\ Heads(c) \ {c} \subseteq stored
    /\ stored' = stored \union {c}
    /\ UNCHANGED <<items, status, get, before>>

\* A promotion, or a demotion, of the collection.
Review ==
    /\ status' \in {"draft", "reviewed"} \ {status}
    /\ UNCHANGED <<items, stored, get, before>>

-----------------------------------------------------------------------------
(* The queries of the families                                              *)

QueriesOf(family) ==
    CASE family = "quran" -> {"surahs", "verses"}
      [] family = "hindu" -> {"texts", "chapters", "chapter verses"}
      [] OTHER -> {"duas"}

\* The query that finds a row.
Query(c) ==
    CASE c.family = "dua" -> "duas"
      [] c.family = "quran" -> IF c.number = 0 THEN "surahs" ELSE "verses"
      [] OTHER -> IF c.number # 0 THEN "chapter verses" ELSE IF c.of = 0 THEN "texts" ELSE "chapters"

\* Those whose rows a query needs the ids of; the two of the quran are concurrent.
Awaits(query) ==
    CASE query = "chapters" -> {"texts"}
      [] query = "chapter verses" -> {"texts", "chapters"}
      [] OTHER -> {}

HeadsFirst(ref, query) == {h \in Heads(ref) : Query(h) \in Awaits(query)}

Within(c, ref, from, to) == c.of = ref.of /\ from <= c.number /\ c.number <= to

\* What the queries ask for, item by item.  Both ranges are whole when they have
\* no start, and end where they start when they have no end.
Asked(ref, c) ==
    /\ c.family = ref.family
    /\ IF ref.family = "dua"
       THEN c.slug = ref.slug \/ c.id = ref.id
       ELSE \/ c \in Heads(ref)
            \/ /\ c.number # 0 /\ c.of = ref.of
               /\ ref.start # 0 =>
                    Within(c, ref, ref.start, IF ref.end = 0 THEN ref.start ELSE ref.end)

-----------------------------------------------------------------------------
Servable == status = "reviewed"

\* Faulty variant: the slug alone finds the collection.
FindCollection_AnyStatus ==
    /\ get.phase = "idle"
    /\ get' = [get EXCEPT !.phase = "items", !.status = status]
    /\ UNCHANGED <<items, status, stored, before>>

\* A draft is not found, which is a 404.
FindCollection ==
    /\ get.phase = "idle" /\ Servable
    /\ get' = [get EXCEPT !.phase = "items", !.status = status]
    /\ UNCHANGED <<items, status, stored, before>>

ReadItems ==
    /\ get.phase = "items"
    /\ get' = [get EXCEPT !.phase = "load", !.items = items,
                          !.unread = UNION {QueriesOf(i.family) : i \in items}]
    /\ before' = stored
    /\ UNCHANGED <<items, status, stored>>

\* One query of loadQuran, loadHinduVerses or loadDuas: one OR of what the items
\* ask for, of those items whose text and chapter were found before.
LoadQuery(query) ==
    /\ get.phase = "load" /\ query \in get.unread /\ Awaits(query) \intersect get.unread = {}
    /\ get' = [get EXCEPT !.unread = @ \ {query},
                !.batch = @ \union {c \in stored : Query(c) = query /\
                    \E ref \in get.items : Asked(ref, c) /\ HeadsFirst(ref, query) \subseteq get.batch}]
    /\ UNCHANGED <<items, status, stored, before>>

Answer ==
    /\ get.phase = "load" /\ get.unread = {}
    /\ get' = [get EXCEPT !.phase = "answered"]
    /\ UNCHANGED <<items, status, stored, before>>

Again ==
    /\ get.phase = "answered"
    /\ get' = NoGet /\ before' = {}
    /\ UNCHANGED <<items, status, stored>>

CollectionNext ==
    \/ \E c \in Content : Seed(c)
    \/ Review \/ FindCollection \/ ReadItems \/ Answer \/ Again
    \/ \E family \in Families : \E query \in QueriesOf(family) : LoadQuery(query)

CollectionSpec == CollectionInit /\ [][CollectionNext]_collectionVars

-----------------------------------------------------------------------------
\* Faulty variant: the batch of the surah or chapter is the item's.
ContentFor_WholeBatch(ref, batch) ==
    IF ref.family = "dua"
    THEN {c \in batch : Asked(ref, c)}
    ELSE {c \in batch : c.family = ref.family /\ c.of = ref.of /\ c.number # 0}

\* An item's own verses, or its dua, out of the batch.  A surah without a start
\* is whole whatever its end says; a chapter then runs from verse 1.
OwnOf(ref, batch) ==
    CASE ref.family = "dua" ->
            LET bySlug == {c \in batch : c.family = "dua" /\ c.slug = ref.slug}
            IN  IF bySlug # {} THEN bySlug ELSE {c \in batch : c.family = "dua" /\ c.id = ref.id}
      [] ref.family = "quran" ->
            {c \in batch : c.family = "quran" /\ c.number # 0 /\ c.of = ref.of /\
                (ref.start # 0 =>
                    Within(c, ref, ref.start, IF ref.end = 0 THEN ref.start ELSE ref.end))}
      [] OTHER ->
            {c \in batch : c.family = "hindu" /\ c.number # 0 /\
                LET from == IF ref.start = 0 THEN 1 ELSE ref.start
                IN  Within(c, ref, from, IF ref.end # 0 THEN ref.end
                                         ELSE IF ref.start # 0 THEN ref.start
                                         ELSE c.number)}

\* contentFor: nothing while the row of the surah, the text or the chapter is
\* missing; the answer then says so (unresolved).
ContentFor(ref, batch) == IF Heads(ref) \subseteq batch THEN OwnOf(ref, batch) ELSE {}

\* The item as if it were alone in its collection.
Alone(ref, content) == ContentFor(ref, {c \in content : Asked(ref, c)})

\* Reading all items in batches gives each of them exactly what reading it by
\* itself at one moment of the request would, whatever else the collection holds
\* of the same surah, chapter or dua and whatever is seeded meanwhile.  And what
\* is served was not a draft when the request found it (collections.service.ts:58).
ItemsResolved ==
    get.phase = "answered" =>
        /\ get.status = "reviewed"
        /\ \A ref \in get.items : \E content \in SUBSET stored :
            /\ before \subseteq content
            /\ ContentFor(ref, get.batch) = Alone(ref, content)
=============================================================================
