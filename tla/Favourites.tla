------------------------------- MODULE Favourites -------------------------------
(***************************************************************************)
(* One user's favourites and bookmarks: of hadiths, duas, names, stotras,    *)
(* stories, temples, scripture verses and Quran verses.  The tables differ   *)
(* in whether an item is looked up before it is added, whether a row is       *)
(* unique, and whether a removal first finds its row.  Requests overlap, and *)
(* seed-hadiths.ts replaces every hadith by one with another id.             *)
(***************************************************************************)
EXTENDS Integers, FiniteSets

CONSTANTS
    HeartTables,    \* name -> [checked, unique, found, noted, replaced]
    Marked,         \* items at first
    Reborn,         \* what takes their place
    Notes,
    Hearts,         \* requests in flight
    MaxHearts       \* adds and removals

ASSUME FavouritesAssumption ==
    /\ Marked \intersect Reborn = {} /\ MaxHearts \in Nat
    /\ \A t \in DOMAIN HeartTables :
        HeartTables[t] \in [{"checked", "unique", "found", "noted", "replaced"} -> BOOLEAN]

VARIABLES
    table,      \* the table of this behaviour
    marks,      \* its rows: [id, item, note]
    catalogue,  \* the items there are
    heart,      \* request -> what it does
    wish,       \* item -> what its last request left, if nothing overlapped it
    lastId, heartRequests

favouriteVars == <<table, marks, catalogue, heart, wish, lastId, heartRequests>>

Idle == [op |-> "none", item |-> "none", row |-> 0, note |-> "none", blurred |-> FALSE]

Unsure == [rows |-> -1, note |-> "none"]
RowsOf(item) == {row \in marks : row.item = item}
Treats(trait) == HeartTables[table][trait]

-----------------------------------------------------------------------------
(* What a request begins and leaves.                                       *)

\* Another request about the same item is under way: neither knows its effect.
Contested(h, item) == \E g \in Hearts \ {h} : heart[g].op # "none" /\ heart[g].item = item

BeginHeart(h, op, item, row, note) ==
    /\ heart[h].op = "none" /\ heartRequests < MaxHearts /\ heartRequests' = heartRequests + 1
    /\ heart' = [g \in Hearts |->
            IF g = h THEN [Idle EXCEPT !.op = op, !.item = item, !.row = row, !.note = note,
                                       !.blurred = Contested(h, item)]
            ELSE [heart[g] EXCEPT !.blurred = @ \/ (heart[g].op # "none" /\ heart[g].item = item)]]

EndHeart(h, left) ==
    /\ heart' = [heart EXCEPT ![h] = Idle]
    /\ wish' = [wish EXCEPT ![heart[h].item] = IF heart[h].blurred THEN Unsure ELSE left]

RefuseHeart(h) == EndHeart(h, wish[heart[h].item])

\* What a user then counts on: a row or none, or one more or less; a mark that
\* is set again without a note keeps its own.
Count(h, unique, step) ==
    LET before == wish[heart[h].item]
        keeps == unique = 1 /\ heart[h].note = "none"
    IN  IF Treats("unique")
        THEN [rows |-> unique, note |-> IF keeps THEN before.note ELSE heart[h].note]
        ELSE IF before = Unsure THEN Unsure
        ELSE [rows |-> before.rows + step, note |-> heart[h].note]

-----------------------------------------------------------------------------
(* addFavorite, addBookmark.                                               *)

StartAdd(h, item, note) ==
    /\ Treats("noted") \/ note = "none"
    /\ BeginHeart(h, IF Treats("checked") THEN "find item" ELSE "add", item, 0, note)
    /\ UNCHANGED <<table, marks, catalogue, wish, lastId>>

\* An item that is not there is answered with 404.
FindMarked(h) ==
    /\ heart[h].op = "find item"
    /\ IF heart[h].item \in catalogue
       THEN heart' = [heart EXCEPT ![h].op = "add"] /\ UNCHANGED wish
       ELSE RefuseHeart(h)
    /\ UNCHANGED <<table, marks, catalogue, lastId, heartRequests>>

\* Faulty variant: the row is created without a look at the unique key.
AddMark_Creates(h) ==
    LET item == heart[h].item  note == heart[h].note
    IN  /\ heart[h].op = "add"
        /\ marks' = marks \union {[id |-> lastId + 1, item |-> item, note |-> note]}
        /\ lastId' = lastId + 1
        /\ EndHeart(h, Count(h, 1, 1))
        /\ UNCHANGED <<table, catalogue, heartRequests>>

\* An upsert on the unique key, or a row more where there is none.
AddMark(h) ==
    LET item == heart[h].item  note == heart[h].note
        upsert == Treats("unique") /\ RowsOf(item) # {}
        others == {row \in marks : row.item # item}
        updated == {IF note # "none" THEN [row EXCEPT !.note = note] ELSE row : row \in RowsOf(item)}
    IN  /\ heart[h].op = "add"
        /\ IF upsert
           THEN marks' = others \union updated /\ UNCHANGED lastId
           ELSE /\ marks' = marks \union {[id |-> lastId + 1, item |-> item, note |-> note]}
                /\ lastId' = lastId + 1
        /\ EndHeart(h, Count(h, 1, 1))
        /\ UNCHANGED <<table, catalogue, heartRequests>>

-----------------------------------------------------------------------------
(* removeFavorite, removeBookmark, deleteBookmark.                         *)

\* A row is named by its id where its item may have several.
StartRemove(h, item) ==
    /\ IF Treats("unique") THEN BeginHeart(h, IF Treats("found") THEN "find row" ELSE "remove", item, 0, "none")
       ELSE \E row \in RowsOf(item) : BeginHeart(h, "find row", item, row.id, "none")
    /\ UNCHANGED <<table, marks, catalogue, wish, lastId>>

Named(h) == {row \in RowsOf(heart[h].item) : Treats("unique") \/ row.id = heart[h].row}

\* A row that is not there is answered with 404.
FindRow(h) ==
    /\ heart[h].op = "find row"
    /\ IF Named(h) # {}
       THEN heart' = [heart EXCEPT ![h].op = "remove"] /\ UNCHANGED wish
       ELSE RefuseHeart(h)
    /\ UNCHANGED <<table, marks, catalogue, lastId, heartRequests>>

\* Faulty variant: what the user removes is every bookmark of the verse.
RemoveMark_OfItem(h) ==
    /\ heart[h].op = "remove"
    /\ marks' = marks \ RowsOf(heart[h].item)
    /\ IF Treats("found") /\ Named(h) = {} THEN RefuseHeart(h)
       ELSE EndHeart(h, Count(h, 0, -1))
    /\ UNCHANGED <<table, catalogue, lastId, heartRequests>>

\* deleteMany takes what there is; delete of a row that is gone is an error.
RemoveMark(h) ==
    /\ heart[h].op = "remove"
    /\ marks' = marks \ Named(h)
    /\ IF Treats("found") /\ Named(h) = {} THEN RefuseHeart(h)
       ELSE EndHeart(h, Count(h, 0, -1))
    /\ UNCHANGED <<table, catalogue, lastId, heartRequests>>

-----------------------------------------------------------------------------
(* getFavorites, getBookmarks, and the seed.                               *)

\* Faulty variant: rows are shown whether or not their item is still there.
Listed_Orphans == {row.item : row \in marks}

\* The ids first, then the items that have them.
Listed == {row.item : row \in marks} \intersect catalogue

\* deleteMany and createMany of seed-hadiths.ts.
Replace ==
    /\ Treats("replaced") /\ catalogue \in {Marked, {}}
    /\ catalogue' = IF catalogue = Marked THEN {} ELSE Reborn
    /\ UNCHANGED <<table, marks, heart, wish, lastId, heartRequests>>

FavouriteInit ==
    /\ table \in DOMAIN HeartTables
    /\ marks = {} /\ catalogue = Marked /\ lastId = 0 /\ heartRequests = 0
    /\ heart = [h \in Hearts |-> Idle]
    /\ wish = [item \in Marked \union Reborn |-> [rows |-> 0, note |-> "none"]]

FavouriteNext ==
    \/ \E h \in Hearts, item \in Marked \union Reborn :
        \/ \E note \in Notes \union {"none"} : StartAdd(h, item, note)
        \/ StartRemove(h, item)
    \/ \E h \in Hearts : FindMarked(h) \/ AddMark(h) \/ FindRow(h) \/ RemoveMark(h)
    \/ Replace

-----------------------------------------------------------------------------
\* However adds and removals overlap, an item has one row where the table says
\* so; after a request that nothing overlapped, the item has the rows and the
\* note that it left, so that pressing twice does no harm; and a list shows no
\* item that a seed has taken away (stotras.service.ts:97-101,
\* quran.service.ts:196-213, hadiths.service.ts:262-280).
FavouritesKept ==
    /\ Treats("unique") => \A item \in Marked \union Reborn : Cardinality(RowsOf(item)) <= 1
    /\ \A item \in Marked \union Reborn :
        wish[item] # Unsure /\ (\A h \in Hearts : heart[h].op # "none" => heart[h].item # item) =>
            /\ Cardinality(RowsOf(item)) = wish[item].rows
            /\ item \in Listed <=> wish[item].rows > 0 /\ item \in catalogue
            /\ Treats("noted") /\ wish[item].note # "none" =>
                    \E row \in RowsOf(item) : row.note = wish[item].note
=============================================================================
