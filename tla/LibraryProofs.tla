---------------------------- MODULE LibraryProofs ----------------------------
(***************************************************************************)
(* What users read of the content, and mark, for any number of requests at a *)
(* time and of changes of the lists: HeartInv is inductive for the           *)
(* favourites, ReadersInv for the readers, JuzInv for the juz; and what the   *)
(* calendars tell: HijriInv for the Hijri dates, SkyInv for the Hindu days.  *)
(***************************************************************************)
EXTENDS Readers, Favourites, JuzReader, HijriCalendar, PanchangDays, RequestProofs, SequenceTheorems

-----------------------------------------------------------------------------
(* Favourites                                                               *)

MarkItems == Marked \union Reborn
MarkNotes == Notes \union {"none"}
MarkRow == [id : Nat, item : MarkItems, note : MarkNotes]
HeartRow ==
    [op : {"none", "find item", "add", "find row", "remove"}, item : MarkItems \union {"none"},
     row : Nat, note : MarkNotes, blurred : BOOLEAN]
Wishes == [rows : Int, note : MarkNotes]

MarksTypeOK ==
    /\ table \in DOMAIN HeartTables
    /\ marks \subseteq MarkRow /\ IsFiniteSet(marks) /\ lastId \in Nat
    /\ heart \in [Hearts -> HeartRow] /\ wish \in [MarkItems -> Wishes]

\* Ids are those given so far; an item has one row where the table says so.
RowsApart ==
    /\ \A a \in marks : a.id <= lastId
    /\ \A a, b \in marks : a.id = b.id => a = b
    /\ Treats("unique") => \A a, b \in marks : a.item = b.item => a = b

\* Requests about one item at a time know of one another; one that removes a row
\* by its id, alone, finds it.
HeartsApart ==
    /\ \A g \in Hearts : heart[g].op # "none" => heart[g].item \in MarkItems
    /\ \A f, g \in Hearts :
        f # g /\ heart[f].op # "none" /\ heart[g].op # "none" /\ heart[f].item = heart[g].item =>
            heart[f].blurred
    /\ \A g \in Hearts : heart[g].op \in {"find row", "remove"} =>
        /\ heart[g].note = "none"
        /\ ~ Treats("unique") /\ ~ heart[g].blurred =>
            \E row \in marks : row.item = heart[g].item /\ row.id = heart[g].row

\* These are the rows of an item that was left so.
LeftOf(set, left) ==
    /\ Cardinality(set) = left.rows
    /\ Treats("noted") /\ left.note # "none" => \E row \in set : row.note = left.note

WishesKept ==
    \A it \in MarkItems :
        /\ wish[it] # Unsure
        /\ \A g \in Hearts : heart[g].op # "none" /\ heart[g].item = it => ~ heart[g].blurred
        => LeftOf(RowsOf(it), wish[it])

HeartInv == MarksTypeOK /\ RowsApart /\ HeartsApart /\ WishesKept

LEMMA IdleIs == Idle \in HeartRow /\ Idle.op = "none" /\ Unsure \in Wishes
BY DEF Idle, HeartRow, MarkNotes, Unsure, Wishes

LEMMA TraitsAre ==
    ASSUME MarksTypeOK
    PROVE  \A t \in {"checked", "unique", "found", "noted", "replaced"} : Treats(t) \in BOOLEAN
BY FavouritesAssumption DEF FavouritesAssumption, MarksTypeOK, Treats

\* The rows of an item, and how many they are.
LEMMA RowsFinite ==
    ASSUME IsFiniteSet(marks), NEW it
    PROVE  IsFiniteSet(RowsOf(it)) /\ Cardinality(RowsOf(it)) \in Nat
<1>1. RowsOf(it) \subseteq marks
  BY DEF RowsOf
<1>2. IsFiniteSet(RowsOf(it))
  BY <1>1, FS_Subset
<1> QED
  BY <1>2, FS_CardinalityType

LEMMA OneRow ==
    ASSUME NEW set, IsFiniteSet(set), \A a, b \in set : a = b
    PROVE  Cardinality(set) <= 1 /\ (set # {} => Cardinality(set) = 1)
<1>1. CASE set = {}
  BY <1>1, FS_EmptySet
<1>2. CASE set # {}
  <2>1. PICK a \in set : set = {a}
    BY <1>2
  <2> QED
    BY <2>1, FS_Singleton
<1> QED
  BY <1>1, <1>2

LEMMA HeartInvInit == FavouriteInit => HeartInv
<1> SUFFICES ASSUME FavouriteInit PROVE HeartInv
  OBVIOUS
<1>1. MarksTypeOK
  BY IdleIs, FS_EmptySet DEF FavouriteInit, MarksTypeOK, MarkItems, Wishes, MarkNotes
<1>2. RowsApart
  BY DEF FavouriteInit, RowsApart
<1>3. \A g \in Hearts : heart[g].op = "none"
  BY IdleIs DEF FavouriteInit
<1>4. HeartsApart
  BY <1>3 DEF HeartsApart
<1>5. WishesKept
  <2> SUFFICES ASSUME NEW it \in MarkItems PROVE LeftOf(RowsOf(it), wish[it])
    BY DEF WishesKept
  <2>1. RowsOf(it) = {} /\ wish[it].rows = 0 /\ wish[it].note = "none"
    BY DEF FavouriteInit, RowsOf, MarkItems
  <2> QED
    BY <2>1, FS_EmptySet DEF LeftOf
<1> QED
  BY <1>1, <1>2, <1>4, <1>5 DEF HeartInv

\* A request begins.
LEMMA HeartBegins ==
    ASSUME HeartInv, NEW h \in Hearts, NEW op \in {"find item", "add", "find row", "remove"},
           NEW item \in MarkItems, NEW id \in Nat, NEW note \in MarkNotes,
           BeginHeart(h, op, item, id, note), UNCHANGED <<table, marks, wish, lastId>>,
           op \in {"find row", "remove"} =>
                note = "none" /\ (Treats("unique") \/ \E row \in marks : row.item = item /\ row.id = id)
    PROVE  HeartInv'
<1> DEFINE begun == [Idle EXCEPT !.op = op, !.item = item, !.row = id, !.note = note, !.blurred = Contested(h, item)]
           other(g) == [heart[g] EXCEPT !.blurred = @ \/ (heart[g].op # "none" /\ heart[g].item = item)]
<1>1. /\ heart \in [Hearts -> HeartRow] /\ heart[h].op = "none"
      /\ heart' = [g \in Hearts |-> IF g = h THEN begun ELSE other(g)]
  BY DEF HeartInv, MarksTypeOK, BeginHeart
<1>2. Contested(h, item) \in BOOLEAN
  BY DEF Contested
<1>3. /\ begun \in HeartRow /\ begun.op = op /\ begun.item = item /\ begun.row = id /\ begun.note = note
      /\ begun.blurred = Contested(h, item)
  BY <1>2, IdleIs DEF HeartRow
<1>4. ASSUME NEW g \in Hearts
      PROVE  /\ other(g) \in HeartRow /\ other(g).op = heart[g].op /\ other(g).item = heart[g].item
             /\ other(g).row = heart[g].row /\ other(g).note = heart[g].note
             /\ other(g).blurred <=> heart[g].blurred \/ (heart[g].op # "none" /\ heart[g].item = item)
  <2>1. heart[g] \in HeartRow
    BY <1>1
  <2>2. (heart[g].blurred \/ (heart[g].op # "none" /\ heart[g].item = item)) \in BOOLEAN
    OBVIOUS
  <2> QED
    BY <2>1, <2>2 DEF HeartRow
<1>5. heart'[h] = begun /\ \A g \in Hearts : g # h => heart'[g] = other(g)
  BY <1>1
<1> HIDE DEF begun, other
<1>6. heart' \in [Hearts -> HeartRow]
  BY <1>1, <1>3, <1>4
<1>7. HeartRow' = HeartRow /\ Wishes' = Wishes /\ MarkItems' = MarkItems /\ MarkRow' = MarkRow
  BY DEF HeartRow, Wishes, MarkItems, MarkRow, MarkNotes
<1>8. MarksTypeOK' /\ RowsApart'
  BY <1>6, <1>7 DEF HeartInv, MarksTypeOK, RowsApart, Treats
<1>9. HeartsApart'
  <2>1. \A g \in Hearts : heart'[g].op # "none" => heart'[g].item \in MarkItems
    BY <1>3, <1>4, <1>5 DEF HeartInv, HeartsApart
  <2>2. ASSUME NEW f \in Hearts, NEW g \in Hearts, f # g, heart'[f].op # "none", heart'[g].op # "none",
               heart'[f].item = heart'[g].item
        PROVE  heart'[f].blurred
    <3>1. CASE f = h
      <4>1. heart[g].op # "none" /\ heart[g].item = item
        BY <1>3, <1>4, <1>5, <2>2, <3>1
      <4>2. Contested(h, item)
        BY <2>2, <3>1, <4>1 DEF Contested
      <4> QED
        BY <1>3, <1>5, <3>1, <4>2
    <3>2. CASE g = h
      <4>1. f # h /\ heart'[g].item = item
        BY <1>3, <1>5, <2>2, <3>2
      <4>2. heart[f].op # "none" /\ heart[f].item = item
        BY <1>4, <1>5, <2>2, <4>1
      <4>3. heart'[f] = other(f)
        BY <1>5, <4>1
      <4> QED
        BY <1>4, <4>2, <4>3
    <3>3. CASE f # h /\ g # h
      <4>1. heart[f].blurred
        <5>1. /\ heart[f].op # "none" /\ heart[g].op # "none" /\ heart[f].item = heart[g].item
          BY <1>4, <1>5, <2>2, <3>3
        <5> QED
          BY <2>2, <5>1 DEF HeartInv, HeartsApart
      <4> QED
        BY <1>4, <1>5, <3>3, <4>1
    <3> QED
      BY <3>1, <3>2, <3>3
  <2>3. ASSUME NEW g \in Hearts, heart'[g].op \in {"find row", "remove"}
        PROVE  /\ heart'[g].note = "none"
               /\ ~ Treats("unique") /\ ~ heart'[g].blurred =>
                    \E row \in marks : row.item = heart'[g].item /\ row.id = heart'[g].row
    <3>1. CASE g = h
      BY <1>3, <1>5, <2>3, <3>1
    <3>2. CASE g # h
      <4>1. heart'[g] = other(g)
        BY <1>5, <3>2
      <4>2. /\ heart[g].op \in {"find row", "remove"}
            /\ heart'[g].item = heart[g].item /\ heart'[g].row = heart[g].row
            /\ heart'[g].note = heart[g].note
        BY <1>4, <2>3, <4>1
      <4>3. /\ heart[g].note = "none"
            /\ ~ Treats("unique") /\ ~ heart[g].blurred =>
                  \E row \in marks : row.item = heart[g].item /\ row.id = heart[g].row
        BY <4>2 DEF HeartInv, HeartsApart
      <4>4. ~ heart'[g].blurred => ~ heart[g].blurred
        BY <1>4, <4>1
      <4> QED
        BY <4>2, <4>3, <4>4
    <3> QED
      BY <3>1, <3>2
  <2> QED
    BY <1>7, <2>1, <2>2, <2>3 DEF HeartsApart, Treats
<1>10. WishesKept'
  <2> SUFFICES ASSUME NEW it \in MarkItems, wish[it] # Unsure,
                      \A g \in Hearts : heart'[g].op # "none" /\ heart'[g].item = it => ~ heart'[g].blurred
               PROVE  LeftOf(RowsOf(it), wish[it])
    <3>1. (\A any \in MarkItems : RowsOf(any)' = RowsOf(any)) /\ Unsure' = Unsure
      BY DEF RowsOf, Unsure
    <3> QED
      BY <1>7, <3>1 DEF WishesKept, LeftOf, Treats
  <2>1. \A g \in Hearts : heart[g].op # "none" /\ heart[g].item = it => ~ heart[g].blurred
    BY <1>1, <1>4, <1>5
  <2> QED
    BY <2>1 DEF HeartInv, WishesKept
<1> QED
  BY <1>8, <1>9, <1>10 DEF HeartInv

\* A request goes on to its next step.
LEMMA HeartGoesOn ==
    ASSUME HeartInv, NEW h \in Hearts, NEW op,
           (heart[h].op = "find item" /\ op = "add") \/ (heart[h].op = "find row" /\ op = "remove"),
           heart' = [heart EXCEPT ![h].op = op], UNCHANGED <<table, marks, wish, lastId>>
    PROVE  HeartInv'
<1>1. heart \in [Hearts -> HeartRow]
  BY DEF HeartInv, MarksTypeOK
<1>2. /\ heart' \in [Hearts -> HeartRow]
      /\ heart'[h].op = op
      /\ \A g \in Hearts : /\ heart'[g].item = heart[g].item /\ heart'[g].row = heart[g].row
                           /\ heart'[g].note = heart[g].note /\ heart'[g].blurred = heart[g].blurred
                           /\ g # h => heart'[g].op = heart[g].op
  BY <1>1 DEF HeartRow
<1>3. \A g \in Hearts : /\ heart'[g].op # "none" <=> heart[g].op # "none"
                        /\ heart'[g].op \in {"find row", "remove"} <=> heart[g].op \in {"find row", "remove"}
  BY <1>2
<1>4. HeartRow' = HeartRow /\ Wishes' = Wishes /\ MarkItems' = MarkItems /\ MarkRow' = MarkRow
  BY DEF HeartRow, Wishes, MarkItems, MarkRow, MarkNotes
<1>5. MarksTypeOK' /\ RowsApart'
  BY <1>2, <1>4 DEF HeartInv, MarksTypeOK, RowsApart, Treats
<1>6. HeartsApart'
  <2>1. \A g \in Hearts : heart'[g].op # "none" => heart'[g].item \in MarkItems
    BY <1>2, <1>3 DEF HeartInv, HeartsApart
  <2>2. ASSUME NEW f \in Hearts, NEW g \in Hearts, f # g, heart'[f].op # "none", heart'[g].op # "none",
               heart'[f].item = heart'[g].item
        PROVE  heart'[f].blurred
    <3>1. heart[f].op # "none" /\ heart[g].op # "none" /\ heart[f].item = heart[g].item
      BY <1>2, <1>3, <2>2
    <3>2. heart[f].blurred
      BY <2>2, <3>1 DEF HeartInv, HeartsApart
    <3> QED
      BY <1>2, <3>2
  <2>3. ASSUME NEW g \in Hearts, heart'[g].op \in {"find row", "remove"}
        PROVE  /\ heart'[g].note = "none"
               /\ ~ Treats("unique") /\ ~ heart'[g].blurred =>
                    \E row \in marks : row.item = heart'[g].item /\ row.id = heart'[g].row
    <3>1. heart[g].op \in {"find row", "remove"}
      BY <1>3, <2>3
    <3>2. /\ heart[g].note = "none"
          /\ ~ Treats("unique") /\ ~ heart[g].blurred =>
                \E row \in marks : row.item = heart[g].item /\ row.id = heart[g].row
      BY <3>1 DEF HeartInv, HeartsApart
    <3>3. /\ heart'[g].item = heart[g].item /\ heart'[g].row = heart[g].row
          /\ heart'[g].note = heart[g].note /\ heart'[g].blurred = heart[g].blurred
      BY <1>2
    <3> QED
      BY <3>2, <3>3
  <2>4. Treats("unique")' = Treats("unique")
    BY DEF Treats
  <2> QED
    BY <1>4, <2>1, <2>2, <2>3, <2>4 DEF HeartsApart
<1>7. WishesKept'
  <2> SUFFICES ASSUME NEW it \in MarkItems, wish[it] # Unsure,
                      \A g \in Hearts : heart'[g].op # "none" /\ heart'[g].item = it => ~ heart'[g].blurred
               PROVE  LeftOf(RowsOf(it), wish[it])
    <3>1. (\A any \in MarkItems : RowsOf(any)' = RowsOf(any)) /\ Unsure' = Unsure
      BY DEF RowsOf, Unsure
    <3> QED
      BY <1>4, <3>1 DEF WishesKept, LeftOf, Treats
  <2>1. \A g \in Hearts : heart[g].op # "none" /\ heart[g].item = it => ~ heart[g].blurred
    <3>1. TAKE g \in Hearts
    <3>2. heart'[g].item = heart[g].item /\ heart'[g].blurred = heart[g].blurred
      BY <1>2
    <3>3. heart'[g].op # "none" <=> heart[g].op # "none"
      BY <1>3
    <3> QED
      BY <3>2, <3>3
  <2> QED
    BY <2>1 DEF HeartInv, WishesKept
<1> QED
  BY <1>5, <1>6, <1>7 DEF HeartInv

\* A request ends, and leaves its item as it says, unless another knows better.
LEMMA HeartEnds ==
    ASSUME HeartInv, NEW h \in Hearts, heart[h].op # "none", NEW left \in Wishes, EndHeart(h, left),
           NEW mine, mine = heart[h].item,
           UNCHANGED table, marks' \subseteq MarkRow, IsFiniteSet(marks'), lastId' \in Nat, RowsApart',
           \A it \in MarkItems \ {mine} : RowsOf(it)' = RowsOf(it),
           ~ heart[h].blurred /\ left # Unsure => LeftOf(RowsOf(mine)', left)
    PROVE  HeartInv'
<1>1. heart \in [Hearts -> HeartRow] /\ wish \in [MarkItems -> Wishes] /\ mine \in MarkItems
  BY DEF HeartInv, MarksTypeOK, HeartsApart
<1>2. /\ heart' = [heart EXCEPT ![h] = Idle]
      /\ wish' = [wish EXCEPT ![mine] = IF heart[h].blurred THEN Unsure ELSE left]
  BY DEF EndHeart
<1>3. HeartRow' = HeartRow /\ Wishes' = Wishes /\ MarkItems' = MarkItems /\ MarkRow' = MarkRow /\ Unsure' = Unsure
  BY DEF HeartRow, Wishes, MarkItems, MarkRow, MarkNotes, Unsure
<1>4. heart' \in [Hearts -> HeartRow] /\ wish' \in [MarkItems -> Wishes]
  BY <1>1, <1>2, IdleIs
<1>5. MarksTypeOK'
  BY <1>3, <1>4 DEF HeartInv, MarksTypeOK
<1>6. heart'[h].op = "none" /\ \A g \in Hearts : g # h => heart'[g] = heart[g]
  BY <1>1, <1>2, IdleIs
<1>7. \A t : Treats(t)' = Treats(t)
  BY DEF Treats
<1>8. HeartsApart'
  <2>1. ASSUME NEW g \in Hearts, heart'[g].op # "none" PROVE heart'[g].item \in MarkItems
    BY <1>6, <2>1 DEF HeartInv, HeartsApart
  <2>2. ASSUME NEW f \in Hearts, NEW g \in Hearts, f # g, heart'[f].op # "none", heart'[g].op # "none",
               heart'[f].item = heart'[g].item
        PROVE  heart'[f].blurred
    <3>1. f # h /\ g # h
      BY <1>6, <2>2
    <3>2. heart'[f] = heart[f] /\ heart'[g] = heart[g]
      BY <1>6, <3>1
    <3> QED
      BY <2>2, <3>2 DEF HeartInv, HeartsApart
  <2>3. ASSUME NEW g \in Hearts, heart'[g].op \in {"find row", "remove"}
        PROVE  /\ heart'[g].note = "none"
               /\ ~ Treats("unique") /\ ~ heart'[g].blurred =>
                    \E row \in marks' : row.item = heart'[g].item /\ row.id = heart'[g].row
    <3>1. g # h /\ heart'[g] = heart[g]
      BY <1>6, <2>3
    <3>2. /\ heart[g].note = "none"
          /\ ~ Treats("unique") /\ ~ heart[g].blurred =>
                \E row \in marks : row.item = heart[g].item /\ row.id = heart[g].row
      BY <2>3, <3>1 DEF HeartInv, HeartsApart
    <3>3. ASSUME ~ Treats("unique"), ~ heart[g].blurred
          PROVE  \E row \in marks' : row.item = heart[g].item /\ row.id = heart[g].row
      <4>1. PICK row \in marks : row.item = heart[g].item /\ row.id = heart[g].row
        BY <3>2, <3>3
      <4>2. PICK it : it = heart[g].item
        OBVIOUS
      <4>3. it # mine /\ it \in MarkItems
        BY <2>3, <3>1, <3>3, <4>2 DEF HeartInv, HeartsApart
      <4>4. row \in RowsOf(it)
        BY <4>1, <4>2 DEF RowsOf
      <4>5. row \in RowsOf(it)'
        BY <4>3, <4>4
      <4> QED
        BY <4>1, <4>2, <4>5 DEF RowsOf
    <3> QED
      BY <3>1, <3>2, <3>3
  <2>4. \A g \in Hearts : heart'[g].op # "none" => heart'[g].item \in MarkItems
    BY <2>1
  <2>5. \A f, g \in Hearts :
            f # g /\ heart'[f].op # "none" /\ heart'[g].op # "none" /\ heart'[f].item = heart'[g].item =>
                heart'[f].blurred
    BY <2>2
  <2>6. \A g \in Hearts : heart'[g].op \in {"find row", "remove"} =>
            /\ heart'[g].note = "none"
            /\ ~ Treats("unique") /\ ~ heart'[g].blurred =>
                \E row \in marks' : row.item = heart'[g].item /\ row.id = heart'[g].row
    BY <2>3
  <2> QED
    BY <1>3, <1>7, <2>4, <2>5, <2>6 DEF HeartsApart
<1>9. WishesKept'
  <2> SUFFICES ASSUME NEW it \in MarkItems, wish'[it] # Unsure,
                      \A g \in Hearts : heart'[g].op # "none" /\ heart'[g].item = it => ~ heart'[g].blurred
               PROVE  LeftOf(RowsOf(it)', wish'[it])
    BY <1>3, <1>7 DEF WishesKept, LeftOf
  <2>1. CASE it = mine
    <3>1. wish'[it] = IF heart[h].blurred THEN Unsure ELSE left
      BY <1>1, <1>2, <2>1
    <3>2. ~ heart[h].blurred /\ wish'[it] = left /\ left # Unsure
      BY <3>1
    <3>3. LeftOf(RowsOf(mine)', left)
      BY <3>2
    <3> QED
      BY <2>1, <3>2, <3>3
  <2>2. CASE it # mine
    <3>1. wish'[it] = wish[it] /\ RowsOf(it)' = RowsOf(it)
      BY <1>1, <1>2, <2>2
    <3>2. ASSUME NEW g \in Hearts, heart[g].op # "none", heart[g].item = it PROVE ~ heart[g].blurred
      <4>1. g # h
        BY <2>2, <3>2
      <4> QED
        BY <1>6, <3>2, <4>1
    <3> QED
      BY <3>1, <3>2 DEF HeartInv, WishesKept
  <2> QED
    BY <2>1, <2>2
<1> QED
  BY <1>5, <1>8, <1>9 DEF HeartInv

\* A request that nothing overlapped found its item as it was left.
LEMMA AloneKnows ==
    ASSUME HeartInv, NEW h \in Hearts, heart[h].op # "none", ~ heart[h].blurred, wish[heart[h].item] # Unsure
    PROVE  LeftOf(RowsOf(heart[h].item), wish[heart[h].item])
<1>1. \A g \in Hearts : heart[g].op # "none" /\ heart[g].item = heart[h].item => ~ heart[g].blurred
  BY DEF HeartInv, HeartsApart
<1>2. heart[h].item \in MarkItems
  BY DEF HeartInv, HeartsApart
<1> QED
  BY <1>1, <1>2 DEF HeartInv, WishesKept

\* A request is refused.
LEMMA HeartRefused ==
    ASSUME HeartInv, NEW h \in Hearts, heart[h].op # "none", RefuseHeart(h), UNCHANGED <<table, marks, lastId>>
    PROVE  HeartInv'
<1>1. PICK mine : mine = heart[h].item
  OBVIOUS
<1>2. PICK left : left = wish[mine]
  OBVIOUS
<1>3. EndHeart(h, left) /\ left \in Wishes
  BY <1>1, <1>2 DEF RefuseHeart, HeartInv, MarksTypeOK, HeartsApart
<1>4. marks' \subseteq MarkRow /\ IsFiniteSet(marks') /\ lastId' \in Nat
  BY DEF HeartInv, MarksTypeOK
<1>5. RowsApart'
  BY DEF HeartInv, RowsApart, Treats
<1>6. \A it : RowsOf(it)' = RowsOf(it)
  BY DEF RowsOf
<1>7. ~ heart[h].blurred /\ left # Unsure => LeftOf(RowsOf(mine)', left)
  BY <1>1, <1>2, <1>6, AloneKnows
<1> QED
  BY <1>1, <1>3, <1>4, <1>5, <1>6, <1>7, HeartEnds

\* What a request counts on is of the right type.
LEMMA CountIs ==
    ASSUME HeartInv, NEW h \in Hearts, heart[h].op # "none", NEW one \in {0, 1}, NEW by \in Int
    PROVE  Count(h, one, by) \in Wishes
<1>1. heart[h].note \in MarkNotes /\ wish[heart[h].item] \in Wishes
  BY DEF HeartInv, MarksTypeOK, HeartsApart, HeartRow
<1> QED
  BY <1>1, IdleIs DEF Count, Wishes

LEMMA AddMarkKeeps ==
    ASSUME HeartInv, NEW h \in Hearts, AddMark(h)
    PROVE  HeartInv'
<1> SUFFICES ASSUME NEW mine, mine = heart[h].item, NEW note, note = heart[h].note PROVE HeartInv'
  OBVIOUS
<1> DEFINE new == [id |-> lastId + 1, item |-> mine, note |-> note]
           others == {row \in marks : row.item # mine}
           renew(row) == IF note # "none" THEN [row EXCEPT !.note = note] ELSE row
           updated == {renew(row) : row \in RowsOf(mine)}
           was == wish[mine]
<1>1. /\ mine \in MarkItems /\ note \in MarkNotes /\ lastId \in Nat /\ marks \subseteq MarkRow /\ IsFiniteSet(marks)
      /\ heart[h].op = "add" /\ RowsApart /\ was \in Wishes
  BY DEF HeartInv, MarksTypeOK, HeartsApart, HeartRow, AddMark
<1>2. EndHeart(h, Count(h, 1, 1)) /\ UNCHANGED table
  BY DEF AddMark
<1>3. Count(h, 1, 1) \in Wishes
  BY <1>1, CountIs
<1>4. \A t : Treats(t)' = Treats(t)
  BY <1>2 DEF Treats
<1>5. IsFiniteSet(RowsOf(mine)) /\ Cardinality(RowsOf(mine)) \in Nat
  BY <1>1, RowsFinite
<1>6. Treats("unique") \in BOOLEAN /\ Treats("noted") \in BOOLEAN
  BY TraitsAre DEF HeartInv
<1>7. CASE Treats("unique") /\ RowsOf(mine) # {}
  <2>1. marks' = others \union updated /\ lastId' = lastId
    BY <1>7 DEF AddMark
  <2>2. PICK old \in marks : old.item = mine /\ RowsOf(mine) = {old}
    BY <1>1, <1>7 DEF RowsOf, RowsApart
  <2>3. updated = {renew(old)}
    BY <2>2
  <2>4. /\ old \in MarkRow /\ renew(old) \in MarkRow /\ renew(old).id = old.id /\ renew(old).item = mine
        /\ renew(old).note = IF note # "none" THEN note ELSE old.note
    BY <1>1, <2>2 DEF MarkRow
  <2> HIDE DEF renew, updated
  <2>5. marks' \subseteq MarkRow
    BY <1>1, <2>1, <2>3, <2>4
  <2>6. IsFiniteSet(marks')
    <3>1. IsFiniteSet(others)
      BY <1>1, FS_Subset
    <3>2. marks' = others \union {renew(old)}
      BY <2>1, <2>3
    <3> QED
      BY <3>1, <3>2, FS_AddElement
  <2>7. \A a \in marks' : a = renew(old) \/ a \in others
    BY <2>1, <2>3
  <2>8. RowsApart'
    <3>1. \A a \in others : a \in marks /\ a.item # mine /\ a.id # old.id
      BY <1>1, <2>2 DEF RowsApart
    <3>2. \A a \in marks' : a.id <= lastId'
      BY <1>1, <2>1, <2>2, <2>4, <2>7 DEF RowsApart
    <3>3. \A a, b \in marks' : a.id = b.id => a = b
      BY <1>1, <2>4, <2>7, <3>1 DEF RowsApart
    <3>4. \A a, b \in marks' : a.item = b.item => a = b
      BY <1>1, <1>7, <2>4, <2>7, <3>1 DEF RowsApart
    <3> QED
      BY <3>2, <3>3, <3>4 DEF RowsApart
  <2>9. \A it \in MarkItems \ {mine} : RowsOf(it)' = RowsOf(it)
    BY <2>1, <2>3, <2>4 DEF RowsOf
  <2>10. RowsOf(mine)' = {renew(old)}
    BY <2>1, <2>3, <2>4 DEF RowsOf
  <2>11. ASSUME ~ heart[h].blurred PROVE LeftOf(RowsOf(mine)', Count(h, 1, 1))
    <3>1. Count(h, 1, 1).rows = 1 /\ Count(h, 1, 1).note = IF note = "none" THEN was.note ELSE note
      BY <1>7 DEF Count
    <3>2. Cardinality(RowsOf(mine)') = 1
      BY <2>10, FS_Singleton
    <3>3. ASSUME Treats("noted"), Count(h, 1, 1).note # "none" PROVE renew(old).note = Count(h, 1, 1).note
      <4>1. CASE note # "none"
        BY <2>4, <3>1, <4>1
      <4>2. CASE note = "none"
        <5>1. was # Unsure /\ was.note # "none"
          BY <3>1, <3>3, <4>2 DEF Unsure
        <5>2. LeftOf(RowsOf(mine), was)
          BY <1>1, <2>11, <5>1, AloneKnows
        <5>3. old.note = was.note
          BY <2>2, <3>3, <5>1, <5>2 DEF LeftOf
        <5> QED
          BY <2>4, <3>1, <4>2, <5>3
      <4> QED
        BY <4>1, <4>2
    <3> QED
      BY <2>10, <3>1, <3>2, <3>3 DEF LeftOf
  <2> QED
    BY <1>1, <1>2, <1>3, <2>1, <2>5, <2>6, <2>8, <2>9, <2>11, HeartEnds
<1>8. CASE ~ (Treats("unique") /\ RowsOf(mine) # {})
  <2>1. marks' = marks \union {new} /\ lastId' = lastId + 1
    BY <1>8 DEF AddMark
  <2>2. new \in MarkRow /\ new.id = lastId + 1 /\ new.item = mine /\ new.note = note
    BY <1>1 DEF MarkRow
  <2> HIDE DEF new
  <2>3. marks' \subseteq MarkRow /\ IsFiniteSet(marks') /\ lastId' \in Nat
    BY <1>1, <2>1, <2>2, FS_AddElement
  <2>4. \A a \in marks : a.id \in Nat /\ a.id <= lastId
    BY <1>1 DEF RowsApart, MarkRow
  <2>5. new \notin marks /\ \A a \in marks : a.id # new.id
    BY <1>1, <2>2, <2>4
  <2>6. RowsApart'
    <3>1. \A a \in marks' : a.id <= lastId'
      BY <1>1, <2>1, <2>2, <2>4
    <3>2. \A a, b \in marks' : a.id = b.id => a = b
      BY <1>1, <2>1, <2>5 DEF RowsApart
    <3>3. Treats("unique") => \A a, b \in marks' : a.item = b.item => a = b
      BY <1>1, <1>8, <2>1, <2>2 DEF RowsApart, RowsOf
    <3> QED
      BY <1>4, <3>1, <3>2, <3>3 DEF RowsApart
  <2>7. \A it \in MarkItems \ {mine} : RowsOf(it)' = RowsOf(it)
    BY <2>1, <2>2 DEF RowsOf
  <2>8. RowsOf(mine)' = RowsOf(mine) \union {new} /\ new \notin RowsOf(mine)
    BY <2>1, <2>2, <2>5 DEF RowsOf
  <2>9. Cardinality(RowsOf(mine)') = Cardinality(RowsOf(mine)) + 1
    BY <1>5, <2>8, FS_AddElement
  <2>10. ASSUME ~ heart[h].blurred, Count(h, 1, 1) # Unsure PROVE LeftOf(RowsOf(mine)', Count(h, 1, 1))
    <3>1. CASE Treats("unique")
      <4>1. RowsOf(mine) = {} /\ Cardinality(RowsOf(mine)) = 0
        BY <1>8, <3>1, FS_EmptySet
      <4>2. Count(h, 1, 1).rows = 1 /\ Count(h, 1, 1).note = IF note = "none" THEN was.note ELSE note
        BY <3>1 DEF Count
      <4>3. Treats("noted") /\ Count(h, 1, 1).note # "none" => new.note = Count(h, 1, 1).note
        <5>1. CASE note = "none" /\ was.note # "none" /\ Treats("noted")
          <6>1. was # Unsure
            BY <5>1 DEF Unsure
          <6>2. LeftOf(RowsOf(mine), was)
            BY <1>1, <2>10, <6>1, AloneKnows
          <6> QED
            BY <4>1, <5>1, <6>2 DEF LeftOf
        <5> QED
          BY <2>2, <4>2, <5>1
      <4> QED
        BY <2>8, <2>9, <4>1, <4>2, <4>3 DEF LeftOf
    <3>2. CASE ~ Treats("unique")
      <4>1. was # Unsure /\ Count(h, 1, 1) = [rows |-> was.rows + 1, note |-> note]
        BY <2>10, <3>2 DEF Count
      <4>2. LeftOf(RowsOf(mine), was)
        BY <1>1, <2>10, <4>1, AloneKnows
      <4>3. Cardinality(RowsOf(mine)') = Count(h, 1, 1).rows
        BY <2>9, <4>1, <4>2 DEF LeftOf
      <4>4. new \in RowsOf(mine)' /\ new.note = Count(h, 1, 1).note
        BY <2>2, <2>8, <4>1
      <4> QED
        BY <4>3, <4>4 DEF LeftOf
    <3> QED
      BY <1>6, <3>1, <3>2
  <2> QED
    BY <1>1, <1>2, <1>3, <2>3, <2>6, <2>7, <2>10, HeartEnds
<1> QED
  BY <1>7, <1>8

LEMMA RemoveMarkKeeps ==
    ASSUME HeartInv, NEW h \in Hearts, RemoveMark(h)
    PROVE  HeartInv'
<1> SUFFICES ASSUME NEW mine, mine = heart[h].item PROVE HeartInv'
  OBVIOUS
<1> DEFINE was == wish[mine]
<1>1. /\ mine \in MarkItems /\ heart[h].note = "none" /\ lastId \in Nat /\ marks \subseteq MarkRow /\ IsFiniteSet(marks)
      /\ heart[h].op = "remove" /\ RowsApart /\ was \in Wishes
  BY DEF HeartInv, MarksTypeOK, HeartsApart, HeartRow, RemoveMark
<1>2. marks' = marks \ Named(h) /\ lastId' = lastId /\ table' = table
  BY DEF RemoveMark
<1>3. Treats("unique") \in BOOLEAN /\ Treats("found") \in BOOLEAN
  BY TraitsAre DEF HeartInv
<1>4. CASE Treats("found") /\ Named(h) = {}
  <2>1. RefuseHeart(h) /\ marks' = marks
    BY <1>2, <1>4 DEF RemoveMark
  <2> QED
    BY <1>1, <1>2, <2>1, HeartRefused
<1>5. CASE ~ (Treats("found") /\ Named(h) = {})
  <2>1. EndHeart(h, Count(h, 0, -1))
    BY <1>5 DEF RemoveMark
  <2>2. Count(h, 0, -1) \in Wishes
    BY <1>1, CountIs
  <2>3. marks' \subseteq MarkRow /\ IsFiniteSet(marks') /\ lastId' \in Nat
    BY <1>1, <1>2, FS_Subset
  <2>4. RowsApart'
    BY <1>1, <1>2 DEF RowsApart, Treats
  <2>5. \A it \in MarkItems \ {mine} : RowsOf(it)' = RowsOf(it)
    BY <1>2 DEF RowsOf, Named
  <2>6. RowsOf(mine)' = RowsOf(mine) \ Named(h) /\ Named(h) \subseteq RowsOf(mine)
    BY <1>2 DEF RowsOf, Named
  <2>7. IsFiniteSet(RowsOf(mine)) /\ Cardinality(RowsOf(mine)) \in Nat
    BY <1>1, RowsFinite
  <2>8. ASSUME ~ heart[h].blurred, Count(h, 0, -1) # Unsure PROVE LeftOf(RowsOf(mine)', Count(h, 0, -1))
    <3>1. CASE Treats("unique")
      <4>1. RowsOf(mine)' = {}
        BY <2>6, <3>1 DEF Named
      <4>2. Count(h, 0, -1) = [rows |-> 0, note |-> "none"]
        BY <1>1, <3>1 DEF Count
      <4> QED
        BY <4>1, <4>2, FS_EmptySet DEF LeftOf
    <3>2. CASE ~ Treats("unique")
      <4>1. was # Unsure /\ Count(h, 0, -1) = [rows |-> was.rows - 1, note |-> "none"]
        BY <1>1, <2>8, <3>2 DEF Count
      <4>2. LeftOf(RowsOf(mine), was)
        BY <1>1, <2>8, <4>1, AloneKnows
      <4>3. PICK row \in marks : row.item = mine /\ row.id = heart[h].row
        BY <1>1, <2>8, <3>2 DEF HeartInv, HeartsApart
      <4>4. Named(h) = {row} /\ row \in RowsOf(mine)
        BY <1>1, <3>2, <4>3 DEF Named, RowsOf, RowsApart
      <4>5. Cardinality(RowsOf(mine)') = Cardinality(RowsOf(mine)) - 1
        <5>1. RowsOf(mine)' = RowsOf(mine) \ {row}
          BY <2>6, <4>4
        <5> QED
          BY <2>7, <4>4, <5>1, FS_RemoveElement
      <4>6. Count(h, 0, -1).rows = was.rows - 1 /\ Count(h, 0, -1).note = "none" /\ was.rows \in Int
        BY <1>1, <4>1 DEF Wishes
      <4> QED
        BY <4>2, <4>5, <4>6 DEF LeftOf
    <3> QED
      BY <1>3, <3>1, <3>2
  <2> QED
    BY <1>1, <1>2, <2>1, <2>2, <2>3, <2>4, <2>5, <2>8, HeartEnds
<1> QED
  BY <1>4, <1>5

LEMMA HeartInvNext == HeartInv /\ [FavouriteNext]_favouriteVars => HeartInv'
<1> SUFFICES ASSUME HeartInv, [FavouriteNext]_favouriteVars PROVE HeartInv'
  OBVIOUS
<1>1. ASSUME UNCHANGED <<table, marks, heart, wish, lastId>> PROVE HeartInv'
  <2>1. MarksTypeOK' /\ RowsApart' /\ HeartsApart'
    BY <1>1 DEF HeartInv, MarksTypeOK, RowsApart, HeartsApart, Treats, MarkRow, MarkItems, MarkNotes, HeartRow, Wishes
  <2>2. WishesKept'
    BY <1>1 DEF HeartInv, WishesKept, LeftOf, RowsOf, Treats, Unsure, MarkItems
  <2> QED
    BY <2>1, <2>2 DEF HeartInv
<1>2. ASSUME NEW h \in Hearts, NEW item \in MarkItems, NEW note \in MarkNotes, StartAdd(h, item, note)
      PROVE  HeartInv'
  <2> SUFFICES ASSUME NEW op, op = IF Treats("checked") THEN "find item" ELSE "add" PROVE HeartInv'
    OBVIOUS
  <2>1. BeginHeart(h, op, item, 0, note) /\ UNCHANGED <<table, marks, wish, lastId>>
    BY <1>2 DEF StartAdd
  <2>2. op \in {"find item", "add"}
    OBVIOUS
  <2> SUFFICES ASSUME NEW id \in Nat, id = 0 PROVE HeartInv'
    OBVIOUS
  <2> QED
    BY <2>1, <2>2, HeartBegins
<1>3. ASSUME NEW h \in Hearts, NEW item \in MarkItems, StartRemove(h, item) PROVE HeartInv'
  <2>1. UNCHANGED <<table, marks, wish, lastId>> /\ "none" \in MarkNotes
    BY <1>3 DEF StartRemove, MarkNotes
  <2>2. CASE Treats("unique")
    <3> SUFFICES ASSUME NEW op, op = IF Treats("found") THEN "find row" ELSE "remove" PROVE HeartInv'
      OBVIOUS
    <3>1. BeginHeart(h, op, item, 0, "none")
      BY <1>3, <2>2 DEF StartRemove
    <3>2. op \in {"find row", "remove"}
      OBVIOUS
    <3> SUFFICES ASSUME NEW id \in Nat, id = 0 PROVE HeartInv'
      OBVIOUS
    <3> QED
      BY <2>1, <2>2, <3>1, <3>2, HeartBegins
  <2>3. CASE ~ Treats("unique")
    <3>1. PICK row \in RowsOf(item) : BeginHeart(h, "find row", item, row.id, "none")
      BY <1>3, <2>3 DEF StartRemove
    <3>2. row \in marks /\ row.item = item
      BY DEF RowsOf
    <3>3. row.id \in Nat
      BY <3>2 DEF HeartInv, MarksTypeOK, MarkRow
    <3>4. PICK id \in Nat : id = row.id
      BY <3>3
    <3> QED
      BY <2>1, <3>1, <3>2, <3>4, HeartBegins
  <2> QED
    BY <2>2, <2>3
<1>4. ASSUME NEW h \in Hearts, FindMarked(h) PROVE HeartInv'
  <2>1. heart[h].op = "find item" /\ UNCHANGED <<table, marks, lastId>>
    BY <1>4 DEF FindMarked
  <2>2. CASE heart[h].item \in catalogue
    BY <1>4, <2>1, <2>2, HeartGoesOn DEF FindMarked
  <2>3. CASE heart[h].item \notin catalogue
    BY <1>4, <2>1, <2>3, HeartRefused DEF FindMarked
  <2> QED
    BY <2>2, <2>3
<1>5. ASSUME NEW h \in Hearts, FindRow(h) PROVE HeartInv'
  <2>1. heart[h].op = "find row" /\ UNCHANGED <<table, marks, lastId>>
    BY <1>5 DEF FindRow
  <2>2. CASE Named(h) # {}
    BY <1>5, <2>1, <2>2, HeartGoesOn DEF FindRow
  <2>3. CASE Named(h) = {}
    BY <1>5, <2>1, <2>3, HeartRefused DEF FindRow
  <2> QED
    BY <2>2, <2>3
<1>6. Replace \/ UNCHANGED favouriteVars => UNCHANGED <<table, marks, heart, wish, lastId>>
  BY DEF Replace, favouriteVars
<1> QED
  BY <1>1, <1>2, <1>3, <1>4, <1>5, <1>6, AddMarkKeeps, RemoveMarkKeeps DEF FavouriteNext, MarkItems, MarkNotes

\* What the invariant says of the rows is what users count on.
LEMMA HeartInvServes == HeartInv => FavouritesKept
<1> SUFFICES ASSUME HeartInv PROVE FavouritesKept
  OBVIOUS
<1>1. \A it : IsFiniteSet(RowsOf(it)) /\ Cardinality(RowsOf(it)) \in Nat
  BY RowsFinite DEF HeartInv, MarksTypeOK
<1>2. ASSUME Treats("unique"), NEW it \in MarkItems PROVE Cardinality(RowsOf(it)) <= 1
  <2>1. \A a, b \in RowsOf(it) : a = b
    BY <1>2 DEF HeartInv, RowsApart, RowsOf
  <2> QED
    BY <1>1, <2>1, OneRow
<1>3. ASSUME NEW it \in MarkItems, wish[it] # Unsure, \A h \in Hearts : heart[h].op # "none" => heart[h].item # it
      PROVE  /\ Cardinality(RowsOf(it)) = wish[it].rows
             /\ it \in Listed <=> wish[it].rows > 0 /\ it \in catalogue
             /\ Treats("noted") /\ wish[it].note # "none" => \E row \in RowsOf(it) : row.note = wish[it].note
  <2>1. LeftOf(RowsOf(it), wish[it])
    BY <1>3 DEF HeartInv, WishesKept
  <2>2. it \in {row.item : row \in marks} <=> RowsOf(it) # {}
    BY DEF RowsOf
  <2>3. RowsOf(it) # {} <=> Cardinality(RowsOf(it)) > 0
    BY <1>1, FS_EmptySet
  <2> QED
    BY <2>1, <2>2, <2>3 DEF LeftOf, Listed
<1> QED
  BY <1>2, <1>3 DEF FavouritesKept, MarkItems

-----------------------------------------------------------------------------
(* Ranks and pages                                                          *)

Ranked(set, rank, K) == {x \in set : rank[x] \in K}

\* A ranking without ties takes each place once.
LEMMA RanksCount ==
    ASSUME NEW set, IsFiniteSet(set), NEW rank, rank \in Injection(set, 1 .. Cardinality(set)),
           NEW K, K \subseteq 1 .. Cardinality(set)
    PROVE  /\ IsFiniteSet(Ranked(set, rank, K)) /\ IsFiniteSet(K)
           /\ Cardinality(Ranked(set, rank, K)) = Cardinality(K)
<1> DEFINE N == Cardinality(set)
           taken == {x \in set : rank[x] \in K}
<1>1. N \in Nat
  BY FS_CardinalityType
<1>2. IsFiniteSet(1 .. N) /\ Cardinality(1 .. N) = N
  <2> HIDE DEF N
  <2> QED
    BY <1>1, FS_Interval
<1>3. rank \in Injection(set, 1 .. N) /\ rank \in [set -> 1 .. N]
  BY DEF Injection
<1>4. rank \in Surjection(set, 1 .. N)
  BY <1>2, <1>3, FS_Injection
<1>5. IsFiniteSet(K) /\ IsFiniteSet(taken)
  BY <1>2, FS_Subset
<1> DEFINE g == [x \in taken |-> rank[x]]
<1>6. g \in [taken -> K] /\ \A x \in taken : g[x] = rank[x]
  OBVIOUS
<1>7. g \in Injection(taken, K)
  <2> HIDE DEF g
  <2> QED
    BY <1>3, <1>6 DEF Injection, IsInjective
<1>8. g \in Surjection(taken, K)
  <2>1. ASSUME NEW k \in K PROVE \E x \in taken : g[x] = k
    <3>1. PICK x \in set : rank[x] = k
      BY <1>4 DEF Surjection
    <3> QED
      BY <1>6, <3>1
  <2> HIDE DEF g
  <2> QED
    BY <1>6, <2>1 DEF Surjection
<1> QED
  BY <1>5, <1>7, <1>8, FS_Injection DEF Ranked

\* As many pages as it takes.
LEMMA PagesCover ==
    ASSUME NEW n \in Nat, NEW limit \in Nat \ {0}
    PROVE  /\ (n + limit - 1) \div limit \in Nat /\ ((n + limit - 1) \div limit) * limit >= n
           /\ (n + limit - 1) \div limit = 0 <=> n = 0
           /\ (n + limit - 1) \div limit > 0 => (((n + limit - 1) \div limit) - 1) * limit < n
<1> DEFINE all == n + limit - 1
           pages == all \div limit
<1>1. all \in Nat /\ limit \in Nat /\ limit > 0
  OBVIOUS
<1> HIDE DEF all
<1>2. pages \in Int /\ all = limit * pages + (all % limit) /\ 0 <= all % limit /\ all % limit < limit /\ all % limit \in Int
  BY <1>1
<1> HIDE DEF pages
<1>3. all = n + limit - 1
  BY DEF all
<1>4. pages * limit = limit * pages /\ (pages - 1) * limit = limit * pages - limit
  BY <1>1, <1>2
<1>5. PICK m \in Int : m = limit * pages
  BY <1>1, <1>2
<1>6. PICK r \in Int : r = all % limit
  BY <1>2
<1>7. all = m + r /\ 0 <= r /\ r < limit
  BY <1>2, <1>5, <1>6
<1>8. m >= n /\ m - limit < n
  BY <1>1, <1>3, <1>7
<1>9. pages >= 0
  <2>1. SUFFICES ASSUME pages <= -1 PROVE FALSE
    BY <1>2
  <2>2. limit * pages <= limit * (-1)
    BY <1>1, <1>2, <2>1
  <2> QED
    BY <1>1, <1>5, <1>8, <2>2
<1>10. pages = 0 <=> n = 0
  <2>1. pages = 0 => m = 0
    BY <1>1, <1>5
  <2>2. ASSUME n = 0 PROVE pages = 0
    <3>1. m < limit
      BY <1>1, <1>8, <2>2
    <3>2. pages >= 1 => m >= limit
      BY <1>1, <1>2, <1>5
    <3> QED
      BY <1>1, <1>2, <1>9, <3>1, <3>2
  <2> QED
    BY <1>8, <2>1, <2>2
<1> QED
  BY <1>2, <1>4, <1>5, <1>8, <1>9, <1>10 DEF pages, all

-----------------------------------------------------------------------------
(* Readers: from verse to verse                                             *)

VersesTypeOK ==
    /\ verseCounts \in [1 .. LastSurah -> 1 .. MostVerses]
    /\ written \subseteq Scripts /\ "simple" \in written

\* The sums up to the n-th surah.
IsSums(f, n) == f = [k \in 0 .. n |-> IF k = 0 THEN 0 ELSE f[k - 1] + verseCounts[k]]

LEMMA SumsExist == \A n \in Nat : \E f : IsSums(f, n)
<1> DEFINE T == {n \in Nat : ~ \E f : IsSums(f, n)}
<1>1. SUFFICES ASSUME T # {} PROVE FALSE
  OBVIOUS
<1>2. PICK n \in T : \A m \in T : n <= m
  <2>1. T \subseteq Nat
    OBVIOUS
  <2> HIDE DEF T
  <2> QED
    BY <1>1, <2>1, LeastNat
<1>3. n \in Nat /\ ~ \E f : IsSums(f, n)
  BY <1>2
<1>4. CASE n = 0
  <2> DEFINE f == [k \in 0 .. 0 |-> 0]
  <2>1. \A k \in 0 .. 0 : k = 0
    OBVIOUS
  <2>2. IsSums(f, 0)
    BY <2>1 DEF IsSums
  <2> QED
    BY <1>3, <1>4, <2>2
<1>5. CASE n # 0
  <2>1. n - 1 \in Nat /\ n - 1 \notin T
    BY <1>2, <1>3, <1>5
  <2>2. PICK g : IsSums(g, n - 1)
    BY <2>1
  <2> DEFINE f == [k \in 0 .. n |-> IF k = n THEN g[n - 1] + verseCounts[n] ELSE g[k]]
  <2>3. ASSUME NEW k \in 0 .. n PROVE f[k] = IF k = 0 THEN 0 ELSE f[k - 1] + verseCounts[k]
    <3>1. CASE k = n
      <4>1. n - 1 \in 0 .. n /\ n - 1 # n /\ n \in 0 .. n
        BY <1>3, <2>1
      <4>2. f[n] = g[n - 1] + verseCounts[n] /\ f[n - 1] = g[n - 1]
        BY <4>1
      <4> HIDE DEF f
      <4> QED
        BY <1>5, <3>1, <4>2
    <3>2. CASE k # n
      <4>1. k \in 0 .. n - 1 /\ f[k] = g[k]
        BY <1>3, <3>2
      <4>2. g[k] = IF k = 0 THEN 0 ELSE g[k - 1] + verseCounts[k]
        BY <2>2, <4>1, Zenon DEF IsSums
      <4>3. k # 0 => f[k - 1] = g[k - 1]
        <5>1. k # 0 => k - 1 \in 0 .. n /\ k - 1 # n
          BY <1>3
        <5> QED
          BY <5>1
      <4> HIDE DEF f
      <4> QED
        BY <4>1, <4>2, <4>3
    <3> QED
      BY <3>1, <3>2
  <2>4. IsSums(f, n)
    <3>1. f = [k \in 0 .. n |-> f[k]]
      OBVIOUS
    <3> HIDE DEF f
    <3> QED
      BY <2>3, <3>1, Zenon DEF IsSums
  <2> QED
    BY <1>3, <2>4
<1> QED
  BY <1>4, <1>5

\* What SumUpTo is.
LEMMA SumsAre ==
    ASSUME VersesTypeOK
    PROVE  /\ SumUpTo[0] = 0
           /\ \A n \in 1 .. LastSurah : SumUpTo[n] = SumUpTo[n - 1] + verseCounts[n]
           /\ \A n \in 0 .. LastSurah : SumUpTo[n] \in Nat
<1>1. LastSurah \in Nat /\ LastSurah >= 1
  BY ReadersAssumption DEF ReadersAssumption
<1>2. SumUpTo = CHOOSE f : IsSums(f, LastSurah)
  BY Zenon DEF SumUpTo, IsSums
<1>3. IsSums(SumUpTo, LastSurah)
  BY <1>1, <1>2, SumsExist, Zenon
<1>4. \A k \in 0 .. LastSurah : SumUpTo[k] = IF k = 0 THEN 0 ELSE SumUpTo[k - 1] + verseCounts[k]
  BY <1>3, Zenon DEF IsSums
<1> HIDE DEF SumUpTo
<1>5. SumUpTo[0] = 0 /\ \A n \in 1 .. LastSurah : SumUpTo[n] = SumUpTo[n - 1] + verseCounts[n]
  <2>1. 0 \in 0 .. LastSurah /\ \A n \in 1 .. LastSurah : n \in 0 .. LastSurah /\ n # 0
    BY <1>1
  <2> QED
    BY <1>4, <2>1
<1>6. \A n \in 1 .. LastSurah : verseCounts[n] \in Nat
  BY ReadersAssumption DEF VersesTypeOK, ReadersAssumption
<1> DEFINE T == {n \in 0 .. LastSurah : SumUpTo[n] \notin Nat}
<1>7. T = {}
  <2>1. SUFFICES ASSUME T # {} PROVE FALSE
    OBVIOUS
  <2>2. PICK n \in T : \A m \in T : n <= m
    <3>1. T \subseteq Nat
      BY <1>1
    <3> HIDE DEF T
    <3> QED
      BY <2>1, <3>1, LeastNat
  <2>3. n \in 0 .. LastSurah /\ SumUpTo[n] \notin Nat
    BY <2>2
  <2>4. n # 0 /\ n \in 1 .. LastSurah /\ n - 1 \in 0 .. LastSurah /\ ~ (n <= n - 1)
    BY <1>1, <1>5, <2>3
  <2>5. SumUpTo[n - 1] \in Nat
    BY <2>2, <2>4
  <2> QED
    BY <1>5, <1>6, <2>3, <2>4, <2>5
<1> QED
  BY <1>5, <1>7

LEMMA VersesConnect == VersesTypeOK => QuranConnected
<1> SUFFICES ASSUME VersesTypeOK PROVE QuranConnected
  OBVIOUS
<1>1. LastSurah \in Nat /\ LastSurah >= 1 /\ MostVerses \in Nat /\ MostVerses >= 1
  BY ReadersAssumption DEF ReadersAssumption
<1>2. \A s \in 1 .. LastSurah : verseCounts[s] \in Nat /\ verseCounts[s] >= 1 /\ verseCounts[s] <= MostVerses
  BY <1>1 DEF VersesTypeOK
<1>3. ASSUME NEW at \in QuranVerses
      PROVE  /\ NextVerse(at) = Nowhere <=> at = <<LastSurah, verseCounts[LastSurah]>>
             /\ NextVerse(at) # Nowhere =>
                    /\ NextVerse(at) \in QuranVerses /\ PrevVerse(NextVerse(at)) = at
                    /\ Recording(NextVerse(at)) = Recording(at) + 1
  <2>1. PICK s \in 1 .. LastSurah, v \in 1 .. MostVerses : at = <<s, v>> /\ v <= verseCounts[s]
    BY DEF QuranVerses
  <2>2. at[1] = s /\ at[2] = v /\ s \in Nat /\ s >= 1 /\ s <= LastSurah /\ v \in Nat /\ v >= 1
    BY <1>1, <2>1
  <2>3. /\ SumUpTo[s - 1] \in Nat /\ SumUpTo[s] \in Nat /\ SumUpTo[s] = SumUpTo[s - 1] + verseCounts[s]
    <3>1. s - 1 \in 0 .. LastSurah /\ s \in 0 .. LastSurah /\ s \in 1 .. LastSurah
      BY <1>1, <2>2
    <3> QED
      BY <3>1, SumsAre
  <2>4. Recording(at) = SumUpTo[s - 1] + v
    BY <2>2 DEF Recording
  <2>5. verseCounts[s] \in Nat /\ verseCounts[s] >= 1 /\ verseCounts[s] <= MostVerses
    BY <1>2
  <2>6. CASE v < verseCounts[s]
    <3>1. NextVerse(at) = <<s, v + 1>>
      BY <2>2, <2>6 DEF NextVerse
    <3>2. <<s, v + 1>> \in QuranVerses
      BY <1>1, <2>2, <2>5, <2>6 DEF QuranVerses
    <3>3. PrevVerse(<<s, v + 1>>) = at
      BY <2>1, <2>2 DEF PrevVerse
    <3>4. Recording(<<s, v + 1>>) = Recording(at) + 1
      BY <2>2, <2>3, <2>4 DEF Recording
    <3>5. <<s, v + 1>> # Nowhere /\ at # <<LastSurah, verseCounts[LastSurah]>>
      BY <2>1, <2>2, <2>5, <2>6 DEF Nowhere
    <3> QED
      BY <3>1, <3>2, <3>3, <3>4, <3>5
  <2>7. CASE v = verseCounts[s] /\ s < LastSurah
    <3>1. NextVerse(at) = <<s + 1, 1>>
      BY <2>2, <2>5, <2>7 DEF NextVerse
    <3>2. <<s + 1, 1>> \in QuranVerses
      <4>1. s + 1 \in 1 .. LastSurah /\ 1 \in 1 .. MostVerses
        BY <1>1, <2>2, <2>7
      <4>2. 1 <= verseCounts[s + 1]
        BY <1>2, <4>1
      <4> QED
        BY <4>1, <4>2 DEF QuranVerses
    <3>3. PrevVerse(<<s + 1, 1>>) = at
      BY <2>1, <2>2, <2>7 DEF PrevVerse
    <3>4. Recording(<<s + 1, 1>>) = Recording(at) + 1
      <4>1. Recording(<<s + 1, 1>>) = SumUpTo[s] + 1
        BY <2>2 DEF Recording
      <4> QED
        BY <2>2, <2>3, <2>4, <2>7, <4>1
    <3>5. <<s + 1, 1>> # Nowhere /\ at # <<LastSurah, verseCounts[LastSurah]>>
      BY <2>1, <2>2, <2>7 DEF Nowhere
    <3> QED
      BY <3>1, <3>2, <3>3, <3>4, <3>5
  <2>8. CASE v = verseCounts[s] /\ s = LastSurah
    <3>1. NextVerse(at) = Nowhere
      BY <2>2, <2>5, <2>8 DEF NextVerse
    <3> QED
      BY <2>1, <2>8, <3>1
  <2> QED
    BY <1>1, <2>1, <2>2, <2>5, <2>6, <2>7, <2>8
<1>4. Recording(<<1, 1>>) = 1 /\ PrevVerse(<<1, 1>>) = Nowhere
  <2>1. SumUpTo[0] = 0
    BY SumsAre
  <2>2. Recording(<<1, 1>>) = SumUpTo[1 - 1] + 1
    BY DEF Recording
  <2>3. PrevVerse(<<1, 1>>) = Nowhere
    BY DEF PrevVerse
  <2> HIDE DEF SumUpTo
  <2> QED
    BY <2>1, <2>2, <2>3
<1>5. ASSUME NEW script \in Scripts
      PROVE  ResolveArabicText(script) \in written /\ (script \in written => ResolveArabicText(script) = script)
  <2>1. script \in {"simple", "uthmani", "indopak"}
    BY ReadersAssumption DEF ReadersAssumption
  <2> QED
    BY <2>1 DEF ResolveArabicText, VersesTypeOK
<1> QED
  BY <1>3, <1>4, <1>5 DEF QuranConnected

-----------------------------------------------------------------------------
(* Readers: from page to page, and the hadith of the day                    *)

Narrations == {Narration(b, n) : b \in Volumes, n \in 1 .. LastNumber}

\* The rows of a book up to one of them, which is its place.
PlaceAt(set, x) == Cardinality({y \in set : y.number <= x.number})

Reached == (paging.page - 1) * paging.limit
PagedRows == Served(paging.scope, paging.premiumUser)

PagesTypeOK ==
    /\ shelf \subseteq Narrations
    /\ paging \in [scope : {"all"} \union Volumes, premiumUser : BOOLEAN, limit : Nat \ {0}, page : Nat, pages : Nat,
                   shown : SUBSET Narrations, twice : BOOLEAN, undisturbed : BOOLEAN]

\* Who pages undisturbed has been shown as many rows as his pages have places,
\* unless one came twice; of one book, the rows at those places.
PagesKnown ==
    /\ paging.page = 0 => ~ paging.twice /\ paging.pages = 1
    /\ paging.undisturbed /\ paging.page >= 1 =>
        /\ paging.pages = IF paging.page = 1 THEN 1 ELSE PageCount(PagedRows, paging.limit)
        /\ paging.shown \subseteq PagedRows
        /\ ~ paging.twice =>
                Cardinality(paging.shown) = IF Cardinality(PagedRows) <= Reached THEN Cardinality(PagedRows) ELSE Reached
        /\ paging.scope # "all" =>
                ~ paging.twice /\ paging.shown = {x \in PagedRows : PlaceAt(PagedRows, x) <= Reached}

PagesInv ==
    /\ PagesTypeOK /\ PagesKnown
    /\ paging.premiumUser \/ \A x \in paging.shown : x.book \in FreeVolumes

LEMMA NarrationsAre ==
    /\ \A x \in Narrations : x.book \in Volumes /\ x.number \in Nat /\ x = Narration(x.book, x.number)
    /\ \A b \in Volumes, n \in 1 .. LastNumber : Narration(b, n) \in Narrations
    /\ IsFiniteSet(Narrations)
<1>1. LastNumber \in Nat /\ IsFiniteSet(Volumes)
  BY ReadersAssumption DEF ReadersAssumption
<1>2. \A x \in Narrations : x.book \in Volumes /\ x.number \in 1 .. LastNumber /\ x = Narration(x.book, x.number)
  BY DEF Narrations, Narration
<1>3. IsFiniteSet(Volumes \X (1 .. LastNumber))
  <2>1. IsFiniteSet(1 .. LastNumber)
    BY <1>1, FS_Interval
  <2> QED
    BY <1>1, <2>1, FS_Product
<1> DEFINE f == [x \in Narrations |-> <<x.book, x.number>>]
<1>4. f \in [Narrations -> Volumes \X (1 .. LastNumber)] /\ \A x \in Narrations : f[x] = <<x.book, x.number>>
  BY <1>2
<1> HIDE DEF f
<1>5. \A x, y \in Narrations : f[x] = f[y] => x = y
  <2> TAKE x, y \in Narrations
  <2> HAVE f[x] = f[y]
  <2>1. x.book = y.book /\ x.number = y.number
    BY <1>4
  <2> QED
    BY <1>2, <2>1
<1>6. f \in Injection(Narrations, Volumes \X (1 .. LastNumber))
  BY <1>4, <1>5 DEF Injection, IsInjective
<1>7. IsFiniteSet(Narrations)
  BY <1>3, <1>6, FS_Injection
<1> QED
  BY <1>1, <1>2, <1>7 DEF Narrations

LEMMA ShelfFinite ==
    ASSUME shelf \subseteq Narrations, NEW scope, NEW premiumUser
    PROVE  /\ Served(scope, premiumUser) \subseteq shelf /\ IsFiniteSet(Served(scope, premiumUser))
           /\ Cardinality(Served(scope, premiumUser)) \in Nat
           /\ IsFiniteSet(FreeRows) /\ Cardinality(FreeRows) \in Nat
           /\ Cardinality(FreeRows) = 0 <=> FreeRows = {}
<1>1. IsFiniteSet(shelf)
  BY NarrationsAre, FS_Subset
<1>2. Served(scope, premiumUser) \subseteq shelf
  BY DEF Served
<1>3. FreeRows \subseteq shelf
  BY DEF FreeRows
<1>4. IsFiniteSet(Served(scope, premiumUser)) /\ IsFiniteSet(FreeRows)
  BY <1>1, <1>2, <1>3, FS_Subset
<1> QED
  BY <1>2, <1>4, FS_CardinalityType, FS_EmptySet

\* In one book every order is the one of the numbers.
LEMMA PlacesOfBook ==
    ASSUME NEW set, set \subseteq Narrations, \A x, y \in set : x.book = y.book,
           NEW rank \in Orders(set)
    PROVE  \A x \in set : rank[x] = PlaceAt(set, x)
<1>1. IsFiniteSet(set) /\ Cardinality(set) \in Nat
  BY NarrationsAre, FS_Subset, FS_CardinalityType
<1>2. /\ rank \in [set -> 1 .. Cardinality(set)]
      /\ \A x, y \in set : x # y => rank[x] # rank[y] /\ (x.number < y.number => rank[x] < rank[y])
  BY DEF Orders
<1>3. TAKE x \in set
<1>4. \A y \in set : y.number <= x.number <=> rank[y] \in 1 .. rank[x]
  <2> TAKE y \in set
  <2>1. x.number \in Nat /\ y.number \in Nat /\ x.book = y.book
    BY NarrationsAre
  <2>2. rank[x] \in 1 .. Cardinality(set) /\ rank[y] \in 1 .. Cardinality(set)
    BY <1>2
  <2>3. CASE x = y
    BY <1>1, <2>1, <2>2, <2>3
  <2>4. CASE x.number < y.number
    BY <1>1, <1>2, <2>1, <2>2, <2>4
  <2>5. CASE y.number < x.number
    BY <1>1, <1>2, <2>1, <2>2, <2>5
  <2>6. CASE x.number = y.number
    BY <2>1, <2>3, <2>6, NarrationsAre
  <2> QED
    BY <2>1, <2>3, <2>4, <2>5, <2>6
<1>5. rank[x] \in 1 .. Cardinality(set)
  BY <1>2
<1>6. 1 .. rank[x] \subseteq 1 .. Cardinality(set) /\ rank[x] \in Nat /\ rank[x] >= 1
  BY <1>1, <1>5
<1>7. {y \in set : y.number <= x.number} = {y \in set : rank[y] \in 1 .. rank[x]}
  BY <1>4
<1>8. Cardinality({y \in set : rank[y] \in 1 .. rank[x]}) = Cardinality(1 .. rank[x])
  <2>1. PICK K : K = 1 .. rank[x]
    OBVIOUS
  <2>2. K \subseteq 1 .. Cardinality(set)
    BY <1>6, <2>1
  <2>3. rank \in Injection(set, 1 .. Cardinality(set))
    BY <1>2, Zenon DEF Injection, IsInjective
  <2>4. Cardinality(Ranked(set, rank, K)) = Cardinality(K)
    BY <1>1, <2>2, <2>3, RanksCount
  <2> QED
    BY <2>1, <2>4 DEF Ranked
<1>9. Cardinality(1 .. rank[x]) = rank[x]
  BY <1>6, FS_Interval
<1> QED
  BY <1>7, <1>8, <1>9 DEF PlaceAt

LEMMA PagesServe == PagesInv => PagesComplete
<1> SUFFICES ASSUME PagesInv PROVE PagesComplete
  OBVIOUS
<1>1. PagesTypeOK /\ PagesKnown /\ shelf \subseteq Narrations
  BY DEF PagesInv, PagesTypeOK
<1>2. paging.premiumUser \/ \A x \in paging.shown : x.book \notin Premium
  BY DEF PagesInv, FreeVolumes
<1>3. ASSUME paging.undisturbed, paging.page > paging.pages, ~ paging.twice PROVE paging.shown = PagedRows
  <2>1. /\ paging.page \in Nat /\ paging.pages \in Nat /\ paging.limit \in Nat \ {0}
    BY <1>1 DEF PagesTypeOK
  <2>2. paging.page >= 1
    BY <1>1, <1>3, <2>1 DEF PagesKnown
  <2>3. /\ paging.pages = IF paging.page = 1 THEN 1 ELSE PageCount(PagedRows, paging.limit)
        /\ paging.shown \subseteq PagedRows
        /\ Cardinality(paging.shown) = IF Cardinality(PagedRows) <= Reached THEN Cardinality(PagedRows) ELSE Reached
    BY <1>1, <1>3, <2>2 DEF PagesKnown
  <2>4. paging.pages = PageCount(PagedRows, paging.limit)
    BY <1>3, <2>1, <2>3
  <2>5. IsFiniteSet(PagedRows) /\ Cardinality(PagedRows) \in Nat
    BY <1>1, ShelfFinite DEF PagedRows
  <2>6. paging.pages * paging.limit >= Cardinality(PagedRows)
    <3> HIDE DEF PagedRows
    <3>1. paging.pages = (Cardinality(PagedRows) + paging.limit - 1) \div paging.limit
      BY <2>4 DEF PageCount
    <3> QED
      BY <2>1, <2>5, <3>1, PagesCover
  <2>7. Reached >= paging.pages * paging.limit
    <3>1. PICK m \in Nat : m = paging.page - 1
      BY <2>1, <2>2
    <3>2. PICK l \in Nat : l = paging.limit
      BY <2>1
    <3>3. PICK p \in Nat : p = paging.pages
      BY <2>1
    <3>4. m >= p
      BY <1>3, <2>1, <3>1, <3>3
    <3>5. m * l >= p * l
      BY <3>4
    <3> QED
      BY <3>1, <3>2, <3>3, <3>5 DEF Reached
  <2>8. Cardinality(PagedRows) <= Reached
    <3>1. Reached \in Int /\ paging.pages * paging.limit \in Int
      BY <2>1 DEF Reached
    <3> QED
      BY <2>5, <2>6, <2>7, <3>1
  <2> QED
    BY <2>3, <2>5, <2>8, FS_Subset
<1>4. ASSUME paging.undisturbed, paging.scope # "all"
      PROVE  ~ paging.twice /\ (paging.page > paging.pages => paging.shown = PagedRows)
  <2>1. paging.page \in Nat /\ paging.pages \in Nat
    BY <1>1 DEF PagesTypeOK
  <2>2. ~ paging.twice
    BY <1>1, <1>4, <2>1 DEF PagesKnown
  <2> QED
    BY <1>3, <1>4, <2>2
<1>5. ASSUME NEW x \in shelf, NEW y \in shelf PROVE y \in NextHadith(x) <=> x \in PrevHadith(y)
  <2>1. \A z \in shelf : z.number \in Nat
    BY <1>1, NarrationsAre
  <2> QED
    BY <2>1 DEF NextHadith, PrevHadith
<1> QED
  BY <1>2, <1>3, <1>4, <1>5 DEF PagesComplete, PagedRows

LEMMA PagesInvInit == ReaderInit => PagesInv
<1> SUFFICES ASSUME ReaderInit PROVE PagesInv
  OBVIOUS
<1>1. shelf \subseteq Narrations
  BY DEF ReaderInit, Narrations
<1>2. paging = Unread
  BY DEF ReaderInit
<1> QED
  BY <1>1, <1>2 DEF PagesInv, PagesTypeOK, PagesKnown, Unread

\* What is stored changes under the reader, who is disturbed.
LEMMA ShelveDisturbs ==
    ASSUME PagesInv, Shelve
    PROVE  PagesInv'
<1>1. /\ shelf' \subseteq Narrations
      /\ paging' = [paging EXCEPT !.undisturbed = FALSE]
  <2>1. PICK b \in Volumes :
            shelf' \in {{x \in shelf : x.book # b}} \union
                        {shelf \union {Narration(b, n)} :
                            n \in {k \in 1 .. LastNumber : \A j \in 1 .. k - 1 : Narration(b, j) \in shelf}}
    BY DEF Shelve
  <2>2. shelf \subseteq Narrations
    BY DEF PagesInv, PagesTypeOK
  <2>3. \A n \in 1 .. LastNumber : Narration(b, n) \in Narrations
    BY NarrationsAre
  <2>4. shelf' \subseteq Narrations
    BY <2>1, <2>2, <2>3
  <2> QED
    BY <2>4 DEF Shelve
<1>2. PagesTypeOK'
  <2>1. Narrations' = Narrations
    BY DEF Narrations, Narration
  <2> QED
    BY <1>1, <2>1 DEF PagesInv, PagesTypeOK
<1>3. /\ paging'.page = paging.page /\ paging'.twice = paging.twice /\ paging'.pages = paging.pages
      /\ paging'.undisturbed = FALSE /\ paging'.shown = paging.shown /\ paging'.premiumUser = paging.premiumUser
  BY <1>1 DEF PagesInv, PagesTypeOK
<1>4. PagesKnown'
  BY <1>3 DEF PagesInv, PagesKnown
<1>5. FreeVolumes' = FreeVolumes
  BY DEF FreeVolumes
<1> QED
  BY <1>2, <1>3, <1>4, <1>5 DEF PagesInv

\* One page more.
LEMMA ReadPageKeeps ==
    ASSUME PagesInv, ReadPage
    PROVE  PagesInv'
<1> DEFINE set == PagedRows
           N == Cardinality(PagedRows)
           next == paging.page * paging.limit
<1>1. /\ PagesTypeOK /\ shelf' = shelf /\ shelf \subseteq Narrations
      /\ paging.page \in Nat /\ paging.page >= 1 /\ paging.pages \in Nat /\ paging.limit \in Nat /\ paging.limit >= 1
      /\ paging.scope \in {"all"} \union Volumes /\ paging.premiumUser \in BOOLEAN
  BY DEF PagesInv, PagesTypeOK, ReadPage
<1>2. set \subseteq shelf /\ IsFiniteSet(set) /\ N \in Nat
  BY <1>1, ShelfFinite DEF PagedRows
<1>3. PICK rank \in Orders(set) :
        LET page == {x \in set : rank[x] \in Reached + 1 .. Reached + paging.limit}
        IN  paging' = [paging EXCEPT !.page = @ + 1, !.pages = PageCount(set, paging.limit),
                                     !.shown = @ \union page, !.twice = @ \/ paging.shown \intersect page # {}]
  BY DEF ReadPage, PagedRows, Reached, SkipOf
<1> SUFFICES ASSUME NEW page, page = {x \in set : rank[x] \in Reached + 1 .. Reached + paging.limit} PROVE PagesInv'
  OBVIOUS
<1>4. paging' = [paging EXCEPT !.page = @ + 1, !.pages = PageCount(set, paging.limit),
                               !.shown = @ \union page, !.twice = @ \/ paging.shown \intersect page # {}]
  BY <1>3
<1>5. PageCount(set, paging.limit) \in Nat
  <2>1. PICK n \in Nat : n = N
    BY <1>2
  <2>2. paging.limit \in Nat \ {0}
    BY <1>1
  <2>3. (n + paging.limit - 1) \div paging.limit \in Nat
    BY <2>2, PagesCover
  <2> QED
    BY <2>1, <2>3 DEF PageCount
<1>6. page \subseteq set /\ page \subseteq Narrations
  BY <1>1, <1>2
<1> HIDE DEF set
<1>7. /\ paging'.scope = paging.scope /\ paging'.premiumUser = paging.premiumUser /\ paging'.limit = paging.limit
      /\ paging'.page = paging.page + 1 /\ paging'.pages = PageCount(set, paging.limit)
      /\ paging'.shown = paging.shown \union page /\ paging'.undisturbed = paging.undisturbed
      /\ paging'.twice <=> paging.twice \/ paging.shown \intersect page # {}
      /\ paging'.twice \in BOOLEAN
  BY <1>1, <1>4 DEF PagesTypeOK
<1>8. PagesTypeOK'
  <2>1. Narrations' = Narrations
    BY DEF Narrations, Narration
  <2>2. PICK again \in BOOLEAN : again = (paging.twice \/ paging.shown \intersect page # {})
    OBVIOUS
  <2>3. PICK all \in SUBSET Narrations : all = paging.shown \union page
    BY <1>1, <1>6 DEF PagesTypeOK
  <2>5. PICK pages \in Nat : pages = PageCount(set, paging.limit)
    BY <1>5
  <2>6. paging' = [paging EXCEPT !.page = paging.page + 1, !.pages = pages, !.shown = all, !.twice = again]
    BY <1>4, <2>2, <2>3, <2>5
  <2>7. /\ paging.page + 1 \in Nat /\ paging.limit \in Nat \ {0} /\ paging.undisturbed \in BOOLEAN
        /\ paging = [scope |-> paging.scope, premiumUser |-> paging.premiumUser, limit |-> paging.limit,
                     page |-> paging.page, pages |-> paging.pages, shown |-> paging.shown,
                     twice |-> paging.twice, undisturbed |-> paging.undisturbed]
    BY <1>1 DEF PagesTypeOK
  <2>8. paging' = [scope |-> paging.scope, premiumUser |-> paging.premiumUser, limit |-> paging.limit,
                   page |-> paging.page + 1, pages |-> pages, shown |-> all,
                   twice |-> again, undisturbed |-> paging.undisturbed]
    BY <2>6, <2>7, Zenon
  <2>4. paging' \in [scope : {"all"} \union Volumes, premiumUser : BOOLEAN, limit : Nat \ {0}, page : Nat, pages : Nat,
                     shown : SUBSET Narrations, twice : BOOLEAN, undisturbed : BOOLEAN]
    BY <1>1, <2>7, <2>8
  <2> QED
    BY <1>1, <2>1, <2>4 DEF PagesTypeOK
<1>9. PagedRows' = PagedRows
  BY <1>1, <1>7 DEF PagedRows, Served
<1>10. Reached' = next /\ next \in Nat /\ Reached \in Nat /\ next = Reached + paging.limit
  <2>1. PICK m \in Nat : m = paging.page - 1
    BY <1>1
  <2>2. PICK l \in Nat : l = paging.limit
    BY <1>1
  <2>3. Reached = m * l /\ next = (m + 1) * l
    <3>1. paging.page = m + 1
      BY <1>1, <2>1
    <3> QED
      BY <2>1, <2>2, <3>1 DEF Reached
  <2>4. (m + 1) * l = m * l + l /\ m * l \in Nat
    <3>1. m * l \in Nat
      OBVIOUS
    <3>2. (m + 1) * l = m * l + l
      OBVIOUS
    <3> QED
      BY <3>1, <3>2
  <2>5. Reached' = next
    BY <1>1, <1>7 DEF Reached
  <2> QED
    BY <2>2, <2>3, <2>4, <2>5
<1> HIDE DEF next
<1>11. paging'.premiumUser \/ \A x \in paging'.shown : x.book \in FreeVolumes'
  <2>1. ASSUME ~ paging.premiumUser, NEW x \in page PROVE x.book \in FreeVolumes
    BY <1>6, <2>1 DEF set, PagedRows, Served
  <2>2. FreeVolumes' = FreeVolumes
    BY DEF FreeVolumes
  <2> QED
    BY <1>7, <2>1, <2>2 DEF PagesInv
<1>12. ASSUME paging.undisturbed, ~ paging'.twice
       PROVE  Cardinality(paging'.shown) = IF N <= next THEN N ELSE next
  <2>1. ~ paging.twice /\ paging.shown \intersect page = {}
    BY <1>7, <1>12
  <2>2. paging.shown \subseteq set /\ Cardinality(paging.shown) = IF N <= Reached THEN N ELSE Reached
    BY <1>1, <1>12, <2>1 DEF PagesInv, PagesKnown, set
  <2>3. PICK top \in Nat : top = IF N <= next THEN N ELSE next
    BY <1>2, <1>10
  <2>4. page = {x \in set : rank[x] \in Reached + 1 .. top}
    <3>1. \A x \in set : rank[x] \in 1 .. N
      BY DEF Orders, set
    <3>2. \A n \in 1 .. N : n \in Reached + 1 .. Reached + paging.limit <=> n \in Reached + 1 .. top
      BY <1>1, <1>2, <1>10, <2>3
    <3> QED
      BY <3>1, <3>2
  <2>5. Cardinality(page) = Cardinality(Reached + 1 .. top)
    <3>1. PICK K : K = Reached + 1 .. top
      OBVIOUS
    <3>2. K \subseteq 1 .. N
      BY <1>2, <1>10, <2>3, <3>1
    <3>3. rank \in Injection(set, 1 .. Cardinality(set))
      BY Zenon DEF Orders, Injection, IsInjective
    <3>4. IsFiniteSet(set) /\ K \subseteq 1 .. Cardinality(set)
      BY <1>2, <3>2 DEF set
    <3>5. Cardinality(Ranked(set, rank, K)) = Cardinality(K)
      BY <3>3, <3>4, RanksCount
    <3> QED
      BY <2>4, <3>1, <3>5 DEF Ranked
  <2>6. Cardinality(Reached + 1 .. top) = IF Reached + 1 > top THEN 0 ELSE top - (Reached + 1) + 1
    <3>1. Reached + 1 \in Int /\ top \in Int
      BY <1>10
    <3> QED
      BY <3>1, FS_Interval
  <2>7. IsFiniteSet(paging.shown) /\ IsFiniteSet(page)
    BY <1>2, <1>6, <2>2, FS_Subset
  <2>8. Cardinality(paging.shown \union page) = Cardinality(paging.shown) + Cardinality(page)
    <3>1. Cardinality(paging.shown \union page) =
            Cardinality(paging.shown) + Cardinality(page) - Cardinality(paging.shown \intersect page)
      BY <2>7, FS_Union
    <3>2. Cardinality(paging.shown \intersect page) = 0
      BY <2>1, FS_EmptySet
    <3>3. Cardinality(paging.shown) \in Int /\ Cardinality(page) \in Int
      BY <2>7, FS_CardinalityType
    <3> QED
      BY <3>1, <3>2, <3>3
  <2>9. Cardinality(paging'.shown) = (IF N <= Reached THEN N ELSE Reached) + Cardinality(page)
    BY <1>7, <2>2, <2>8
  <2>10. PICK n \in Nat, r \in Nat, l \in Nat : n = N /\ r = Reached /\ l = paging.limit
    BY <1>1, <1>2, <1>10
  <2>11. top = (IF n <= r + l THEN n ELSE r + l) /\ l >= 1
    BY <1>1, <1>10, <2>3, <2>10
  <2>12. Cardinality(paging'.shown) = (IF n <= r THEN n ELSE r) + (IF r + 1 > top THEN 0 ELSE top - (r + 1) + 1)
    BY <2>5, <2>6, <2>9, <2>10
  <2>13. Cardinality(paging'.shown) = top
    BY <2>11, <2>12
  <2> QED
    BY <2>3, <2>13
<1>13. ASSUME paging.undisturbed, paging.scope # "all"
       PROVE  ~ paging'.twice /\ paging'.shown = {x \in PagedRows : PlaceAt(PagedRows, x) <= next}
  <2>1. ~ paging.twice /\ paging.shown = {x \in set : PlaceAt(set, x) <= Reached}
    BY <1>1, <1>13 DEF PagesInv, PagesKnown, set
  <2>2. \A x, y \in set : x.book = y.book
    BY <1>13 DEF set, PagedRows, Served
  <2>3. \A x \in set : rank[x] = PlaceAt(set, x)
    BY <1>1, <1>2, <2>2, PlacesOfBook
  <2>4. \A x \in set : rank[x] \in Nat /\ rank[x] >= 1
    BY <1>2 DEF Orders, set
  <2>5. page = {x \in set : PlaceAt(set, x) >= Reached + 1 /\ PlaceAt(set, x) <= next}
    BY <1>1, <1>10, <2>3, <2>4
  <2>6. paging.shown \intersect page = {}
    BY <1>10, <2>1, <2>3, <2>4, <2>5
  <2>7. paging.shown \union page = {x \in set : PlaceAt(set, x) <= next}
    BY <1>1, <1>10, <2>1, <2>3, <2>4, <2>5
  <2> QED
    BY <1>7, <2>1, <2>6, <2>7 DEF set
<1>14. PagesKnown'
  <2>1. paging'.page # 0 /\ paging'.page # 1
    BY <1>1, <1>7
  <2>2. ASSUME paging'.undisturbed
        PROVE  /\ paging'.pages = PageCount(PagedRows, paging.limit)
               /\ paging'.shown \subseteq PagedRows
    <3>1. paging.shown \subseteq PagedRows
      BY <1>1, <1>7, <2>2 DEF PagesInv, PagesKnown
    <3> QED
      BY <1>6, <1>7, <3>1 DEF set
  <2>3. PageCount(PagedRows, paging.limit)' = PageCount(PagedRows, paging.limit)
    BY <1>7, <1>9 DEF PageCount
  <2>4. \A x : PlaceAt(PagedRows, x)' = PlaceAt(PagedRows, x)
    BY <1>9 DEF PlaceAt
  <2> QED
    BY <1>7, <1>9, <1>10, <1>12, <1>13, <2>1, <2>2, <2>3, <2>4 DEF PagesKnown
<1> QED
  BY <1>8, <1>11, <1>14 DEF PagesInv

LEMMA StartPagingKeeps ==
    ASSUME PagesInv, NEW scope \in {"all"} \union Volumes, NEW premiumUser \in BOOLEAN, NEW limit \in PageLimits,
           StartPaging(scope, premiumUser, limit)
    PROVE  PagesInv'
<1>1. limit \in Nat \ {0}
  BY ReadersAssumption DEF ReadersAssumption
<1>2. /\ paging' = [Unread EXCEPT !.scope = scope, !.premiumUser = premiumUser, !.limit = limit, !.page = 1]
      /\ shelf' = shelf
  BY DEF StartPaging
<1>3. /\ paging'.scope = scope /\ paging'.premiumUser = premiumUser /\ paging'.limit = limit /\ paging'.page = 1
      /\ paging'.pages = 1 /\ paging'.shown = {} /\ paging'.twice = FALSE /\ paging'.undisturbed = TRUE
  BY <1>2 DEF Unread
<1>4. PagesTypeOK'
  <2>1. Narrations' = Narrations
    BY DEF Narrations, Narration
  <2> QED
    BY <1>1, <1>2, <2>1 DEF PagesInv, PagesTypeOK, Unread
<1>5. Reached' = 0
  BY <1>1, <1>3 DEF Reached
<1>6. IsFiniteSet(PagedRows') /\ PagedRows' \subseteq Narrations
  <2>1. PagedRows' \subseteq shelf
    BY <1>2 DEF PagedRows, Served
  <2>2. shelf \subseteq Narrations
    BY DEF PagesInv, PagesTypeOK
  <2> QED
    BY <2>1, <2>2, NarrationsAre, FS_Subset
<1>7. Cardinality({}) = 0 /\ Cardinality(PagedRows') \in Nat
  BY <1>6, FS_EmptySet, FS_CardinalityType
<1>8. {x \in PagedRows' : PlaceAt(PagedRows, x)' <= 0} = {}
  <2>1. ASSUME NEW x \in PagedRows' PROVE PlaceAt(PagedRows, x)' \in Nat /\ PlaceAt(PagedRows, x)' # 0
    <3> DEFINE S == {y \in PagedRows' : y.number <= x.number}
    <3>1. x \in S /\ IsFiniteSet(S)
      <4>1. x.number \in Nat
        BY <1>6, NarrationsAre
      <4>2. S \subseteq PagedRows'
        OBVIOUS
      <4> QED
        BY <1>6, <4>1, <4>2, FS_Subset
    <3>2. PlaceAt(PagedRows, x)' = Cardinality(S)
      BY DEF PlaceAt
    <3> HIDE DEF S
    <3> QED
      BY <3>1, <3>2, FS_CardinalityType, FS_EmptySet
  <2> QED
    BY <2>1
<1>9. PagesKnown'
  BY <1>3, <1>5, <1>7, <1>8 DEF PagesKnown
<1> QED
  BY <1>3, <1>4, <1>9 DEF PagesInv

LEMMA PagesInvNext == PagesInv /\ [ReaderNext]_readerVars => PagesInv'
<1> SUFFICES ASSUME PagesInv, [ReaderNext]_readerVars PROVE PagesInv'
  OBVIOUS
<1>1. ASSUME UNCHANGED <<shelf, paging>> PROVE PagesInv'
  <2>1. PagesTypeOK'
    BY <1>1 DEF PagesInv, PagesTypeOK, Narrations, Narration
  <2>2. PagesKnown'
    BY <1>1 DEF PagesInv, PagesKnown, PagedRows, Served, Reached, PageCount, PlaceAt, FreeVolumes
  <2> QED
    BY <1>1, <2>1, <2>2 DEF PagesInv, FreeVolumes
<1>2. (\E day \in 1 .. LastNumber : AskDaily(day)) \/ PickDaily \/ AskAgain \/ UNCHANGED readerVars =>
        UNCHANGED <<shelf, paging>>
  BY DEF AskDaily, PickDaily, AskAgain, readerVars
<1> QED
  BY <1>1, <1>2, StartPagingKeeps, ReadPageKeeps, ShelveDisturbs DEF ReaderNext


DailyTypeOK ==
    /\ daily \in [pc : {"none", "counted", "answered"}, offset : Nat, calm : BOOLEAN, answer : SUBSET Narrations,
                  cache : [value : SUBSET Narrations, at : Nat]]
    /\ hour \in Nat

\* What was counted is still there if nobody shelves meanwhile.
DailyInv ==
    /\ DailyTypeOK
    /\ \A x \in daily.answer \union daily.cache.value : x.book \in FreeVolumes
    /\ daily.pc = "counted" /\ daily.calm => daily.offset < Cardinality(FreeRows)
    /\ daily.pc = "answered" /\ daily.answer = {} => ~ daily.calm \/ FreeRows = {}

LEMMA DailyServes == DailyInv => DailyServed
BY DEF DailyInv, DailyServed

LEMMA DailyInvInit == ReaderInit => DailyInv
<1> SUFFICES ASSUME ReaderInit PROVE DailyInv
  OBVIOUS
<1>1. daily = NoDaily /\ hour = 0 /\ hour \in Nat
  BY DEF ReaderInit
<1> QED
  BY <1>1 DEF DailyInv, DailyTypeOK, NoDaily, NoCache

LEMMA FreeRowsAre ==
    ASSUME shelf \subseteq Narrations
    PROVE  /\ IsFiniteSet(FreeRows) /\ Cardinality(FreeRows) \in Nat
           /\ Cardinality(FreeRows) = 0 <=> FreeRows = {}
           /\ FreeRows \subseteq Narrations /\ \A x \in FreeRows : x.book \in FreeVolumes
<1>1. IsFiniteSet(FreeRows) /\ Cardinality(FreeRows) \in Nat /\ (Cardinality(FreeRows) = 0 <=> FreeRows = {})
  BY ShelfFinite
<1>2. FreeRows \subseteq Narrations /\ \A x \in FreeRows : x.book \in FreeVolumes
  BY DEF FreeRows
<1> QED
  BY <1>1, <1>2

LEMMA AskDailyKeeps ==
    ASSUME DailyInv, PagesTypeOK, NEW day \in 1 .. LastNumber, AskDaily(day)
    PROVE  DailyInv'
<1>1. /\ shelf' = shelf /\ hour' = hour /\ shelf \subseteq Narrations /\ daily.pc = "none"
  BY DEF AskDaily, PagesTypeOK
<1>2. Narrations' = Narrations /\ FreeRows' = FreeRows /\ FreeVolumes' = FreeVolumes
  BY <1>1 DEF Narrations, Narration, FreeRows, FreeVolumes
<1>3. CASE CacheHit
  <2>1. daily' = [daily EXCEPT !.pc = "answered", !.answer = daily.cache.value] /\ daily.cache.value # {}
    BY <1>3 DEF AskDaily, CacheHit
  <2> QED
    BY <1>1, <1>2, <2>1 DEF DailyInv, DailyTypeOK
<1>4. CASE ~ CacheHit /\ FreeRows = {}
  <2>1. daily' = [daily EXCEPT !.pc = "answered", !.answer = {}]
    BY <1>4 DEF AskDaily
  <2> QED
    BY <1>1, <1>2, <1>4, <2>1 DEF DailyInv, DailyTypeOK
<1>5. CASE ~ CacheHit /\ FreeRows # {}
  <2>1. daily' = [daily EXCEPT !.pc = "counted", !.offset = day % Cardinality(FreeRows), !.calm = TRUE]
    BY <1>5 DEF AskDaily
  <2>2. PICK n \in Nat : n = Cardinality(FreeRows) /\ n # 0
    BY <1>1, <1>5, FreeRowsAre
  <2>3. day \in Nat /\ n > 0
    BY <2>2, ReadersAssumption DEF ReadersAssumption
  <2>4. PICK o \in Nat : o = day % n /\ o < n
    BY <2>2, <2>3
  <2>5. daily' = [daily EXCEPT !.pc = "counted", !.offset = o, !.calm = TRUE]
    BY <2>1, <2>2, <2>4
  <2>6. DailyTypeOK'
    BY <1>1, <1>2, <2>5 DEF DailyInv, DailyTypeOK
  <2>7. /\ daily'.pc = "counted" /\ daily'.offset = o /\ daily'.answer = daily.answer /\ daily'.cache = daily.cache
    BY <2>5 DEF DailyInv, DailyTypeOK
  <2> QED
    BY <1>2, <2>2, <2>4, <2>6, <2>7 DEF DailyInv
<1> QED
  BY <1>3, <1>4, <1>5

LEMMA PickDailyKeeps ==
    ASSUME DailyInv, PagesTypeOK, PickDaily
    PROVE  DailyInv'
<1>1. /\ shelf' = shelf /\ hour' = hour /\ shelf \subseteq Narrations /\ daily.pc = "counted"
  BY DEF PickDaily, PagesTypeOK
<1>2. Narrations' = Narrations /\ FreeRows' = FreeRows /\ FreeVolumes' = FreeVolumes
  BY <1>1 DEF Narrations, Narration, FreeRows, FreeVolumes
<1>3. PICK answer \in IF daily.offset < Cardinality(FreeRows) THEN {{x} : x \in FreeRows} ELSE {{}} :
        daily' = [daily EXCEPT !.pc = "answered", !.answer = answer, !.cache = [value |-> answer, at |-> hour]]
  BY DEF PickDaily
<1>4. answer \subseteq FreeRows /\ (daily.offset < Cardinality(FreeRows) => answer # {})
  BY <1>3
<1>5. answer \subseteq Narrations /\ \A x \in answer : x.book \in FreeVolumes
  BY <1>1, <1>4, FreeRowsAre
<1>6. DailyTypeOK'
  <2>1. PICK kept : kept = [value |-> answer, at |-> hour]
    OBVIOUS
  <2>2. kept \in [value : SUBSET Narrations, at : Nat]
    BY <1>5, <2>1 DEF DailyInv, DailyTypeOK
  <2>3. daily' = [daily EXCEPT !.pc = "answered", !.answer = answer, !.cache = kept]
    BY <1>3, <2>1
  <2> QED
    BY <1>1, <1>2, <1>5, <2>2, <2>3 DEF DailyInv, DailyTypeOK
<1>7. /\ daily'.pc = "answered" /\ daily'.answer = answer /\ daily'.cache.value = answer /\ daily'.calm = daily.calm
  BY <1>3 DEF DailyInv, DailyTypeOK
<1>8. answer = {} => ~ daily.calm
  BY <1>1, <1>4 DEF DailyInv
<1> QED
  BY <1>2, <1>5, <1>6, <1>7, <1>8 DEF DailyInv

LEMMA DailyInvNext == DailyInv /\ PagesTypeOK /\ [ReaderNext]_readerVars => DailyInv'
<1> SUFFICES ASSUME DailyInv, PagesTypeOK, [ReaderNext]_readerVars PROVE DailyInv'
  OBVIOUS
<1>0. Narrations' = Narrations /\ FreeVolumes' = FreeVolumes
  BY DEF Narrations, Narration, FreeVolumes
<1>1. ASSUME UNCHANGED <<shelf, daily, hour>> PROVE DailyInv'
  BY <1>0, <1>1 DEF DailyInv, DailyTypeOK, FreeRows, FreeVolumes
<1>2. ReadPage \/ UNCHANGED readerVars => UNCHANGED <<shelf, daily, hour>>
  BY DEF ReadPage, readerVars
<1>3. ASSUME NEW scope \in {"all"} \union Volumes, NEW premiumUser \in BOOLEAN, NEW limit \in PageLimits,
             StartPaging(scope, premiumUser, limit)
      PROVE  UNCHANGED <<shelf, daily, hour>>
  BY <1>3 DEF StartPaging
<1>4. ASSUME AskAgain PROVE DailyInv'
  <2>1. PICK later \in {0, 1} : hour' = hour + later
    BY <1>4 DEF AskAgain
  <2>2. hour' \in Nat
    BY <2>1 DEF DailyInv, DailyTypeOK
  <2>3. daily' = [daily EXCEPT !.pc = "none", !.answer = {}, !.calm = TRUE]
    BY <1>4 DEF AskAgain
  <2>4. DailyTypeOK'
    BY <1>0, <2>2, <2>3 DEF DailyInv, DailyTypeOK
  <2>5. daily'.pc = "none" /\ daily'.answer = {} /\ daily'.cache = daily.cache
    BY <2>3 DEF DailyInv, DailyTypeOK
  <2> QED
    BY <1>0, <2>4, <2>5 DEF DailyInv
<1>5. ASSUME Shelve PROVE DailyInv'
  <2>1. daily' = [daily EXCEPT !.calm = FALSE] /\ hour' = hour
    BY <1>5 DEF Shelve
  <2>2. DailyTypeOK'
    BY <1>0, <2>1 DEF DailyInv, DailyTypeOK
  <2>3. daily'.pc = daily.pc /\ daily'.answer = daily.answer /\ daily'.cache = daily.cache /\ daily'.calm = FALSE
    BY <2>1 DEF DailyInv, DailyTypeOK
  <2> QED
    BY <1>0, <2>2, <2>3 DEF DailyInv
<1> QED
  BY <1>1, <1>2, <1>3, <1>4, <1>5, AskDailyKeeps, PickDailyKeeps DEF ReaderNext

-----------------------------------------------------------------------------
(* What readers are promised.                                               *)

ReadersInv == VersesTypeOK /\ PagesInv /\ DailyInv

LEMMA ReadersInvInit == ReaderInit => ReadersInv
<1>1. ReaderInit => VersesTypeOK
  BY DEF ReaderInit, VersesTypeOK
<1> QED
  BY <1>1, PagesInvInit, DailyInvInit DEF ReadersInv

LEMMA ReadersInvNext == ReadersInv /\ [ReaderNext]_readerVars => ReadersInv'
<1> SUFFICES ASSUME ReadersInv, [ReaderNext]_readerVars PROVE ReadersInv'
  OBVIOUS
<1>1. UNCHANGED <<verseCounts, written>>
  BY DEF ReaderNext, StartPaging, ReadPage, AskDaily, PickDaily, AskAgain, Shelve, readerVars
<1>2. VersesTypeOK'
  BY <1>1 DEF ReadersInv, VersesTypeOK
<1>3. PagesInv' /\ DailyInv'
  BY PagesInvNext, DailyInvNext DEF ReadersInv, PagesInv
<1> QED
  BY <1>2, <1>3 DEF ReadersInv

LEMMA ReadersInvServes == ReadersInv => ReadersAgree
BY VersesConnect, PagesServe, DailyServes DEF ReadersInv, ReadersAgree

-----------------------------------------------------------------------------
(* Juz: verses in order                                                     *)

RankIn(set, v) == Cardinality({u \in set : Before(u, v)}) + 1

LEMMA BeforeIsOrder ==
    ASSUME NEW a \in Nat \X Nat, NEW b \in Nat \X Nat, NEW c \in Nat \X Nat
    PROVE  /\ ~ Before(a, a)
           /\ Before(a, b) => ~ Before(b, a)
           /\ a = b \/ Before(a, b) \/ Before(b, a)
           /\ ~ Before(b, a) /\ Before(b, c) => Before(a, c)
           /\ Before(a, b) /\ ~ Before(c, b) => Before(a, c)
           /\ Before(a, b) /\ Before(b, c) => Before(a, c)
<1>1. PICK a1 \in Nat, a2 \in Nat : a = <<a1, a2>>
  OBVIOUS
<1>2. PICK b1 \in Nat, b2 \in Nat : b = <<b1, b2>>
  OBVIOUS
<1>3. PICK c1 \in Nat, c2 \in Nat : c = <<c1, c2>>
  OBVIOUS
<1>4. a[1] = a1 /\ a[2] = a2 /\ b[1] = b1 /\ b[2] = b2 /\ c[1] = c1 /\ c[2] = c2
  BY <1>1, <1>2, <1>3
<1>5. a1 = b1 /\ a2 = b2 => a = b
  BY <1>1, <1>2
<1> QED
  BY <1>4, <1>5 DEF Before

LEMMA RanksRise ==
    ASSUME NEW set, IsFiniteSet(set), set \subseteq Nat \X Nat, NEW a \in set, NEW b \in set
    PROVE  /\ RankIn(set, a) \in 1 .. Cardinality(set)
           /\ Before(a, b) => RankIn(set, a) < RankIn(set, b)
<1> DEFINE below(v) == {u \in set : Before(u, v)}
<1>1. \A v \in set : IsFiniteSet(below(v)) /\ Cardinality(below(v)) \in Nat /\ RankIn(set, v) = Cardinality(below(v)) + 1
  <2> TAKE v \in set
  <2>1. below(v) \subseteq set
    OBVIOUS
  <2>2. IsFiniteSet(below(v))
    BY <2>1, FS_Subset
  <2>3. Cardinality(below(v)) \in Nat
    BY <2>2, FS_CardinalityType
  <2> QED
    BY <2>2, <2>3 DEF RankIn
<1>2. \A u, v \in set : ~ Before(u, u) /\ (Before(a, v) /\ Before(u, a) => Before(u, v))
  <2> TAKE u, v \in set
  <2>1. a \in Nat \X Nat /\ u \in Nat \X Nat /\ v \in Nat \X Nat
    OBVIOUS
  <2> QED
    BY <2>1, BeforeIsOrder
<1>3. IsFiniteSet(below(a) \union {a}) /\ Cardinality(below(a) \union {a}) = Cardinality(below(a)) + 1
  <2>1. a \notin below(a)
    BY <1>2
  <2>2. IsFiniteSet(below(a))
    BY <1>1
  <2> HIDE DEF below
  <2> QED
    BY <2>1, <2>2, FS_AddElement
<1>4. Cardinality(below(a) \union {a}) <= Cardinality(set) /\ Cardinality(set) \in Nat
  <2>1. below(a) \union {a} \subseteq set
    OBVIOUS
  <2> HIDE DEF below
  <2> QED
    BY <2>1, FS_Subset, FS_CardinalityType
<1>5. RankIn(set, a) \in 1 .. Cardinality(set)
  <2>1. PICK n \in Nat : n = Cardinality(below(a)) /\ RankIn(set, a) = n + 1
    BY <1>1
  <2>2. n + 1 <= Cardinality(set)
    <3> HIDE DEF below
    <3> QED
      BY <1>3, <1>4, <2>1
  <2> HIDE DEF below
  <2> QED
    BY <1>4, <2>1, <2>2
<1>6. ASSUME Before(a, b) PROVE RankIn(set, a) < RankIn(set, b)
  <2>1. below(a) \union {a} \subseteq below(b)
    BY <1>2, <1>6
  <2>2. Cardinality(below(a) \union {a}) <= Cardinality(below(b))
    <3>1. IsFiniteSet(below(b))
      BY <1>1
    <3> HIDE DEF below
    <3> QED
      BY <2>1, <3>1, FS_Subset
  <2>3. PICK m \in Nat, n \in Nat : m = Cardinality(below(a)) /\ n = Cardinality(below(b))
    BY <1>1
  <2>4. RankIn(set, a) = m + 1 /\ RankIn(set, b) = n + 1
    BY <1>1, <2>3
  <2>5. m + 1 <= n
    <3> HIDE DEF below
    <3> QED
      BY <1>3, <2>2, <2>3
  <2> QED
    BY <2>4, <2>5
<1> QED
  BY <1>5, <1>6

\* Each verse of a set has its place in order, and each place its verse.
LEMMA InOrderIs ==
    ASSUME NEW set, IsFiniteSet(set), set \subseteq Nat \X Nat
    PROVE  /\ Cardinality(set) \in Nat
           /\ InOrder(set) = [i \in 1 .. Cardinality(set) |-> InOrder(set)[i]]
           /\ \A i \in 1 .. Cardinality(set) : InOrder(set)[i] \in set /\ RankIn(set, InOrder(set)[i]) = i
           /\ \A v \in set : RankIn(set, v) \in 1 .. Cardinality(set) /\ InOrder(set)[RankIn(set, v)] = v
           /\ \A a, b \in set : Before(a, b) <=> RankIn(set, a) < RankIn(set, b)
<1>1. PICK N : N = Cardinality(set)
  OBVIOUS
<1>2. N \in Nat /\ IsFiniteSet(1 .. N) /\ Cardinality(1 .. N) = N
  <2>1. N \in Nat
    BY <1>1, FS_CardinalityType
  <2> QED
    BY <2>1, FS_Interval
<1>3. \A v \in set : RankIn(set, v) \in 1 .. N
  BY <1>1, RanksRise
<1>4. \A a, b \in set : Before(a, b) => RankIn(set, a) < RankIn(set, b)
  BY RanksRise
<1>5. \A a, b \in set : a = b \/ Before(a, b) \/ Before(b, a)
  <2> TAKE a, b \in set
  <2>1. a \in Nat \X Nat /\ b \in Nat \X Nat
    OBVIOUS
  <2> QED
    BY <2>1, BeforeIsOrder
<1>6. \A a, b \in set : RankIn(set, a) = RankIn(set, b) => a = b
  <2> TAKE a, b \in set
  <2> HAVE RankIn(set, a) = RankIn(set, b)
  <2>1. RankIn(set, a) \in Nat /\ RankIn(set, b) \in Nat
    BY <1>2, <1>3
  <2>2. ~ Before(a, b) /\ ~ Before(b, a)
    BY <1>4, <2>1
  <2> QED
    BY <1>5, <2>2
<1>7. \A a, b \in set : Before(a, b) <=> RankIn(set, a) < RankIn(set, b)
  <2> TAKE a, b \in set
  <2>1. RankIn(set, a) \in Nat /\ RankIn(set, b) \in Nat
    BY <1>2, <1>3
  <2>2. Before(a, b) => RankIn(set, a) < RankIn(set, b)
    BY <1>4
  <2>3. Before(b, a) => RankIn(set, b) < RankIn(set, a)
    BY <1>4
  <2>4. a = b => ~ (RankIn(set, a) < RankIn(set, b))
    BY <2>1
  <2> QED
    BY <1>5, <2>1, <2>2, <2>3, <2>4
<1> DEFINE rank == [v \in set |-> RankIn(set, v)]
<1>8. rank \in [set -> 1 .. N] /\ \A v \in set : rank[v] = RankIn(set, v)
  BY <1>3
<1> HIDE DEF rank
<1>9. rank \in Injection(set, 1 .. N)
  BY <1>6, <1>8, Zenon DEF Injection, IsInjective
<1>10. rank \in Surjection(set, 1 .. N)
  BY <1>1, <1>2, <1>9, FS_Injection
<1>11. ASSUME NEW i \in 1 .. N PROVE InOrder(set)[i] \in set /\ RankIn(set, InOrder(set)[i]) = i
  <2>1. PICK v \in set : RankIn(set, v) = i
    BY <1>8, <1>10 DEF Surjection
  <2>2. \A u \in set : Cardinality({x \in set : Before(x, u)}) = i - 1 <=> RankIn(set, u) = i
    <3> TAKE u \in set
    <3>1. PICK c : c = Cardinality({x \in set : Before(x, u)})
      OBVIOUS
    <3>2. RankIn(set, u) = c + 1 /\ c \in Nat
      <4>1. {x \in set : Before(x, u)} \subseteq set
        OBVIOUS
      <4>2. IsFiniteSet({x \in set : Before(x, u)})
        BY <4>1, FS_Subset
      <4> QED
        BY <3>1, <4>2, FS_CardinalityType DEF RankIn
    <3>3. i \in Nat
      OBVIOUS
    <3> QED
      BY <3>1, <3>2, <3>3
  <2>3. InOrder(set)[i] = CHOOSE u \in set : Cardinality({x \in set : Before(x, u)}) = i - 1
    BY <1>1 DEF InOrder
  <2>4. InOrder(set)[i] \in set /\ Cardinality({x \in set : Before(x, InOrder(set)[i])}) = i - 1
    BY <2>1, <2>2, <2>3, Zenon
  <2> QED
    BY <2>2, <2>4, Zenon
<1>12. ASSUME NEW v \in set PROVE InOrder(set)[RankIn(set, v)] = v
  <2>1. RankIn(set, v) \in 1 .. N
    BY <1>3
  <2>2. InOrder(set)[RankIn(set, v)] \in set /\ RankIn(set, InOrder(set)[RankIn(set, v)]) = RankIn(set, v)
    BY <1>11, <2>1, Zenon
  <2> QED
    BY <1>6, <2>2, Zenon
<1>13. InOrder(set) = [i \in 1 .. Cardinality(set) |-> InOrder(set)[i]]
  <2> DEFINE at(i) == CHOOSE v \in set : Cardinality({u \in set : Before(u, v)}) = i - 1
             f == [i \in 1 .. Cardinality(set) |-> at(i)]
  <2>1. InOrder(set) = f
    BY Zenon DEF InOrder
  <2>2. f = [i \in 1 .. Cardinality(set) |-> f[i]]
    <3> HIDE DEF at
    <3> QED
      OBVIOUS
  <2> HIDE DEF f
  <2> QED
    BY <2>1, <2>2, Zenon
<1> QED
  BY <1>1, <1>2, <1>3, <1>7, <1>11, <1>12, <1>13

-----------------------------------------------------------------------------
(* Juz: the division                                                        *)

JuzInv ==
    /\ sizes \in [Surahs -> 1 .. MaxVerses]
    /\ cuts \subseteq Mushaf /\ LastVerse \in cuts

LEMMA SurahsAre == Cardinality(Surahs) \in Nat /\ Cardinality(Surahs) >= 1 /\ Surahs = 1 .. Cardinality(Surahs)
<1>1. Cardinality(Surahs) \in Nat /\ Cardinality(Surahs) # 0 /\ Surahs = 1 .. Cardinality(Surahs)
  BY JuzAssumption, FS_CardinalityType, FS_EmptySet DEF JuzAssumption
<1> QED
  BY <1>1

LEMMA MushafIs ==
    ASSUME sizes \in [Surahs -> 1 .. MaxVerses]
    PROVE  /\ \A x : x \in Mushaf <=> \E s \in Surahs : \E v \in 1 .. sizes[s] : x = <<s, v>>
           /\ \A s \in Surahs : sizes[s] \in Nat /\ sizes[s] >= 1
           /\ IsFiniteSet(Mushaf) /\ Mushaf \subseteq Nat \X Nat /\ Mushaf # {}
<1>1. MaxVerses \in Nat
  BY JuzAssumption DEF JuzAssumption
<1>2. \A s \in Surahs : sizes[s] \in 1 .. MaxVerses
  OBVIOUS
<1>3. \A s \in Surahs : sizes[s] \in Nat /\ sizes[s] >= 1 /\ 1 .. sizes[s] \subseteq 1 .. MaxVerses
  BY <1>1, <1>2
<1>4. ASSUME NEW x PROVE x \in Mushaf <=> \E s \in Surahs : \E v \in 1 .. sizes[s] : x = <<s, v>>
  BY <1>3 DEF Mushaf
<1>5. Surahs \subseteq Nat /\ 1 \in Surahs
  <2>1. PICK n \in Nat : n >= 1 /\ Surahs = 1 .. n
    BY SurahsAre
  <2>2. 1 .. n \subseteq Nat /\ 1 \in 1 .. n
    BY <2>1
  <2> QED
    BY <2>1, <2>2, Zenon
<1>6. Mushaf \subseteq Surahs \X (1 .. MaxVerses)
  BY <1>3, <1>4
<1>7. IsFiniteSet(Mushaf)
  <2>1. IsFiniteSet(Surahs) /\ IsFiniteSet(1 .. MaxVerses)
    BY <1>1, FS_Interval, JuzAssumption DEF JuzAssumption
  <2>2. IsFiniteSet(Surahs \X (1 .. MaxVerses))
    BY <2>1, FS_Product
  <2> QED
    BY <1>6, <2>2, FS_Subset
<1>8. Mushaf \subseteq Nat \X Nat
  <2>1. 1 .. MaxVerses \subseteq Nat
    BY <1>1
  <2> HIDE DEF Mushaf
  <2> QED
    BY <1>5, <1>6, <2>1
<1>9. <<1, 1>> \in Mushaf
  <2>1. 1 \in 1 .. sizes[1]
    BY <1>3, <1>5
  <2> QED
    BY <1>4, <1>5, <2>1
<1> QED
  BY <1>3, <1>4, <1>7, <1>8, <1>9

\* The first and the last in order.
LEMMA EndsOfOrder ==
    ASSUME NEW set, IsFiniteSet(set), set \subseteq Nat \X Nat, set # {}
    PROVE  /\ Cardinality(set) \in Nat /\ Cardinality(set) >= 1
           /\ InOrder(set)[1] \in set /\ \A v \in set : ~ Before(v, InOrder(set)[1])
           /\ InOrder(set)[Cardinality(set)] \in set /\ \A v \in set : ~ Before(InOrder(set)[Cardinality(set)], v)
<1>1. PICK N \in Nat : N = Cardinality(set) /\ N >= 1
  <2>1. Cardinality(set) \in Nat /\ Cardinality(set) # 0
    BY FS_CardinalityType, FS_EmptySet
  <2> QED
    BY <2>1
<1>2. 1 \in 1 .. N /\ N \in 1 .. N
  BY <1>1
<1>3. \A v \in set : RankIn(set, v) \in 1 .. N
  BY <1>1, InOrderIs
<1>4. /\ InOrder(set)[1] \in set /\ RankIn(set, InOrder(set)[1]) = 1
      /\ InOrder(set)[N] \in set /\ RankIn(set, InOrder(set)[N]) = N
  BY <1>1, <1>2, InOrderIs
<1>5. \A a, b \in set : Before(a, b) => RankIn(set, a) < RankIn(set, b)
  BY InOrderIs
<1>6. ASSUME NEW v \in set PROVE ~ Before(v, InOrder(set)[1]) /\ ~ Before(InOrder(set)[N], v)
  <2>1. PICK r \in 1 .. N : r = RankIn(set, v)
    BY <1>3
  <2>2. ~ (r < 1) /\ ~ (N < r)
    BY <1>1
  <2> QED
    BY <1>4, <1>5, <2>1, <2>2
<1> QED
  BY <1>1, <1>4, <1>6

\* A verse is of the k-th juz.
OfJuz(k, v) == (k = 1 \/ Before(InOrder(cuts)[k - 1], v)) /\ ~ Before(InOrder(cuts)[k], v)

LEMMA CutsAre ==
    ASSUME JuzInv
    PROVE  /\ IsFiniteSet(cuts) /\ cuts \subseteq Nat \X Nat /\ Cardinality(cuts) \in Nat /\ Cardinality(cuts) >= 1
           /\ \A k \in 1 .. Cardinality(cuts) : InOrder(cuts)[k] \in Mushaf
           /\ \A j, k \in 1 .. Cardinality(cuts) : Before(InOrder(cuts)[j], InOrder(cuts)[k]) <=> j < k
           /\ \A v \in Mushaf : ~ Before(InOrder(cuts)[Cardinality(cuts)], v)
<1>1. IsFiniteSet(Mushaf) /\ Mushaf \subseteq Nat \X Nat /\ Mushaf # {} /\ cuts \subseteq Mushaf
  BY MushafIs DEF JuzInv
<1>2. IsFiniteSet(cuts) /\ cuts \subseteq Nat \X Nat /\ cuts # {}
  BY <1>1, FS_Subset DEF JuzInv
<1>3. Cardinality(cuts) \in Nat /\ Cardinality(cuts) >= 1
  BY <1>2, EndsOfOrder
<1>4. \A k \in 1 .. Cardinality(cuts) : InOrder(cuts)[k] \in cuts /\ RankIn(cuts, InOrder(cuts)[k]) = k
  BY <1>2, InOrderIs
<1>5. \A a, b \in cuts : Before(a, b) <=> RankIn(cuts, a) < RankIn(cuts, b)
  BY <1>2, InOrderIs
<1>6. ASSUME NEW j \in 1 .. Cardinality(cuts), NEW k \in 1 .. Cardinality(cuts)
      PROVE  Before(InOrder(cuts)[j], InOrder(cuts)[k]) <=> j < k
  <2>1. PICK a \in cuts : a = InOrder(cuts)[j] /\ RankIn(cuts, a) = j
    BY <1>4
  <2>2. PICK b \in cuts : b = InOrder(cuts)[k] /\ RankIn(cuts, b) = k
    BY <1>4
  <2> QED
    BY <1>5, <2>1, <2>2
<1>7. ASSUME NEW v \in Mushaf PROVE ~ Before(InOrder(cuts)[Cardinality(cuts)], v)
  <2>1. ~ Before(LastVerse, v) /\ LastVerse \in cuts
    BY <1>1, EndsOfOrder DEF LastVerse, JuzInv
  <2>2. PICK end : end = InOrder(cuts)[Cardinality(cuts)]
    OBVIOUS
  <2>3. end \in cuts /\ ~ Before(end, LastVerse)
    BY <1>2, <2>1, <2>2, EndsOfOrder
  <2>4. end \in Nat \X Nat /\ LastVerse \in Nat \X Nat /\ v \in Nat \X Nat
    BY <1>1, <1>2, <2>1, <2>3
  <2>5. ~ Before(end, v)
    BY <2>1, <2>3, <2>4, BeforeIsOrder
  <2> QED
    BY <2>2, <2>5
<1> QED
  BY <1>1, <1>2, <1>3, <1>4, <1>6, <1>7

\* Where a juz begins and ends.
LEMMA BoundaryIs ==
    ASSUME JuzInv, NEW k \in 1 .. Cardinality(cuts), NEW juz, juz = Boundary(k)
    PROVE  /\ juz.start \in Mushaf /\ juz.end \in Mushaf /\ ~ Before(juz.end, juz.start)
           /\ \A v \in Mushaf : ~ Before(v, juz.start) /\ ~ Before(juz.end, v) <=> OfJuz(k, v)
<1> DEFINE ends == InOrder(cuts)
           rest == {v \in Mushaf : k = 1 \/ Before(ends[k - 1], v)}
<1>1. juz.start = InOrder(rest)[1] /\ juz.end = ends[k]
  BY Zenon DEF Boundary
<1>2. IsFiniteSet(Mushaf) /\ Mushaf \subseteq Nat \X Nat
  BY MushafIs DEF JuzInv
<1>3. ends[k] \in Mushaf /\ (k # 1 => ends[k - 1] \in Mushaf /\ Before(ends[k - 1], ends[k]))
  <2>1. PICK n \in Nat : n = Cardinality(cuts)
    BY CutsAre
  <2>2. k # 1 => k - 1 \in 1 .. n /\ k - 1 < k
    BY <2>1
  <2> QED
    BY <2>1, <2>2, CutsAre
<1>4. ends[k] \in rest /\ rest \subseteq Mushaf
  BY <1>3
<1>5. IsFiniteSet(rest) /\ rest \subseteq Nat \X Nat /\ rest # {}
  BY <1>2, <1>4, FS_Subset
<1>6. \A v : v \in rest <=> v \in Mushaf /\ (k = 1 \/ Before(ends[k - 1], v))
  OBVIOUS
<1> HIDE DEF rest
<1>7. juz.start \in rest /\ \A v \in rest : ~ Before(v, juz.start)
  BY <1>1, <1>5, EndsOfOrder
<1>8. ASSUME NEW v \in Mushaf PROVE ~ Before(v, juz.start) <=> v \in rest
  <2>1. ASSUME ~ Before(v, juz.start) PROVE v \in rest
    <3>1. juz.start \in Nat \X Nat /\ v \in Nat \X Nat /\ (k # 1 => ends[k - 1] \in Nat \X Nat)
      BY <1>2, <1>3, <1>4, <1>7
    <3>2. k # 1 => Before(ends[k - 1], juz.start)
      BY <1>6, <1>7
    <3>3. k # 1 => Before(ends[k - 1], v)
      BY <2>1, <3>1, <3>2, BeforeIsOrder
    <3> QED
      BY <1>6, <3>3
  <2> QED
    BY <1>7, <2>1
<1> QED
  BY <1>1, <1>3, <1>4, <1>6, <1>7, <1>8 DEF OfJuz

\* Each verse is of one juz.
LEMMA JuzPartition ==
    ASSUME JuzInv, NEW v \in Mushaf
    PROVE  \E k \in 1 .. Cardinality(cuts) : OfJuz(k, v) /\ \A j \in 1 .. Cardinality(cuts) : OfJuz(j, v) => j = k
<1>1. PICK n \in Nat : n = Cardinality(cuts) /\ n >= 1
  BY CutsAre
<1> DEFINE ends == InOrder(cuts)
           T == {k \in 1 .. n : ~ Before(ends[k], v)}
<1>2. n \in T
  BY <1>1, CutsAre
<1>3. PICK k \in T : \A j \in T : k <= j
  <2>1. T \subseteq Nat /\ T # {}
    BY <1>2
  <2> HIDE DEF T
  <2> QED
    BY <2>1, LeastNat
<1>4. k \in 1 .. n /\ ~ Before(ends[k], v)
  BY <1>3
<1>5. k # 1 => Before(ends[k - 1], v)
  <2>1. k # 1 => k - 1 \in 1 .. n /\ ~ (k <= k - 1)
    BY <1>4
  <2> QED
    BY <1>3, <2>1
<1>6. ASSUME NEW i \in 1 .. n, NEW j \in 1 .. n, OfJuz(i, v), OfJuz(j, v), i < j PROVE FALSE
  <2>1. ~ Before(ends[i], v) /\ Before(ends[j - 1], v)
    BY <1>6 DEF OfJuz
  <2>2. j - 1 \in 1 .. n /\ (i = j - 1 \/ i < j - 1)
    BY <1>6
  <2>3. i # j - 1
    BY <2>1
  <2>4. Before(ends[i], ends[j - 1])
    BY <1>1, <2>2, <2>3, CutsAre
  <2>5. ends[i] \in Nat \X Nat /\ ends[j - 1] \in Nat \X Nat /\ v \in Nat \X Nat
    <3>1. Mushaf \subseteq Nat \X Nat /\ ends[i] \in Mushaf /\ ends[j - 1] \in Mushaf
      BY <1>1, <2>2, CutsAre, MushafIs DEF JuzInv
    <3> QED
      BY <3>1
  <2> QED
    BY <2>1, <2>4, <2>5, BeforeIsOrder
<1>7. OfJuz(k, v)
  BY <1>4, <1>5 DEF OfJuz
<1>8. \A j \in 1 .. n : OfJuz(j, v) => j = k
  <2> TAKE j \in 1 .. n
  <2> HAVE OfJuz(j, v)
  <2>1. ~ (j < k) /\ ~ (k < j)
    BY <1>4, <1>6, <1>7
  <2> QED
    BY <1>4, <2>1
<1> QED
  BY <1>1, <1>4, <1>7, <1>8

\* With all seeded the query finds what lies within the juz.
LEMMA RangeIs ==
    ASSUME JuzInv, seeded = Surahs, NEW k \in 1 .. Cardinality(cuts), NEW juz, juz = Boundary(k)
    PROVE  /\ RangeWhere(juz) = {v \in Mushaf : ~ Before(v, juz.start) /\ ~ Before(juz.end, v)}
           /\ RangeWhere(juz) = {v \in Mushaf : OfJuz(k, v)}
<1>1. Mushaf \subseteq Nat \X Nat /\ \A x : x \in Mushaf <=> \E s \in Surahs : \E v \in 1 .. sizes[s] : x = <<s, v>>
  BY MushafIs DEF JuzInv
<1>2. Verses = Mushaf
  BY <1>1 DEF Verses
<1>3. PICK s1 \in Nat, s2 \in Nat, e1 \in Nat, e2 \in Nat :
        juz.start[1] = s1 /\ juz.start[2] = s2 /\ juz.end[1] = e1 /\ juz.end[2] = e2
  <2>1. juz.start \in Nat \X Nat /\ juz.end \in Nat \X Nat
    BY <1>1, BoundaryIs
  <2> QED
    BY <2>1
<1>4. s1 < e1 \/ (s1 = e1 /\ s2 <= e2)
  <2>1. ~ Before(juz.end, juz.start)
    BY BoundaryIs
  <2> QED
    BY <1>3, <2>1 DEF Before
<1>5. ASSUME NEW v \in Mushaf PROVE v \in RangeWhere(juz) <=> ~ Before(v, juz.start) /\ ~ Before(juz.end, v)
  <2>1. v[1] \in Nat /\ v[2] \in Nat
    BY <1>1
  <2>2. v \in Verses
    BY <1>2
  <2> QED
    BY <1>3, <1>4, <2>1, <2>2 DEF RangeWhere, Before
<1>6. RangeWhere(juz) \subseteq Mushaf
  BY <1>2 DEF RangeWhere
<1>7. \A v \in Mushaf : ~ Before(v, juz.start) /\ ~ Before(juz.end, v) <=> OfJuz(k, v)
  BY BoundaryIs
<1> QED
  BY <1>5, <1>6, <1>7

LEMMA JuzOnce ==
    ASSUME JuzInv, seeded = Surahs, NEW v \in Mushaf
    PROVE  Cardinality({juz \in Division : v \in RangeWhere(juz)}) = 1
<1>1. PICK k \in 1 .. Cardinality(cuts) : OfJuz(k, v) /\ \A j \in 1 .. Cardinality(cuts) : OfJuz(j, v) => j = k
  BY JuzPartition
<1>2. \A j \in 1 .. Cardinality(cuts) : v \in RangeWhere(Boundary(j)) <=> OfJuz(j, v)
  BY RangeIs
<1>3. {juz \in Division : v \in RangeWhere(juz)} = {Boundary(k)}
  BY <1>1, <1>2 DEF Division
<1> QED
  BY <1>3, FS_Singleton

-----------------------------------------------------------------------------
(* Juz: the pages                                                           *)

PageEntry(set, i) == [verse |-> InOrder(set)[i], indexInJuz |-> i]
PageEntries(set) == [verse : set, indexInJuz : Nat]

\* The first n verses of a juz as pages show them, and as many as p pages hold.
FirstShown(set, n) == [i \in 1 .. n |-> PageEntry(set, i)]
HeldBy(set, limit, p) == IF p * limit <= Cardinality(set) THEN p * limit ELSE Cardinality(set)

LEMMA SeqOfFun ==
    ASSUME NEW S, NEW n \in Nat, NEW f \in [1 .. n -> S]
    PROVE  f \in Seq(S) /\ Len(f) = n /\ DOMAIN f = 1 .. n
<1>1. f \in Seq(S) /\ DOMAIN f = 1 .. n
  OBVIOUS
<1>2. Len(f) \in Nat /\ DOMAIN f = 1 .. Len(f)
  BY <1>1, LenProperties
<1> QED
  BY <1>1, <1>2

LEMMA FirstShownIs ==
    ASSUME NEW set, IsFiniteSet(set), set \subseteq Nat \X Nat, NEW n \in 0 .. Cardinality(set)
    PROVE  /\ FirstShown(set, n) \in Seq(PageEntries(set)) /\ Len(FirstShown(set, n)) = n /\ DOMAIN FirstShown(set, n) = 1 .. n
           /\ \A i \in 1 .. n : FirstShown(set, n)[i] = PageEntry(set, i)
<1>1. PICK N \in Nat : N = Cardinality(set)
  BY FS_CardinalityType
<1>2. \A i \in 1 .. n : i \in 1 .. N /\ i \in Nat
  BY <1>1
<1>3. \A i \in 1 .. n : PageEntry(set, i) \in PageEntries(set)
  BY <1>1, <1>2, InOrderIs DEF PageEntry, PageEntries
<1>4. FirstShown(set, n) \in [1 .. n -> PageEntries(set)] /\ \A i \in 1 .. n : FirstShown(set, n)[i] = PageEntry(set, i)
  BY <1>3 DEF FirstShown
<1>5. n \in Nat
  BY <1>1
<1> QED
  BY <1>4, <1>5, SeqOfFun

\* A page goes on where those before it ended.
LEMMA OnePageMore ==
    ASSUME NEW juz, NEW set, set = RangeWhere(juz), IsFiniteSet(set), set \subseteq Nat \X Nat,
           NEW limit \in Nat \ {0}, NEW p \in Nat \ {0}
    PROVE  /\ HeldBy(set, limit, p) \in 0 .. Cardinality(set) /\ HeldBy(set, limit, p - 1) \in 0 .. Cardinality(set)
           /\ FirstShown(set, HeldBy(set, limit, p - 1)) \o Page(juz, p, limit) = FirstShown(set, HeldBy(set, limit, p))
<1>1. PICK N \in Nat : N = Cardinality(set)
  BY FS_CardinalityType
<1>2. PICK skip \in Nat : skip = (p - 1) * limit
  <2>1. PICK m \in Nat : m = p - 1
    OBVIOUS
  <2>2. m * limit \in Nat
    OBVIOUS
  <2> QED
    BY <2>1, <2>2
<1>3. p * limit = skip + limit
  <2>1. PICK m \in Nat : m = p - 1 /\ p = m + 1
    OBVIOUS
  <2>2. (m + 1) * limit = m * limit + limit
    OBVIOUS
  <2> QED
    BY <1>2, <2>1, <2>2
<1>4. PICK a \in Nat : a = HeldBy(set, limit, p - 1) /\ a = IF skip <= N THEN skip ELSE N
  BY <1>1, <1>2 DEF HeldBy
<1>5. PICK b \in Nat : b = HeldBy(set, limit, p) /\ b = IF skip + limit <= N THEN skip + limit ELSE N
  BY <1>1, <1>3 DEF HeldBy
<1>6. PICK q \in Nat : q = b - a /\ a + q = b
  BY <1>4, <1>5
<1>7. a \in 0 .. N /\ b \in 0 .. N
  BY <1>4, <1>5
<1>8. /\ FirstShown(set, a) \in Seq(PageEntries(set)) /\ Len(FirstShown(set, a)) = a
      /\ FirstShown(set, b) \in Seq(PageEntries(set)) /\ Len(FirstShown(set, b)) = b
      /\ \A i \in 1 .. a : FirstShown(set, a)[i] = PageEntry(set, i)
      /\ \A i \in 1 .. b : FirstShown(set, b)[i] = PageEntry(set, i)
  BY <1>1, <1>7, FirstShownIs
<1>9. Len(InOrder(set)) = N
  <2>1. InOrder(set) \in [1 .. N -> set]
    BY <1>1, InOrderIs
  <2> QED
    BY <2>1, SeqOfFun
<1>10. {k \in 1 .. limit : skip + k <= N} = 1 .. q
  BY <1>4, <1>5, <1>6
<1>11. \A i \in 1 .. q : a = skip /\ skip + i \in 1 .. N /\ skip + i \in Nat
  BY <1>4, <1>5, <1>6
<1>12. Page(juz, p, limit) = [i \in 1 .. q |-> PageEntry(set, skip + i)]
  <2>1. Page(juz, p, limit) =
          [i \in {k \in 1 .. limit : skip + k <= N} |-> [verse |-> InOrder(set)[skip + i], indexInJuz |-> skip + i]]
    BY <1>2, <1>9, Zenon DEF Page
  <2> QED
    BY <1>10, <2>1, Zenon DEF PageEntry
<1>13. /\ Page(juz, p, limit) \in Seq(PageEntries(set)) /\ Len(Page(juz, p, limit)) = q
       /\ \A i \in 1 .. q : Page(juz, p, limit)[i] = PageEntry(set, skip + i)
  <2>1. \A i \in 1 .. q : PageEntry(set, skip + i) \in PageEntries(set)
    BY <1>1, <1>11, InOrderIs DEF PageEntry, PageEntries
  <2>2. Page(juz, p, limit) \in [1 .. q -> PageEntries(set)]
    BY <1>12, <2>1
  <2> QED
    BY <1>12, <2>2, SeqOfFun
<1> DEFINE all == FirstShown(set, a) \o Page(juz, p, limit)
<1>14. /\ all \in Seq(PageEntries(set)) /\ Len(all) = a + q
       /\ \A i \in 1 .. a + q : all[i] = IF i <= a THEN FirstShown(set, a)[i] ELSE Page(juz, p, limit)[i - a]
  <2>1. PICK here : here = FirstShown(set, a)
    OBVIOUS
  <2>2. PICK more : more = Page(juz, p, limit)
    OBVIOUS
  <2>3. PICK E : E = PageEntries(set)
    OBVIOUS
  <2>4. here \in Seq(E) /\ more \in Seq(E) /\ Len(here) = a /\ Len(more) = q
    BY <1>8, <1>13, <2>1, <2>2, <2>3
  <2>5. /\ here \o more \in Seq(E) /\ Len(here \o more) = Len(here) + Len(more)
        /\ \A i \in 1 .. Len(here) + Len(more) : (here \o more)[i] = IF i <= Len(here) THEN here[i] ELSE more[i - Len(here)]
    BY <2>4, ConcatProperties
  <2>6. all = here \o more
    BY <2>1, <2>2
  <2> HIDE DEF all
  <2> QED
    BY <2>1, <2>2, <2>3, <2>4, <2>5, <2>6
<1> HIDE DEF all
<1>15. ASSUME NEW i \in 1 .. b PROVE all[i] = FirstShown(set, b)[i]
  <2>1. i \in 1 .. a + q /\ FirstShown(set, b)[i] = PageEntry(set, i)
    BY <1>6, <1>8
  <2>2. CASE i <= a
    <3>1. i \in 1 .. a
      BY <2>2
    <3> QED
      BY <1>8, <1>14, <2>1, <2>2, <3>1
  <2>3. CASE ~ (i <= a)
    <3>1. i - a \in 1 .. q
      BY <1>6, <2>3
    <3>2. skip + (i - a) = i
      BY <1>11, <3>1
    <3> QED
      BY <1>13, <1>14, <2>1, <2>3, <3>1, <3>2
  <2> QED
    BY <2>2, <2>3
<1>16. all = FirstShown(set, b)
  BY <1>6, <1>8, <1>14, <1>15, SeqEqual
<1> QED
  BY <1>1, <1>4, <1>5, <1>7, <1>16 DEF all

\* The pages read up to the p-th.
IsRead(f, juz, limit, n) == f = [p \in 0 .. n |-> IF p = 0 THEN <<>> ELSE f[p - 1] \o Page(juz, p, limit)]

LEMMA NoPages ==
    ASSUME NEW set, IsFiniteSet(set), set \subseteq Nat \X Nat, NEW limit \in Nat
    PROVE  FirstShown(set, HeldBy(set, limit, 0)) = <<>>
<1>1. HeldBy(set, limit, 0) = 0 /\ 0 \in 0 .. Cardinality(set)
  <2>1. Cardinality(set) \in Nat
    BY FS_CardinalityType
  <2> QED
    BY <2>1 DEF HeldBy
<1>2. FirstShown(set, 0) \in Seq(PageEntries(set)) /\ Len(FirstShown(set, 0)) = 0
  BY <1>1, FirstShownIs
<1> QED
  BY <1>1, <1>2, EmptySeq

LEMMA PagesRead ==
    ASSUME NEW juz, NEW set, set = RangeWhere(juz), IsFiniteSet(set), set \subseteq Nat \X Nat,
           NEW limit \in Nat \ {0}, NEW n \in Nat
    PROVE  /\ \E f : IsRead(f, juz, limit, n)
           /\ \A f : IsRead(f, juz, limit, n) => f[n] = FirstShown(set, HeldBy(set, limit, n))
<1> DEFINE S(p) == FirstShown(set, HeldBy(set, limit, p))
<1>1. S(0) = <<>>
  BY NoPages
<1>2. \A p \in Nat \ {0} : S(p - 1) \o Page(juz, p, limit) = S(p)
  BY OnePageMore
<1> HIDE DEF S
<1>3. \E f : IsRead(f, juz, limit, n)
  <2> DEFINE f == [p \in 0 .. n |-> S(p)]
  <2>1. ASSUME NEW p \in 0 .. n PROVE f[p] = IF p = 0 THEN <<>> ELSE f[p - 1] \o Page(juz, p, limit)
    <3>1. p # 0 => p \in Nat \ {0} /\ p - 1 \in 0 .. n
      OBVIOUS
    <3>2. f[p] = S(p) /\ (p # 0 => f[p - 1] = S(p - 1))
      BY <3>1
    <3> HIDE DEF f
    <3> QED
      BY <1>1, <1>2, <3>1, <3>2
  <2>2. f = [p \in 0 .. n |-> f[p]]
    OBVIOUS
  <2> HIDE DEF f
  <2>3. IsRead(f, juz, limit, n)
    BY <2>1, <2>2, Zenon DEF IsRead
  <2> QED
    BY <2>3
<1>4. ASSUME NEW f, IsRead(f, juz, limit, n) PROVE f[n] = S(n)
  <2>1. \A p \in 0 .. n : f[p] = IF p = 0 THEN <<>> ELSE f[p - 1] \o Page(juz, p, limit)
    BY <1>4, Zenon DEF IsRead
  <2> DEFINE T == {p \in 0 .. n : f[p] # S(p)}
  <2>2. SUFFICES ASSUME T # {} PROVE FALSE
    <3>1. n \in 0 .. n
      OBVIOUS
    <3> QED
      BY <3>1
  <2>3. PICK p \in T : \A o \in T : p <= o
    <3>1. T \subseteq Nat
      OBVIOUS
    <3> HIDE DEF T
    <3> QED
      BY <2>2, <3>1, LeastNat
  <2>4. p \in 0 .. n /\ f[p] # S(p)
    BY <2>3
  <2>5. p # 0
    BY <1>1, <2>1, <2>4
  <2>6. p \in Nat \ {0} /\ p - 1 \in 0 .. n /\ ~ (p <= p - 1)
    BY <2>4, <2>5
  <2>7. f[p - 1] = S(p - 1)
    BY <2>3, <2>6
  <2> QED
    BY <1>2, <2>1, <2>4, <2>5, <2>6, <2>7
<1> QED
  BY <1>3, <1>4 DEF S

\* Who turns all the pages has read the whole range.
LEMMA ReadIs ==
    ASSUME NEW juz, NEW set, set = RangeWhere(juz), IsFiniteSet(set), set \subseteq Nat \X Nat,
           NEW limit \in Nat \ {0}, NEW counted, VerseCountOf(juz, counted) = Cardinality(set)
    PROVE  Read(juz, counted, limit) = FirstShown(set, Cardinality(set))
<1>1. PICK N \in Nat : N = Cardinality(set)
  BY FS_CardinalityType
<1> DEFINE whole == (N + limit - 1) \div limit
<1>2. whole \in Nat /\ whole * limit >= N
  BY PagesCover
<1>3. PICK n \in Nat : n = TotalPages(juz, counted, limit)
  BY <1>1, <1>2 DEF TotalPages
<1>4. n = IF whole = 0 THEN 1 ELSE whole
  BY <1>1, <1>3 DEF TotalPages
<1>5. n * limit >= N
  <2> HIDE DEF whole
  <2> QED
    BY <1>2, <1>4
<1>6. HeldBy(set, limit, n) = N
  <2>1. PICK m \in Nat : m = n * limit
    OBVIOUS
  <2> QED
    BY <1>1, <1>5, <2>1 DEF HeldBy
<1> DEFINE f == CHOOSE f : IsRead(f, juz, limit, n)
<1>7. Read(juz, counted, limit) = f[n]
  BY <1>3, Zenon DEF Read, IsRead
<1>8. IsRead(f, juz, limit, n)
  BY PagesRead, Zenon
<1> HIDE DEF f
<1>9. f[n] = FirstShown(set, HeldBy(set, limit, n))
  BY <1>8, PagesRead
<1> QED
  BY <1>1, <1>6, <1>7, <1>9

-----------------------------------------------------------------------------
(* Sums                                                                     *)

\* A sum over the subsets of a set, of days or of surahs, as Recorded and SumOf
\* take it.
SumAt(f, h, days) ==
    IF days = {} THEN 0 ELSE LET d == CHOOSE d \in days : TRUE IN h[d] + f[days \ {d}]
IsSum(f, h, S) == f = [days \in SUBSET S |-> SumAt(f, h, days)]

LEMMA WithoutOne ==
    ASSUME NEW S, IsFiniteSet(S), NEW days \in SUBSET S, days # {}
    PROVE  LET d == CHOOSE d \in days : TRUE
           IN  /\ d \in days /\ days \ {d} \in SUBSET S
               /\ Cardinality(days) \in Nat /\ Cardinality(days \ {d}) = Cardinality(days) - 1
<1>1. IsFiniteSet(days)
  BY FS_Subset
<1>2. PICK d : d = CHOOSE e \in days : TRUE
  OBVIOUS
<1>3. d \in days
  BY <1>2
<1>4. Cardinality(days \ {d}) = Cardinality(days) - 1 /\ Cardinality(days) \in Nat
  BY <1>1, <1>3, FS_RemoveElement, FS_CardinalityType
<1> QED
  BY <1>2, <1>3, <1>4

\* It exists, for the sum of n days needs only sums of fewer.
LEMMA SumExists ==
    ASSUME NEW S, IsFiniteSet(S), NEW h
    PROVE  \E f : IsSum(f, h, S)
<1> DEFINE Upto(n) == \E f : /\ f = [days \in SUBSET S |-> f[days]]
                             /\ \A days \in SUBSET S : Cardinality(days) <= n => f[days] = SumAt(f, h, days)
           T == {n \in Nat : ~ Upto(n)}
<1>1. Cardinality(S) \in Nat /\ \A days \in SUBSET S : Cardinality(days) \in Nat /\ Cardinality(days) <= Cardinality(S)
  BY FS_CardinalityType, FS_Subset
<1>2. ASSUME T = {} PROVE \E f : IsSum(f, h, S)
  <2>1. Upto(Cardinality(S))
    BY <1>1, <1>2
  <2>2. PICK f : /\ f = [days \in SUBSET S |-> f[days]]
                 /\ \A days \in SUBSET S : Cardinality(days) <= Cardinality(S) => f[days] = SumAt(f, h, days)
    BY <2>1
  <2>3. \A days \in SUBSET S : f[days] = SumAt(f, h, days)
    BY <1>1, <2>2
  <2>4. [days \in SUBSET S |-> f[days]] = [days \in SUBSET S |-> SumAt(f, h, days)]
    BY <2>3
  <2> QED
    BY <2>2, <2>4 DEF IsSum
<1>3. SUFFICES ASSUME T # {} PROVE FALSE
  BY <1>2
<1>4. PICK n \in T : \A m \in T : n <= m
  <2>1. T \subseteq Nat
    OBVIOUS
  <2> HIDE DEF T
  <2> QED
    BY <1>3, <2>1, LeastNat
<1>5. n \in Nat /\ ~ Upto(n)
  BY <1>4
<1>6. CASE n = 0
  <2> DEFINE f == [days \in SUBSET S |-> 0]
  <2>1. \A days \in SUBSET S : Cardinality(days) <= 0 => days = {}
    <3> TAKE days \in SUBSET S
    <3> HAVE Cardinality(days) <= 0
    <3>1. IsFiniteSet(days) /\ Cardinality(days) = 0
      BY <1>1, FS_Subset
    <3> QED
      BY <3>1, FS_EmptySet
  <2>2. \A days \in SUBSET S : Cardinality(days) <= 0 => f[days] = SumAt(f, h, days)
    BY <2>1 DEF SumAt
  <2>3. f = [days \in SUBSET S |-> f[days]]
    OBVIOUS
  <2> QED
    BY <1>5, <1>6, <2>2, <2>3
<1>7. CASE n # 0
  <2>1. n - 1 \in Nat /\ Upto(n - 1)
    <3>1. n - 1 \in Nat /\ ~ (n <= n - 1)
      BY <1>5, <1>7
    <3>2. n - 1 \notin T
      BY <1>4, <3>1, Zenon
    <3> HIDE DEF Upto
    <3> QED
      BY <3>1, <3>2
  <2>2. PICK g : /\ g = [days \in SUBSET S |-> g[days]]
                 /\ \A days \in SUBSET S : Cardinality(days) <= n - 1 => g[days] = SumAt(g, h, days)
    BY <2>1
  <2> DEFINE f == [days \in SUBSET S |-> IF Cardinality(days) = n THEN SumAt(g, h, days) ELSE g[days]]
  <2>3. f = [days \in SUBSET S |-> f[days]]
    OBVIOUS
  <2>4. ASSUME NEW days \in SUBSET S, Cardinality(days) <= n PROVE f[days] = SumAt(f, h, days)
    <3>1. f[days] = SumAt(g, h, days)
      <4>1. Cardinality(days) = n \/ Cardinality(days) <= n - 1
        BY <1>1, <1>5, <2>4
      <4>2. CASE Cardinality(days) = n
        BY <4>2
      <4>3. CASE Cardinality(days) # n
        BY <2>2, <4>1, <4>3
      <4> QED
        BY <4>2, <4>3
    <3>2. CASE days = {}
      BY <3>1, <3>2 DEF SumAt
    <3>3. CASE days # {}
      <4> DEFINE d == CHOOSE e \in days : TRUE
      <4>1. days \ {d} \in SUBSET S /\ Cardinality(days) \in Nat /\ Cardinality(days \ {d}) = Cardinality(days) - 1
        BY <3>3, WithoutOne
      <4>2. Cardinality(days \ {d}) # n
        BY <1>5, <2>4, <4>1
      <4>3. \A some \in SUBSET S : Cardinality(some) # n => f[some] = g[some]
        OBVIOUS
      <4> HIDE DEF f
      <4> QED
        BY <3>1, <3>3, <4>1, <4>2, <4>3 DEF SumAt
    <3> QED
      BY <3>2, <3>3
  <2> QED
    BY <1>5, <2>3, <2>4
<1> QED
  BY <1>6, <1>7

-----------------------------------------------------------------------------
(* Juz: the sizes                                                           *)

OfSurah(set, s) == {v \in set : v[1] = s}
Column(s, lo, hi) == {<<s, x>> : x \in lo .. hi}

\* What is counted set by set is counted in all.
LEMMA SumCounts ==
    ASSUME NEW S, IsFiniteSet(S), NEW f, NEW set, IsFiniteSet(set), \A v \in set : v[1] \in S,
           \A s \in S : f[s] = Cardinality(OfSurah(set, s))
    PROVE  SumOf(f, S) = Cardinality(set)
<1> DEFINE sum == CHOOSE g : IsSum(g, f, S)
           within(X) == {v \in set : v[1] \in X}
           T == {m \in Nat : \E X \in SUBSET S : Cardinality(X) = m /\ sum[X] # Cardinality(within(X))}
<1>1. SumOf(f, S) = sum[S]
  BY Zenon DEF SumOf, IsSum, SumAt
<1>2. IsSum(sum, f, S)
  BY SumExists, Zenon
<1> HIDE DEF sum
<1>3. within(S) = set
  OBVIOUS
<1>4. \A X \in SUBSET S : IsFiniteSet(X) /\ Cardinality(X) \in Nat
  BY FS_Subset, FS_CardinalityType
<1>5. SUFFICES ASSUME T # {} PROVE FALSE
  <2>1. S \in SUBSET S /\ Cardinality(S) \in Nat
    BY <1>4
  <2>2. sum[S] = Cardinality(within(S))
    <3> HIDE DEF within
    <3> QED
      BY <2>1
  <2> QED
    BY <1>1, <1>3, <2>2
<1>6. PICK m \in T : \A i \in T : m <= i
  <2>1. T \subseteq Nat
    OBVIOUS
  <2> HIDE DEF T
  <2> QED
    BY <1>5, <2>1, LeastNat
<1>7. PICK X \in SUBSET S : Cardinality(X) = m /\ sum[X] # Cardinality(within(X))
  BY <1>6
<1>8. sum[X] = SumAt(sum, f, X)
  BY <1>2, Zenon DEF IsSum
<1>9. CASE X = {}
  <2>1. within(X) = {} /\ sum[X] = 0
    BY <1>8, <1>9 DEF SumAt
  <2> QED
    BY <1>7, <2>1, FS_EmptySet
<1>10. CASE X # {}
  <2> DEFINE d == CHOOSE e \in X : TRUE
             rest == X \ {d}
  <2>1. d \in X /\ rest \in SUBSET S /\ Cardinality(rest) = m - 1 /\ m \in Nat /\ Cardinality(rest) \in Nat
    BY <1>4, <1>7, <1>10, WithoutOne
  <2>2. sum[X] = f[d] + sum[rest]
    BY <1>8, <1>10, Zenon DEF SumAt
  <2> HIDE DEF d
  <2>3. sum[rest] = Cardinality(within(rest))
    <3>1. ~ (m <= m - 1) /\ m - 1 \in Nat
      BY <2>1
    <3>2. m - 1 \notin T
      BY <1>6, <3>1
    <3> HIDE DEF within, rest
    <3> QED
      BY <2>1, <3>1, <3>2
  <2> DEFINE one == {v \in set : v[1] = d}
  <2>4. within(X) = one \union within(rest) /\ one \intersect within(rest) = {}
    BY <2>1
  <2>5. IsFiniteSet(one) /\ IsFiniteSet(within(rest))
    <3>1. one \subseteq set /\ within(rest) \subseteq set
      OBVIOUS
    <3> QED
      BY <3>1, FS_Subset
  <2>6. f[d] = Cardinality(one)
    BY <2>1 DEF OfSurah
  <2> HIDE DEF one, within, rest
  <2>7. Cardinality(within(X)) = Cardinality(one) + Cardinality(within(rest)) - Cardinality({})
    BY <2>4, <2>5, FS_Union
  <2>8. Cardinality(one) \in Nat /\ Cardinality(within(rest)) \in Nat /\ Cardinality({}) = 0
    BY <2>5, FS_CardinalityType, FS_EmptySet
  <2> QED
    BY <1>7, <2>2, <2>3, <2>6, <2>7, <2>8
<1> QED
  BY <1>9, <1>10

\* As many verses of a surah as between the numbers.
LEMMA VersesBetween ==
    ASSUME NEW s, NEW lo \in Int, NEW hi \in Int
    PROVE  Cardinality(Column(s, lo, hi)) = IF hi >= lo THEN hi - lo + 1 ELSE 0
<1> DEFINE set == Column(s, lo, hi)
           g == [v \in set |-> v[2]]
<1>1. \A v \in set : v[2] \in lo .. hi /\ v = <<s, v[2]>>
  BY DEF Column
<1>2. g \in [set -> lo .. hi] /\ \A v \in set : g[v] = v[2]
  BY <1>1
<1>3. \A x \in lo .. hi : <<s, x>> \in set /\ g[<<s, x>>] = x
  BY DEF Column
<1> HIDE DEF g, set
<1>4. \A u, v \in set : g[u] = g[v] => u = v
  <2> TAKE u, v \in set
  <2> HAVE g[u] = g[v]
  <2>1. u[2] = v[2]
    BY <1>2
  <2> QED
    BY <1>1, <2>1
<1>5. g \in Injection(set, lo .. hi)
  BY <1>2, <1>4, Zenon DEF Injection, IsInjective
<1>6. g \in Surjection(set, lo .. hi)
  BY <1>2, <1>3 DEF Surjection
<1>7. IsFiniteSet(lo .. hi) /\ Cardinality(lo .. hi) = IF lo > hi THEN 0 ELSE hi - lo + 1
  BY FS_Interval
<1>8. Cardinality(set) = Cardinality(lo .. hi)
  BY <1>5, <1>6, <1>7, FS_Injection
<1> QED
  BY <1>7, <1>8 DEF set

LEMMA VerseCountIs ==
    ASSUME JuzInv, seeded = Surahs, NEW k \in 1 .. Cardinality(cuts), NEW juz, juz = Boundary(k)
    PROVE  VerseCountOf(juz, sizes) = Cardinality(RangeWhere(juz))
<1> DEFINE set == RangeWhere(juz)
           from(s) == IF s = juz.start[1] THEN juz.start[2] ELSE 1
           to(s) == IF s = juz.end[1] THEN juz.end[2] ELSE sizes[s]
           S == SurahIdsForJuz(juz)
           f == [s \in S |-> IF to(s) >= from(s) THEN to(s) - from(s) + 1 ELSE 0]
<1>1. VerseCountOf(juz, sizes) = SumOf(f, S)
  BY DEF VerseCountOf
<1>2. /\ \A x : x \in Mushaf <=> \E s \in Surahs : \E v \in 1 .. sizes[s] : x = <<s, v>>
      /\ \A s \in Surahs : sizes[s] \in Nat /\ sizes[s] >= 1
      /\ IsFiniteSet(Mushaf)
  BY MushafIs DEF JuzInv
<1>3. PICK n \in Nat : Surahs = 1 .. n
  BY SurahsAre
<1>4. PICK s1 \in Surahs : \E x \in 1 .. sizes[s1] : juz.start = <<s1, x>>
  BY <1>2, BoundaryIs
<1>40. PICK s2 \in 1 .. sizes[s1] : juz.start = <<s1, s2>>
  BY <1>4
<1>5. PICK e1 \in Surahs : \E x \in 1 .. sizes[e1] : juz.end = <<e1, x>>
  BY <1>2, BoundaryIs
<1>50. PICK e2 \in 1 .. sizes[e1] : juz.end = <<e1, e2>>
  BY <1>5
<1>6. juz.start[1] = s1 /\ juz.start[2] = s2 /\ juz.end[1] = e1 /\ juz.end[2] = e2
  BY <1>40, <1>50
<1>7. s1 \in Nat /\ e1 \in Nat /\ s2 \in Nat /\ e2 \in Nat /\ sizes[s1] \in Nat /\ sizes[e1] \in Nat
  BY <1>2, <1>3
<1>8. S = s1 .. e1 /\ S \subseteq Surahs
  BY <1>3, <1>6, <1>7 DEF SurahIdsForJuz
<1>9. set = {v \in Mushaf : ~ Before(v, juz.start) /\ ~ Before(juz.end, v)}
  BY RangeIs
<1>10. ASSUME NEW s \in S
       PROVE  /\ from(s) \in Nat /\ from(s) >= 1 /\ to(s) \in Nat /\ to(s) <= sizes[s]
              /\ \A x \in Nat : ~ Before(<<s, x>>, juz.start) /\ ~ Before(juz.end, <<s, x>>) /\ x >= 1 /\ x <= sizes[s]
                                    <=> from(s) <= x /\ x <= to(s)
  <2>1. s \in Nat /\ s1 <= s /\ s <= e1 /\ sizes[s] \in Nat
    BY <1>2, <1>7, <1>8
  <2>2. from(s) = IF s = s1 THEN s2 ELSE 1
    BY <1>6
  <2>3. to(s) = IF s = e1 THEN e2 ELSE sizes[s]
    BY <1>6
  <2>4. \A x \in Nat : /\ Before(<<s, x>>, juz.start) <=> s = s1 /\ x < s2
                       /\ Before(juz.end, <<s, x>>) <=> s = e1 /\ e2 < x
    BY <1>6, <1>7, <2>1 DEF Before
  <2>5. s2 >= 1 /\ s2 <= sizes[s1] /\ e2 >= 1 /\ e2 <= sizes[e1]
    BY <1>7
  <2> HIDE DEF from, to
  <2> QED
    BY <1>7, <2>1, <2>2, <2>3, <2>4, <2>5
<1>11. IsFiniteSet(set)
  BY <1>2, <1>9, FS_Subset
<1>12. \A v \in set : v[1] \in S
  <2> TAKE v \in set
  <2>0. PICK s \in Surahs : \E x \in 1 .. sizes[s] : v = <<s, x>>
    BY <1>2, <1>9
  <2>1. PICK x \in 1 .. sizes[s] : v = <<s, x>>
    BY <2>0
  <2>2. v[1] = s /\ v[2] = x /\ s \in Nat /\ x \in Nat
    BY <1>2, <1>3, <2>1
  <2>3. ~ (s < s1) /\ ~ (e1 < s)
    BY <1>6, <1>9, <2>2 DEF Before
  <2> QED
    BY <1>7, <1>8, <2>2, <2>3
<1>13. ASSUME NEW s \in S PROVE f[s] = Cardinality(OfSurah(set, s))
  <2>1. PICK lo \in Nat, hi \in Nat : lo = from(s) /\ hi = to(s) /\ lo >= 1 /\ hi <= sizes[s]
    BY <1>10
  <2>2. PICK Q : Q = OfSurah(set, s) /\ Q = {v \in set : v[1] = s}
    BY DEF OfSurah
  <2>3. \A x \in Nat : ~ Before(<<s, x>>, juz.start) /\ ~ Before(juz.end, <<s, x>>) /\ x >= 1 /\ x <= sizes[s]
                            <=> lo <= x /\ x <= hi
    <3> HIDE DEF from, to, S
    <3> QED
      BY <1>10, <2>1
  <2>4. s \in Surahs /\ sizes[s] \in Nat
    BY <1>2, <1>8
  <2>5. ASSUME NEW v \in Q PROVE \E x \in lo .. hi : v = <<s, x>>
    <3>1. v \in Mushaf /\ v[1] = s /\ ~ Before(v, juz.start) /\ ~ Before(juz.end, v)
      BY <1>9, <2>2
    <3>2. PICK x \in 1 .. sizes[s] : v = <<s, x>>
      BY <1>2, <3>1
    <3>3. x \in Nat /\ x >= 1 /\ x <= sizes[s]
      BY <2>4
    <3>4. x \in lo .. hi
      BY <2>3, <3>1, <3>2, <3>3
    <3> QED
      BY <3>2, <3>4
  <2>6. ASSUME NEW x \in lo .. hi PROVE <<s, x>> \in Q
    <3>1. x \in Nat /\ lo <= x /\ x <= hi
      BY <2>1
    <3>2. ~ Before(<<s, x>>, juz.start) /\ ~ Before(juz.end, <<s, x>>) /\ x >= 1 /\ x <= sizes[s]
      BY <2>3, <3>1
    <3>3. <<s, x>> \in Mushaf
      <4>1. x \in 1 .. sizes[s]
        BY <2>4, <3>1, <3>2
      <4> QED
        BY <1>2, <2>4, <4>1
    <3>4. <<s, x>> \in set
      BY <1>9, <3>2, <3>3
    <3> QED
      BY <2>2, <3>4
  <2>7. Q = Column(s, lo, hi)
    BY <2>5, <2>6 DEF Column
  <2>8. Cardinality(Q) = IF hi >= lo THEN hi - lo + 1 ELSE 0
    BY <2>7, VersesBetween
  <2>9. f[s] = IF hi >= lo THEN hi - lo + 1 ELSE 0
    BY <2>1
  <2> QED
    BY <2>2, <2>8, <2>9
<1>14. IsFiniteSet(S)
  <2>1. s1 \in Int /\ e1 \in Int
    BY <1>7
  <2>2. IsFiniteSet(s1 .. e1)
    BY <2>1, FS_Interval
  <2> QED
    BY <1>8, <2>2, Zenon
<1> HIDE DEF f, set, S
<1>15. SumOf(f, S) = Cardinality(set)
  BY <1>11, <1>12, <1>13, <1>14, SumCounts
<1> QED
  BY <1>1, <1>15 DEF set

-----------------------------------------------------------------------------
(* Juz: what is promised                                                    *)

LEMMA JuzReadWhole ==
    ASSUME JuzInv, seeded = Surahs, NEW k \in 1 .. Cardinality(cuts), NEW juz, juz = Boundary(k), NEW limit \in Limits
    PROVE  /\ Len(Read(juz, sizes, limit)) = VerseCountOf(juz, sizes)
           /\ \A i \in DOMAIN Read(juz, sizes, limit) :
                /\ Read(juz, sizes, limit)[i].indexInJuz = i
                /\ Read(juz, sizes, limit)[i].verse = InOrder(RangeWhere(juz))[i]
           /\ {Read(juz, sizes, limit)[i].verse : i \in DOMAIN Read(juz, sizes, limit)} =
                {v \in Mushaf : ~ Before(v, juz.start) /\ ~ Before(juz.end, v)}
<1>1. PICK set : set = RangeWhere(juz)
  OBVIOUS
<1>2. set = {v \in Mushaf : ~ Before(v, juz.start) /\ ~ Before(juz.end, v)}
  BY <1>1, RangeIs
<1>3. IsFiniteSet(set) /\ set \subseteq Nat \X Nat
  <2>1. IsFiniteSet(Mushaf) /\ Mushaf \subseteq Nat \X Nat
    BY MushafIs DEF JuzInv
  <2> QED
    BY <1>2, <2>1, FS_Subset
<1>4. limit \in Nat \ {0}
  BY JuzAssumption DEF JuzAssumption
<1>5. PICK N \in Nat : N = Cardinality(set)
  BY <1>3, FS_CardinalityType
<1>6. VerseCountOf(juz, sizes) = Cardinality(set)
  BY <1>1, VerseCountIs
<1>7. PICK seen : seen = Read(juz, sizes, limit)
  OBVIOUS
<1>8. seen = FirstShown(set, Cardinality(set))
  BY <1>1, <1>3, <1>4, <1>6, <1>7, ReadIs
<1>9. Len(seen) = N /\ DOMAIN seen = 1 .. N /\ \A i \in 1 .. N : seen[i] = PageEntry(set, i)
  <2>1. N \in 0 .. N
    OBVIOUS
  <2> QED
    BY <1>3, <1>5, <1>8, <2>1, FirstShownIs
<1>10. \A i \in 1 .. N : seen[i].indexInJuz = i /\ seen[i].verse = InOrder(set)[i]
  BY <1>9 DEF PageEntry
<1>11. {seen[i].verse : i \in DOMAIN seen} = set
  <2>1. \A i \in 1 .. N : InOrder(set)[i] \in set
    BY <1>3, <1>5, InOrderIs
  <2>2. \A v \in set : RankIn(set, v) \in 1 .. N /\ InOrder(set)[RankIn(set, v)] = v
    BY <1>3, <1>5, InOrderIs
  <2> QED
    BY <1>9, <1>10, <2>1, <2>2
<1> QED
  BY <1>1, <1>2, <1>5, <1>6, <1>7, <1>9, <1>10, <1>11

LEMMA JuzInvWhole == JuzInv => JuzWhole
<1> SUFFICES ASSUME JuzInv, NEW counted, counted = (IF cache = <<>> THEN Counts ELSE cache),
                    seeded = Surahs, counted = Counts
             PROVE  /\ \A juz \in Division, limit \in Limits :
                        LET seen == Read(juz, counted, limit)
                        IN  /\ Len(seen) = VerseCountOf(juz, counted)
                            /\ \A i \in DOMAIN seen :
                                /\ seen[i].indexInJuz = i
                                /\ seen[i].verse = InOrder(RangeWhere(juz))[i]
                            /\ {seen[i].verse : i \in DOMAIN seen} =
                                {v \in Mushaf : ~ Before(v, juz.start) /\ ~ Before(juz.end, v)}
                    /\ \A v \in Mushaf : Cardinality({juz \in Division : v \in RangeWhere(juz)}) = 1
  BY DEF JuzWhole
<1>1. counted = sizes
  <2>1. sizes = [s \in Surahs |-> sizes[s]]
    BY DEF JuzInv
  <2>2. Counts = [s \in Surahs |-> sizes[s]]
    BY DEF Counts
  <2> QED
    BY <2>1, <2>2
<1>2. ASSUME NEW juz \in Division, NEW limit \in Limits
      PROVE  LET seen == Read(juz, counted, limit)
             IN  /\ Len(seen) = VerseCountOf(juz, counted)
                 /\ \A i \in DOMAIN seen :
                     /\ seen[i].indexInJuz = i
                     /\ seen[i].verse = InOrder(RangeWhere(juz))[i]
                 /\ {seen[i].verse : i \in DOMAIN seen} =
                     {v \in Mushaf : ~ Before(v, juz.start) /\ ~ Before(juz.end, v)}
  <2>1. PICK k \in 1 .. Cardinality(cuts) : juz = Boundary(k)
    BY DEF Division
  <2> QED
    BY <1>1, <2>1, JuzReadWhole
<1>3. ASSUME NEW v \in Mushaf PROVE Cardinality({juz \in Division : v \in RangeWhere(juz)}) = 1
  BY JuzOnce
<1> QED
  BY <1>2, <1>3

LEMMA JuzInvInit == JuzInit => JuzInv
BY DEF JuzInit, JuzInv

LEMMA JuzInvNext == JuzInv /\ [JuzNext]_juzVars => JuzInv'
<1> SUFFICES ASSUME JuzInv, [JuzNext]_juzVars PROVE JuzInv'
  OBVIOUS
<1>1. sizes' = sizes /\ cuts' = cuts
  BY DEF JuzNext, SeedSurah, CountVerses, FillCache, CacheExpires, juzVars
<1>2. Mushaf' = Mushaf
  BY <1>1 DEF Mushaf
<1>3. LastVerse' = LastVerse
  BY <1>2 DEF LastVerse, InOrder
<1> QED
  BY <1>1, <1>2, <1>3 DEF JuzInv
-----------------------------------------------------------------------------
(* Hijri dates                                                              *)

AskedFor == [kind : Kinds, zone : Zones, adjust : {0, 1}]

\* What the value of an answer says that was computed at a tick.
AnswersAt(request, value, tick) ==
    LET asked == DayIn(0, tick + request.zone)
    IN  /\ request.kind \in {"today", "month"} => \A entry \in value : Belong(entry, request.adjust)
        /\ request.kind = "hijri month" /\ request.zone >= 0 =>
                /\ \A entry \in value : Belong(entry, request.adjust)
                /\ {entry.date - request.adjust : entry \in value} = HijriMonthDays(Feast[1])
        /\ request.kind = "upcoming" =>
                value = {[date |-> d, until |-> d - asked] :
                            d \in {e \in asked .. asked + Ahead - 1 : LibraryToHijri(e - request.adjust) = Feast}}

\* How old the events may be when a value is computed.
AgeRead(kind) == IF ReadsTable(kind) THEN 0 ELSE WeekTtl

FilledFor(request, entry, now) ==
    \E tick \in Int :
        /\ tick <= now /\ entry.expires = tick + TtlOf(request.kind)
        /\ entry.read \in Int /\ entry.read <= tick /\ tick - entry.read <= AgeRead(request.kind)
        /\ AnswersAt(request, entry.value, tick)

EventsKnown ==
    EventsKey \in DOMAIN hijriCache =>
        LET entry == hijriCache[EventsKey]
        IN  entry.read \in Int /\ entry.read <= hijriClock /\ entry.expires = entry.read + WeekTtl

KeyOf(request, n) == <<request.kind, n, request.zone, request.adjust>>

\* An entry was computed for its key's request, before it expires.
HijriInv ==
    /\ hijriClock \in Int /\ IsDate(civil)
    /\ EventsKnown
    /\ \A request \in AskedFor : \A n : KeyOf(request, n) \in DOMAIN hijriCache => FilledFor(request, hijriCache[KeyOf(request, n)], hijriClock)
    /\ HijriAgrees

LEMMA TicksAre ==
    /\ DayTicks \in Int /\ DayTicks > 0
    /\ \A kind \in Kinds : TtlOf(kind) \in Nat /\ AgeRead(kind) \in Nat
    /\ Ahead \in Nat /\ HourTtl \in Nat /\ DayTtl \in Nat /\ WeekTtl \in Nat
    /\ \A place \in Zones : place \in Int /\ place < DayTicks
<1>1. Ahead \in Nat /\ HourTtl \in Nat /\ DayTtl \in Nat /\ WeekTtl \in Nat
  BY HijriAssumption DEF HijriAssumption
<1>2. \A kind \in Kinds : TtlOf(kind) \in Nat /\ AgeRead(kind) \in Nat
  BY <1>1 DEF TtlOf, AgeRead, Kinds, ReadsTable
<1> QED
  BY <1>1, <1>2, HijriAssumption DEF HijriAssumption

\* The table of the library.
LEMMA TableIs ==
    /\ Len(HijriStart) \in Nat
    /\ \A m \in HijriMonths :
        /\ m \in Nat /\ m >= 1 /\ m + 1 <= Len(HijriStart)
        /\ HijriStart[m] \in Int /\ HijriStart[m + 1] \in Int
        /\ HijriStart[m + 1] - HijriStart[m] \in {LongMonth - 1, LongMonth}
    /\ \A i \in 1 .. Len(HijriStart) : HijriStart[i] \in Int
    /\ LongMonth \in Nat /\ LongMonth > 1
<1>1. /\ HijriStart \in Seq(Int) /\ LongMonth \in Nat \ {0, 1}
      /\ \A m \in 1 .. Len(HijriStart) - 1 : HijriStart[m + 1] - HijriStart[m] \in {LongMonth - 1, LongMonth}
  BY HijriAssumption DEF HijriAssumption
<1>2. Len(HijriStart) \in Nat /\ \A i \in 1 .. Len(HijriStart) : HijriStart[i] \in Int
  BY <1>1
<1>3. \A m \in 1 .. Len(HijriStart) - 1 : m \in 1 .. Len(HijriStart) /\ m + 1 \in 1 .. Len(HijriStart)
  BY <1>2
<1> QED
  BY <1>1, <1>2, <1>3 DEF HijriMonths

LEMMA DayInIs ==
    ASSUME NEW place \in Int, NEW tick \in Int
    PROVE  DayIn(place, tick) \in Int
  BY TicksAre DEF DayIn

LEMMA MidnightsDay ==
    ASSUME NEW d \in Int, NEW place \in Nat, place < DayTicks
    PROVE  DayIn(place, MidnightOf(d)) = d
<1>1. \A t \in Nat \ {0} : (d * t + place) \in Int
  OBVIOUS
<1>2. PICK q \in Int : q = DayIn(place, MidnightOf(d))
  BY DayInIs, TicksAre DEF MidnightOf
<1>3. DayTicks * q <= d * DayTicks + place /\ d * DayTicks + place < DayTicks * q + DayTicks
  BY <1>2, TicksAre DEF DayIn, MidnightOf
<1>4. ASSUME q < d PROVE FALSE
  <2>1. DayTicks * (q + 1) <= DayTicks * d
    BY <1>4, TicksAre
  <2> QED
    BY <1>3, <2>1, TicksAre
<1>5. ASSUME d < q PROVE FALSE
  <2>1. DayTicks * (d + 1) <= DayTicks * q
    BY <1>5, TicksAre
  <2> QED
    BY <1>3, <2>1, TicksAre
<1> QED
  BY <1>2, <1>4, <1>5

\* The months of the table follow one another.
LEMMA MonthsFollow ==
    ASSUME NEW m \in HijriMonths, NEW n \in HijriMonths, m < n
    PROVE  HijriStart[m + 1] <= HijriStart[n]
<1> DEFINE Late == {k \in Nat : k >= m + 1 /\ k \in HijriMonths /\ HijriStart[m + 1] > HijriStart[k]}
<1>1. SUFFICES ASSUME Late # {} PROVE FALSE
  <2>1. n \in Nat /\ n >= m + 1 /\ n \in 1 .. Len(HijriStart) /\ m + 1 \in 1 .. Len(HijriStart)
    BY TableIs DEF HijriMonths
  <2>2. HijriStart[n] \in Int /\ HijriStart[m + 1] \in Int
    BY <2>1, TableIs
  <2> QED
    BY <1>1, <2>1, <2>2
<1>2. PICK k \in Late : \A l \in Late : k <= l
  BY <1>1, LeastNat
<1>3. k \in Nat /\ k >= m + 1 /\ HijriStart[m + 1] > HijriStart[k] /\ k \in 1 .. Len(HijriStart) - 1 /\ m \in Nat
  BY <1>2 DEF HijriMonths
<1>4. k # m + 1
  <2>1. HijriStart[k] \in Int
    BY <1>3, TableIs
  <2> QED
    BY <1>3, <2>1
<1>5. k - 1 \in HijriMonths /\ k - 1 >= m + 1 /\ k - 1 \in Nat /\ k - 1 \notin Late
  BY <1>2, <1>3, <1>4, TableIs DEF HijriMonths
<1>6. HijriStart[k - 1] >= HijriStart[m + 1]
  <2>1. HijriStart[k - 1] \in Int /\ HijriStart[m + 1] \in Int
    BY <1>3, <1>5, TableIs DEF HijriMonths
  <2> QED
    BY <1>5, <2>1
<1>7. HijriStart[k] >= HijriStart[k - 1]
  <2>1. PICK j : j = k - 1
    OBVIOUS
  <2>2. j \in HijriMonths /\ j + 1 = k
    BY <1>3, <1>5, <2>1
  <2>3. HijriStart[j + 1] - HijriStart[j] \in {LongMonth - 1, LongMonth} /\ HijriStart[j] \in Int /\ HijriStart[j + 1] \in Int
    BY <2>2, TableIs
  <2>4. HijriStart[j + 1] >= HijriStart[j]
    BY <2>3, TableIs
  <2> QED
    BY <2>1, <2>2, <2>4
<1> QED
  <2>1. HijriStart[k - 1] \in Int /\ HijriStart[m + 1] \in Int /\ HijriStart[k] \in Int
    BY <1>3, <1>5, TableIs DEF HijriMonths
  <2> QED
    BY <1>3, <1>6, <1>7, <2>1

LEMMA MonthIs ==
    ASSUME NEW m \in HijriMonths, NEW d \in HijriMonthDays(m)
    PROVE  MonthOfDay(d) = m
<1>1. \A n \in HijriMonths : HijriStart[n] \in Int /\ HijriStart[n + 1] \in Int /\ n \in Int
  BY TableIs DEF HijriMonths
<1>2. ASSUME NEW n \in HijriMonths, d \in HijriMonthDays(n) PROVE n = m
  <2>1. HijriStart[m] <= d /\ d < HijriStart[m + 1] /\ HijriStart[n] <= d /\ d < HijriStart[n + 1] /\ d \in Int
    BY <1>1, <1>2 DEF HijriMonthDays
  <2>2. ~ n < m /\ ~ m < n
    BY <1>1, <2>1, MonthsFollow
  <2> QED
    BY <1>1, <2>2
<1> QED
  BY <1>2 DEF MonthOfDay

\* The days of a month, as many as its length.
LEMMA MonthCounts ==
    ASSUME NEW m \in HijriMonths
    PROVE  /\ GetHijriMonthLength(m) \in Nat
           /\ \A day \in 1 .. GetHijriMonthLength(m) : LibraryToCivil(m, day) \in HijriMonthDays(m)
           /\ \A d \in HijriMonthDays(m) : /\ d - HijriStart[m] + 1 \in 1 .. GetHijriMonthLength(m)
                                           /\ LibraryToCivil(m, d - HijriStart[m] + 1) = d
<1>1. HijriStart[m] \in Int /\ HijriStart[m + 1] \in Int /\ HijriStart[m + 1] - HijriStart[m] \in {LongMonth - 1, LongMonth}
  BY TableIs DEF HijriMonths
<1>2. LongMonth \in Nat /\ LongMonth > 1
  BY TableIs
<1>3. GetHijriMonthLength(m) = HijriStart[m + 1] - HijriStart[m]
  BY <1>1, <1>2 DEF GetHijriMonthLength, LibraryToCivil, HijriMonthDays
<1> QED
  BY <1>1, <1>2, <1>3 DEF LibraryToCivil, HijriMonthDays

LEMMA ComputedFits ==
    ASSUME NEW request \in AskedFor, hijriClock \in Int
    PROVE  AnswersAt(request, Compute(request), hijriClock)
<1>1. PICK place, adjust : place = request.zone /\ adjust = request.adjust
  OBVIOUS
<1>2. place \in Int /\ place < DayTicks /\ adjust \in Int /\ adjust \in {0, 1} /\ request.kind \in Kinds /\ hijriClock + place \in Int
  BY <1>1, TicksAre DEF AskedFor
<1>3. ASSUME NEW tick PROVE Belong(ConvertInstant(tick, place, adjust), adjust)
  BY DEF Belong, ConvertInstant, HijriInfo, ToHijriNumbers
<1>4. CASE request.kind \in {"today", "month"}
  <2>1. \A entry \in Compute(request) : \E tick : entry = ConvertInstant(tick, place, adjust)
    BY <1>1, <1>4 DEF Compute
  <2>2. \A entry \in Compute(request) : Belong(entry, adjust)
    BY <1>3, <2>1
  <2> QED
    BY <1>1, <1>4, <2>2 DEF AnswersAt
<1>5. CASE request.kind = "hijri month"
  <2> SUFFICES ASSUME place >= 0
               PROVE  /\ \A entry \in Compute(request) : Belong(entry, adjust)
                      /\ {entry.date - adjust : entry \in Compute(request)} = HijriMonthDays(Feast[1])
    BY <1>1, <1>5 DEF AnswersAt
  <2>1. PICK m : m = Feast[1] /\ m \in HijriMonths
    BY HijriAssumption DEF HijriAssumption, HijriMonths
  <2>2. PICK length : length = GetHijriMonthLength(m)
    OBVIOUS
  <2>3. Compute(request) = {FromHijri(m, day, place, adjust) : day \in 1 .. length}
    BY <1>1, <1>5, <2>1, <2>2 DEF Compute
  <2>4. \A d \in HijriMonthDays(m) : d \in Int
    BY <2>1, TableIs DEF HijriMonthDays
  <2>5. ASSUME NEW day \in 1 .. length
        PROVE  LET entry == FromHijri(m, day, place, adjust)
               IN  /\ entry.date - adjust = LibraryToCivil(m, day) /\ entry.hijri = <<m, day>>
                   /\ Belong(entry, adjust)
    <3>1. PICK d : d = LibraryToCivil(m, day)
      OBVIOUS
    <3>2. d \in HijriMonthDays(m) /\ d \in Int /\ d + adjust \in Int /\ HijriStart[m] \in Int
      BY <1>2, <2>1, <2>2, <2>4, <3>1, MonthCounts, TableIs
    <3>3. DayIn(place, MidnightOf(d + adjust)) = d + adjust
      BY <1>2, <3>2, MidnightsDay
    <3>4. PICK entry : entry = FromHijri(m, day, place, adjust)
      OBVIOUS
    <3>5. entry = [hijri |-> <<m, day>>, date |-> d + adjust, feast |-> <<m, day>> = Feast]
      BY <3>1, <3>3, <3>4 DEF FromHijri, HijriInfo
    <3>6. LibraryToHijri(d) = <<m, day>>
      <4>1. MonthOfDay(d) = m
        BY <2>1, <3>2, MonthIs
      <4>2. d - HijriStart[m] + 1 = day
        BY <3>1, <3>2 DEF LibraryToCivil
      <4> QED
        BY <4>1, <4>2 DEF LibraryToHijri
    <3>7. entry.date - adjust = d
      BY <1>2, <3>2, <3>5
    <3>8. entry.hijri = <<m, day>> /\ entry.hijri = LibraryToHijri(entry.date - adjust) /\ (entry.feast <=> entry.hijri = Feast)
      BY <3>5, <3>6, <3>7
    <3> QED
      BY <3>1, <3>4, <3>7, <3>8 DEF Belong
  <2>6. \A entry \in Compute(request) : Belong(entry, adjust)
    BY <2>3, <2>5
  <2>7. {entry.date - adjust : entry \in Compute(request)} = {LibraryToCivil(m, day) : day \in 1 .. length}
    BY <2>3, <2>5
  <2>8. {LibraryToCivil(m, day) : day \in 1 .. length} = HijriMonthDays(m)
    BY <2>1, <2>2, MonthCounts
  <2> QED
    BY <2>1, <2>6, <2>7, <2>8
<1>6. CASE request.kind = "upcoming"
  <2>1. PICK asked : asked = DayIn(0, hijriClock + place)
    OBVIOUS
  <2>2. asked \in Int /\ Ahead \in Nat
    BY <1>2, <2>1, DayInIs, TicksAre
  <2>3. Compute(request) = Upcoming(place, adjust)
    BY <1>1, <1>6 DEF Compute
  <2>4. PICK ahead : ahead = {k \in 0 .. Ahead - 1 : ToHijriNumbers(asked + k, adjust) = Feast}
    OBVIOUS
  <2>5. Compute(request) = {[date |-> asked + i, until |-> i] : i \in ahead}
    BY <2>1, <2>3, <2>4 DEF Upcoming, WallClock
  <2>6. PICK coming : coming = {e \in asked .. asked + Ahead - 1 : LibraryToHijri(e - adjust) = Feast}
    OBVIOUS
  <2>7. PICK feasts : feasts = {[date |-> d, until |-> d - asked] : d \in coming}
    OBVIOUS
  <2>8. ASSUME NEW i \in ahead PROVE \E d \in coming : d = asked + i /\ d - asked = i
    <3>1. PICK d : d = asked + i
      OBVIOUS
    <3>2. i \in 0 .. Ahead - 1 /\ LibraryToHijri(d - adjust) = Feast
      BY <2>4, <3>1 DEF ToHijriNumbers
    <3>3. d \in asked .. asked + Ahead - 1 /\ d - asked = i
      BY <2>2, <3>1, <3>2
    <3>4. d \in coming
      BY <2>6, <3>2, <3>3
    <3> QED
      BY <3>1, <3>3, <3>4
  <2>9. ASSUME NEW d \in coming PROVE d - asked \in ahead /\ asked + (d - asked) = d
    <3>1. PICK i : i = d - asked
      OBVIOUS
    <3>2. d \in asked .. asked + Ahead - 1 /\ LibraryToHijri(d - adjust) = Feast
      BY <2>6
    <3>3. i \in 0 .. Ahead - 1 /\ asked + i = d
      BY <2>2, <3>1, <3>2
    <3>4. ToHijriNumbers(asked + i, adjust) = Feast
      BY <3>2, <3>3 DEF ToHijriNumbers
    <3>5. i \in ahead
      BY <2>4, <3>3, <3>4
    <3> QED
      BY <3>1, <3>3, <3>5
  <2>10. \A x \in Compute(request) : x \in feasts
    <3> SUFFICES ASSUME NEW i \in ahead PROVE [date |-> asked + i, until |-> i] \in feasts
      BY <2>5
    <3>1. PICK d \in coming : d = asked + i /\ d - asked = i
      BY <2>8
    <3> QED
      BY <2>7, <3>1
  <2>11. \A x \in feasts : x \in Compute(request)
    <3> SUFFICES ASSUME NEW d \in coming PROVE [date |-> d, until |-> d - asked] \in Compute(request)
      BY <2>7
    <3>1. PICK i : i = d - asked
      OBVIOUS
    <3>2. i \in ahead /\ asked + i = d
      BY <2>9, <3>1
    <3> QED
      BY <2>5, <3>1, <3>2
  <2>12. Compute(request) = feasts
    BY <2>10, <2>11
  <2> QED
    BY <1>1, <1>6, <2>1, <2>6, <2>7, <2>12 DEF AnswersAt
<1> QED
  BY <1>2, <1>4, <1>5, <1>6 DEF Kinds

\* What HijriAgrees says of one answer.
Agreed(request, value, read, at) ==
    /\ at - read <= OldestEvents(request.kind)
    /\ request.kind \in {"today", "month"} => \A entry \in value : Belong(entry, request.adjust)
    /\ request.kind = "hijri month" /\ request.zone >= 0 =>
            /\ \A entry \in value : Belong(entry, request.adjust)
            /\ {entry.date - request.adjust : entry \in value} = HijriMonthDays(Feast[1])
    /\ request.kind = "upcoming" =>
            \E asked \in {DayIn(0, tick + request.zone) : tick \in at - HourTtl .. at} :
                value = {[date |-> d, until |-> d - asked] :
                            d \in {e \in asked .. asked + Ahead - 1 : LibraryToHijri(e - request.adjust) = Feast}}

LEMMA AgreedIs ==
    HijriAgrees <=>
        (hijriAnswer # <<>> => Agreed(hijriAnswer.request, hijriAnswer.value, hijriAnswer.read, hijriAnswer.at))
  BY Zenon DEF HijriAgrees, Agreed

LEMMA AgreedNext ==
    ASSUME NEW request, NEW value, NEW read, NEW at, Agreed(request, value, read, at),
           hijriAnswer' = [request |-> request, value |-> value, read |-> read, at |-> at]
    PROVE  HijriAgrees'
<1>1. /\ hijriAnswer'.request = request /\ hijriAnswer'.value = value
      /\ hijriAnswer'.read = read /\ hijriAnswer'.at = at
  OBVIOUS
<1>2. Agreed(hijriAnswer'.request, hijriAnswer'.value, hijriAnswer'.read, hijriAnswer'.at)
  BY <1>1, Zenon
<1> QED
  BY <1>2, Zenon DEF HijriAgrees, Agreed

\* An answer that was computed no longer ago than it is kept.
LEMMA AnswerAgrees ==
    ASSUME NEW request \in AskedFor, NEW value, NEW read \in Int, NEW tick \in Int, NEW now \in Int,
           tick <= now, now <= tick + TtlOf(request.kind),
           read <= tick, tick - read <= AgeRead(request.kind), AnswersAt(request, value, tick)
    PROVE  Agreed(request, value, read, now)
<1>1. request.kind \in Kinds
  BY DEF AskedFor
<1>2. now - read <= OldestEvents(request.kind)
  <2>1. AgeRead(request.kind) + TtlOf(request.kind) = OldestEvents(request.kind)
    <3>1. CASE request.kind = "today"
      BY <3>1, TicksAre DEF AgeRead, TtlOf, OldestEvents, ReadsTable
    <3>2. CASE request.kind = "month"
      BY <3>2, TicksAre DEF AgeRead, TtlOf, OldestEvents, ReadsTable
    <3>3. CASE request.kind = "upcoming"
      BY <3>3, TicksAre DEF AgeRead, TtlOf, OldestEvents, ReadsTable
    <3>4. CASE request.kind = "hijri month"
      <4>1. TtlOf(request.kind) = 0
        BY <3>4 DEF TtlOf
      <4>2. OldestEvents(request.kind) = WeekTtl
        BY <3>4 DEF OldestEvents
      <4>3. AgeRead(request.kind) = WeekTtl
        BY <3>4 DEF AgeRead, ReadsTable
      <4> QED
        BY <4>1, <4>2, <4>3, TicksAre
    <3> QED
      BY <1>1, <3>1, <3>2, <3>3, <3>4 DEF Kinds
  <2> QED
    BY <1>1, <2>1, TicksAre
<1>3. request.kind = "upcoming" => tick \in now - HourTtl .. now
  BY TicksAre DEF TtlOf
<1>4. request.kind = "upcoming" =>
        DayIn(0, tick + request.zone) \in {DayIn(0, t + request.zone) : t \in now - HourTtl .. now}
  BY <1>3
<1> QED
  BY <1>2, <1>4, Zenon DEF Agreed, AnswersAt

-----------------------------------------------------------------------------

LEMMA CivilIsDate ==
    ASSUME NEW c, IsDate(c) PROVE IsDate(Tomorrow(c))
<1>1. c.year \in Int /\ c.month \in 1 .. 12 /\ c.day \in 1 .. DaysInMonth(c.year, c.month)
  BY DEF IsDate
<1>2. ASSUME NEW m \in 1 .. 12, NEW y PROVE DaysInMonth(y, m) \in 28 .. 31
  BY <1>2 DEF DaysInMonth
<1>3. CASE c.day < DaysInMonth(c.year, c.month)
  <2>1. Tomorrow(c) = [year |-> c.year, month |-> c.month, day |-> c.day + 1]
    BY <1>3 DEF IsDate, Tomorrow
  <2> QED
    BY <1>1, <1>2, <1>3, <2>1 DEF IsDate
<1>4. CASE ~ c.day < DaysInMonth(c.year, c.month) /\ c.month < 12
  <2>1. Tomorrow(c) = [year |-> c.year, month |-> c.month + 1, day |-> 1]
    BY <1>4 DEF IsDate, Tomorrow
  <2>2. c.month + 1 \in 1 .. 12
    BY <1>1, <1>4
  <2>3. 1 \in 1 .. DaysInMonth(c.year, c.month + 1)
    BY <1>2, <2>2
  <2> QED
    BY <1>1, <2>1, <2>2, <2>3 DEF IsDate
<1>5. CASE ~ c.day < DaysInMonth(c.year, c.month) /\ ~ c.month < 12
  <2>1. Tomorrow(c) = [year |-> c.year + 1, month |-> 1, day |-> 1]
    BY <1>5 DEF Tomorrow
  <2>2. 1 \in 1 .. DaysInMonth(c.year + 1, 1)
    BY <1>2
  <2> QED
    BY <1>1, <2>1, <2>2 DEF IsDate
<1> QED
  BY <1>3, <1>4, <1>5

LEMMA HijriInvInit == HijriInit => HijriInv
<1> SUFFICES ASSUME HijriInit PROVE HijriInv
  OBVIOUS
<1>1. PICK d : d \in CivilMonth /\ hijriClock = MidnightOf(d)
  BY HijriAssumption DEF HijriAssumption, HijriInit
<1>2. d \in Int /\ hijriClock \in Int
  BY <1>1, TicksAre, HijriAssumption DEF HijriAssumption, MidnightOf
<1>3. IsDate(civil)
  BY CivilAssumption DEF CivilAssumption, HijriInit
<1>4. DOMAIN hijriCache = {} /\ hijriAnswer = <<>>
  BY DEF HijriInit
<1> QED
  BY <1>2, <1>3, <1>4, AgreedIs DEF HijriInv, EventsKnown

\* Entries that do not change stay as they were filled.
LEMMA FilledStays ==
    ASSUME NEW request, NEW entry, NEW now \in Int, NEW later \in Int, now <= later, FilledFor(request, entry, now)
    PROVE  FilledFor(request, entry, later)
<1>1. \A tick \in Int : tick <= now => tick <= later
  OBVIOUS
<1> QED
  BY <1>1, Zenon DEF FilledFor

LEMMA HijriTickKeeps == ASSUME HijriInv, HijriTick PROVE HijriInv'
<1>1. hijriClock \in Int /\ hijriClock' = hijriClock + 1 /\ hijriClock' \in Int /\ hijriClock <= hijriClock'
  BY DEF HijriInv, HijriTick
<1>2. PICK alive : alive = {key \in DOMAIN hijriCache : hijriClock + 1 < hijriCache[key].expires}
  OBVIOUS
<1>3. hijriCache' = [key \in alive |-> hijriCache[key]] /\ alive \subseteq DOMAIN hijriCache
  BY <1>2 DEF HijriTick
<1>4. DOMAIN hijriCache' \subseteq DOMAIN hijriCache /\ \A key \in DOMAIN hijriCache' : hijriCache'[key] = hijriCache[key]
  BY <1>3
<1>5. EventsKnown'
  <2> SUFFICES ASSUME EventsKey \in DOMAIN hijriCache'
               PROVE  LET entry == hijriCache'[EventsKey]
                      IN  entry.read \in Int /\ entry.read <= hijriClock' /\ entry.expires = entry.read + WeekTtl
    BY DEF EventsKnown, EventsKey
  <2>1. PICK entry : entry = hijriCache[EventsKey]
    OBVIOUS
  <2>2. entry = hijriCache'[EventsKey] /\ EventsKey \in DOMAIN hijriCache
    BY <1>4, <2>1
  <2>3. entry.read \in Int /\ entry.read <= hijriClock /\ entry.expires = entry.read + WeekTtl
    BY <2>1, <2>2 DEF HijriInv, EventsKnown
  <2> QED
    BY <1>1, <2>2, <2>3
<1>6. ASSUME NEW request \in AskedFor, NEW n, KeyOf(request, n) \in DOMAIN hijriCache'
      PROVE  FilledFor(request, hijriCache'[KeyOf(request, n)], hijriClock')
  <2>1. PICK entry : entry = hijriCache[KeyOf(request, n)]
    OBVIOUS
  <2>2. hijriCache'[KeyOf(request, n)] = entry /\ FilledFor(request, entry, hijriClock)
    BY <1>4, <1>6, <2>1 DEF HijriInv
  <2> QED
    BY <1>1, <2>2, FilledStays
<1>7. HijriAgrees'
  BY DEF HijriAgrees, HijriTick
<1>8. IsDate(civil)'
  BY DEF HijriInv, HijriTick, IsDate
<1> QED
  BY <1>1, <1>5, <1>6, <1>7, <1>8 DEF HijriInv, KeyOf

LEMMA TurnKeeps == ASSUME HijriInv, Turn PROVE HijriInv'
<1>1. UNCHANGED <<hijriClock, hijriCache, hijriAnswer>> /\ civil' = Tomorrow(civil)
  BY DEF Turn
<1>2. IsDate(civil')
  BY <1>1, CivilIsDate DEF HijriInv
<1>3. HijriAgrees' /\ EventsKnown'
  BY <1>1 DEF HijriInv, HijriAgrees, EventsKnown, EventsKey
<1> QED
  BY <1>1, <1>2, <1>3 DEF HijriInv, KeyOf

\* Different requests have different keys.
LEMMA KeysDiffer ==
    ASSUME NEW request \in AskedFor, NEW other \in AskedFor, NEW n, NEW k
    PROVE  /\ KeyOf(request, n) # EventsKey
           /\ KeyOf(request, n) = KeyOf(other, k) => request = other
<1>1. Len(KeyOf(request, n)) = 4 /\ Len(EventsKey) = 1
  BY DEF KeyOf, EventsKey
<1>2. /\ request = [kind |-> request.kind, zone |-> request.zone, adjust |-> request.adjust]
      /\ other = [kind |-> other.kind, zone |-> other.zone, adjust |-> other.adjust]
  BY DEF AskedFor
<1>3. KeyOf(request, n) = KeyOf(other, k) =>
        request.kind = other.kind /\ request.zone = other.zone /\ request.adjust = other.adjust
  BY DEF KeyOf
<1> QED
  BY <1>1, <1>2, <1>3

LEMMA HijriKeyIs ==
    ASSUME NEW request PROVE \E n : CacheKey(request) = KeyOf(request, n)
  BY DEF CacheKey, KeyOf

LEMMA EventsReadIs ==
    ASSUME HijriInv
    PROVE  EventsRead \in Int /\ EventsRead <= hijriClock /\ hijriClock - EventsRead <= WeekTtl
<1>1. CASE Cached(EventsKey)
  <2>1. PICK entry : entry = hijriCache[EventsKey]
    OBVIOUS
  <2>2. entry.read \in Int /\ entry.read <= hijriClock /\ entry.expires = entry.read + WeekTtl /\ hijriClock < entry.expires
    BY <1>1, <2>1 DEF Cached, HijriInv, EventsKnown
  <2>3. EventsRead = entry.read
    BY <1>1, <2>1 DEF EventsRead
  <2> QED
    BY <2>2, <2>3, TicksAre DEF HijriInv
<1>2. CASE ~ Cached(EventsKey)
  BY <1>2, TicksAre DEF EventsRead, HijriInv
<1> QED
  BY <1>1, <1>2

LEMMA AskKeeps == ASSUME HijriInv, NEW request \in AskedFor, AskCalendar(request) PROVE HijriInv'
<1>1. hijriClock \in Int /\ UNCHANGED <<hijriClock, civil>>
  BY DEF HijriInv, AskCalendar
<1>2. PICK n : CacheKey(request) = KeyOf(request, n)
  BY HijriKeyIs
<1>3. PICK key : key = KeyOf(request, n)
  OBVIOUS
<1>4. PICK value, read : value = Compute(request) /\ read = IF ReadsTable(request.kind) THEN hijriClock ELSE EventsRead
  OBVIOUS
<1>5. PICK indexed : indexed = IF ReadsTable(request.kind) \/ Cached(EventsKey) THEN hijriCache
                               ELSE Keep(EventsKey, {}, hijriClock, WeekTtl, hijriCache)
  OBVIOUS
<1>6. IF Cached(key)
      THEN /\ hijriAnswer' = [request |-> request, value |-> hijriCache[key].value,
                              read |-> hijriCache[key].read, at |-> hijriClock]
           /\ hijriCache' = hijriCache
      ELSE /\ hijriAnswer' = [request |-> request, value |-> value, read |-> read, at |-> hijriClock]
           /\ hijriCache' = IF TtlOf(request.kind) = 0 THEN indexed
                            ELSE Keep(key, value, read, TtlOf(request.kind), indexed)
  BY <1>2, <1>3, <1>4, <1>5, Zenon DEF AskCalendar
<1>7. request.kind \in Kinds /\ TtlOf(request.kind) \in Nat /\ AgeRead(request.kind) \in Nat /\ WeekTtl \in Nat
  BY TicksAre DEF AskedFor
<1>8. /\ read \in Int /\ read <= hijriClock /\ hijriClock - read <= AgeRead(request.kind)
      /\ AnswersAt(request, value, hijriClock)
  BY <1>1, <1>4, ComputedFits, EventsReadIs DEF AgeRead
<1>9. IsDate(civil')
  BY <1>1 DEF HijriInv
<1>10. CASE Cached(key)
  <2>1. PICK entry : entry = hijriCache[key]
    OBVIOUS
  <2>2. FilledFor(request, entry, hijriClock) /\ hijriClock < entry.expires
    BY <1>3, <1>10, <2>1 DEF HijriInv, Cached
  <2>3. PICK tick \in Int :
          /\ tick <= hijriClock /\ entry.expires = tick + TtlOf(request.kind)
          /\ entry.read \in Int /\ entry.read <= tick /\ tick - entry.read <= AgeRead(request.kind)
          /\ AnswersAt(request, entry.value, tick)
    BY <2>2 DEF FilledFor
  <2>4. Agreed(request, entry.value, entry.read, hijriClock)
    BY <1>1, <1>7, <2>2, <2>3, AnswerAgrees
  <2>5. hijriAnswer' = [request |-> request, value |-> entry.value, read |-> entry.read, at |-> hijriClock]
        /\ hijriCache' = hijriCache
    BY <1>6, <1>10, <2>1
  <2>6. HijriAgrees'
    BY <2>4, <2>5, AgreedNext, Zenon
  <2> QED
    BY <1>1, <1>9, <2>5, <2>6 DEF HijriInv, EventsKnown, EventsKey, KeyOf
<1>11. CASE ~ Cached(key)
  <2>1. hijriAnswer' = [request |-> request, value |-> value, read |-> read, at |-> hijriClock]
        /\ hijriCache' = IF TtlOf(request.kind) = 0 THEN indexed ELSE Keep(key, value, read, TtlOf(request.kind), indexed)
    BY <1>6, <1>11
  <2>2. Agreed(request, value, read, hijriClock)
    BY <1>1, <1>7, <1>8, AnswerAgrees
  <2>3. PICK filled : filled = [value |-> value, read |-> read, expires |-> hijriClock + TtlOf(request.kind)]
    OBVIOUS
  <2>4. FilledFor(request, filled, hijriClock)
    <3>1. filled.value = value /\ filled.read = read /\ filled.expires = hijriClock + TtlOf(request.kind)
      BY <2>3
    <3> QED
      BY <1>1, <1>8, <3>1 DEF FilledFor
  <2>5. /\ EventsKey \in DOMAIN indexed =>
            /\ indexed[EventsKey].read \in Int /\ indexed[EventsKey].read <= hijriClock
            /\ indexed[EventsKey].expires = indexed[EventsKey].read + WeekTtl
        /\ \A k \in DOMAIN indexed \ {EventsKey} : k \in DOMAIN hijriCache /\ indexed[k] = hijriCache[k]
    <3>1. CASE ReadsTable(request.kind) \/ Cached(EventsKey)
      BY <1>5, <3>1 DEF HijriInv, EventsKnown
    <3>2. CASE ~ (ReadsTable(request.kind) \/ Cached(EventsKey))
      <4>1. indexed = Keep(EventsKey, {}, hijriClock, WeekTtl, hijriCache)
        BY <1>5, <3>2
      <4>2. /\ DOMAIN indexed = DOMAIN hijriCache \union {EventsKey}
            /\ indexed[EventsKey] = [value |-> {}, read |-> hijriClock, expires |-> hijriClock + WeekTtl]
            /\ \A k \in DOMAIN hijriCache : k # EventsKey => indexed[k] = hijriCache[k]
        BY <4>1 DEF Keep
      <4> QED
        BY <1>1, <4>2
    <3> QED
      BY <3>1, <3>2
  <2>6. /\ \A k \in DOMAIN hijriCache' \ {key} : k \in DOMAIN indexed /\ hijriCache'[k] = indexed[k]
        /\ key \in DOMAIN hijriCache' => hijriCache'[key] = filled \/ (key \in DOMAIN indexed /\ hijriCache'[key] = indexed[key])
    <3>1. CASE TtlOf(request.kind) = 0
      BY <2>1, <3>1
    <3>2. CASE TtlOf(request.kind) # 0
      <4>1. hijriCache' = Keep(key, value, read, TtlOf(request.kind), indexed)
        BY <2>1, <3>2
      <4>2. /\ DOMAIN hijriCache' = DOMAIN indexed \union {key} /\ hijriCache'[key] = filled
            /\ \A k \in DOMAIN indexed : k # key => hijriCache'[k] = indexed[k]
        BY <2>3, <4>1 DEF Keep
      <4> QED
        BY <4>2
    <3> QED
      BY <3>1, <3>2
  <2>7. EventsKey # key
    BY <1>3, KeysDiffer
  <2>8. EventsKnown'
    BY <1>1, <2>5, <2>6, <2>7 DEF EventsKnown, EventsKey
  <2>9. ASSUME NEW other \in AskedFor, NEW k, KeyOf(other, k) \in DOMAIN hijriCache'
        PROVE  FilledFor(other, hijriCache'[KeyOf(other, k)], hijriClock)
    <3>1. KeyOf(other, k) # EventsKey
      BY KeysDiffer
    <3>2. CASE KeyOf(other, k) \in DOMAIN indexed /\ hijriCache'[KeyOf(other, k)] = indexed[KeyOf(other, k)]
      BY <2>5, <3>1, <3>2 DEF HijriInv
    <3>3. CASE KeyOf(other, k) = key /\ hijriCache'[key] = filled
      <4>1. other = request
        BY <1>3, <3>3, KeysDiffer
      <4> QED
        BY <2>4, <3>3, <4>1
    <3> QED
      BY <2>6, <2>9, <3>2, <3>3
  <2>10. HijriAgrees'
    BY <2>1, <2>2, AgreedNext, Zenon
  <2> QED
    BY <1>1, <1>9, <2>8, <2>9, <2>10 DEF HijriInv, KeyOf
<1> QED
  BY <1>10, <1>11

LEMMA HijriInvNext == HijriInv /\ [HijriNext]_hijriVars => HijriInv'
<1> SUFFICES ASSUME HijriInv, [HijriNext]_hijriVars PROVE HijriInv'
  OBVIOUS
<1>1. ASSUME NEW kind \in Kinds, NEW place \in Zones, NEW adjust \in {0, 1}, AskCalendar(Request(kind, place, adjust))
      PROVE  HijriInv'
  <2>1. Request(kind, place, adjust) \in AskedFor
    BY DEF Request, AskedFor
  <2> QED
    BY <1>1, <2>1, AskKeeps
<1>2. CASE UNCHANGED hijriVars
  BY <1>2 DEF hijriVars, HijriInv, HijriAgrees, EventsKnown, EventsKey, KeyOf
<1> QED
  BY <1>1, <1>2, HijriTickKeeps, TurnKeeps DEF HijriNext

\* The month and the day of a place in a year.
LEMMA MonthStep ==
    ASSUME NEW z \in 30 .. 384, NEW m, m = (24 * z) \div 709, NEW d, d = z - (709 * m) \div 24
    PROVE  /\ m \in 1 .. 12 /\ d \in 1 .. 30 
           /\ z = 30 => m = 1 /\ d = 1
           /\ z >= 383 => m = 12 /\ d \in {29, 30}
  OBVIOUS

LEMMA MonthStep2 ==
    ASSUME NEW z \in 30 .. 383, NEW m, m = (24 * z) \div 709, NEW d, d = z - (709 * m) \div 24,
           NEW m2, m2 = (24 * (z + 1)) \div 709, NEW d2, d2 = z + 1 - (709 * m2) \div 24
    PROVE  \/ m2 = m /\ d2 = d + 1 /\ d < 30
           \/ m2 = m + 1 /\ d2 = 1 /\ d \in {29, 30} /\ m < 12
  OBVIOUS

\* The years of the first half of a cycle and of the second are counted apart.
EarlyDays == 355 .. 5669
EarlyYearOf(w) == (50 * w) \div 17719
EarlyBefore(j) == (17719 * j) \div 50
LateDays == 5670 .. 10985
LateYearOf(w) == (43 * w) \div 15238
LateBefore(j) == (15238 * j) \div 43

LEMMA Early ==
    ASSUME NEW w \in EarlyDays
    PROVE  (10985 - w) \div 5316 = 1 /\ w \div 5670 = 0 /\ EarlyYearOf(w) \in 1 .. 15
  BY DEF EarlyDays, EarlyYearOf

LEMMA Late ==
    ASSUME NEW w \in LateDays
    PROVE  (10985 - w) \div 5316 = 0 /\ w \div 5670 = 1 /\ LateYearOf(w) \in 16 .. 30
  BY DEF LateDays, LateYearOf

LEMMA EarlyDay ==
    ASSUME NEW w \in EarlyDays, NEW j, j = EarlyYearOf(w), NEW z, z = w - EarlyBefore(j) + 29,
           NEW v, v = w + 1, NEW k, k = EarlyYearOf(v)
    PROVE  /\ z \in 30 .. 384
           /\ k = j => z < 384
           /\ k # j => z >= 383 /\ k = j + 1 /\ v - EarlyBefore(k) + 29 = 30
<1>1. PICK q : q = (17719 * j) \div 50
  OBVIOUS
<1>2. PICK p : p = (17719 * (j + 1)) \div 50
  OBVIOUS
<1>3. j \in 1 .. 15
  BY DEF EarlyDays, EarlyYearOf
<1>4. \/ j = 1 /\ q = 354 /\ p = 708
      \/ j = 2 /\ q = 708 /\ p = 1063
      \/ j = 3 /\ q = 1063 /\ p = 1417
      \/ j = 4 /\ q = 1417 /\ p = 1771
      \/ j = 5 /\ q = 1771 /\ p = 2126
      \/ j = 6 /\ q = 2126 /\ p = 2480
      \/ j = 7 /\ q = 2480 /\ p = 2835
      \/ j = 8 /\ q = 2835 /\ p = 3189
      \/ j = 9 /\ q = 3189 /\ p = 3543
      \/ j = 10 /\ q = 3543 /\ p = 3898
      \/ j = 11 /\ q = 3898 /\ p = 4252
      \/ j = 12 /\ q = 4252 /\ p = 4606
      \/ j = 13 /\ q = 4606 /\ p = 4961
      \/ j = 14 /\ q = 4961 /\ p = 5315
      \/ j = 15 /\ q = 5315 /\ p = 5670
  BY <1>1, <1>2, <1>3
<1>5. /\ 17719 * j <= 50 * w /\ 50 * w < 17719 * j + 17719 /\ w \in Int
      /\ 17719 * k <= 50 * (w + 1) /\ 50 * (w + 1) < 17719 * k + 17719 /\ k \in Int
  BY DEF EarlyDays, EarlyYearOf
<1>6. k \in {j, j + 1}
  BY <1>3, <1>5
<1>7. z = w - q + 29
  BY <1>1 DEF EarlyBefore
<1>8. k = j + 1 => v - EarlyBefore(k) + 29 = v - p + 29
  BY <1>2 DEF EarlyBefore
<1>9. z \in 30 .. 384 /\ (k = j => z < 384) /\ (k = j + 1 => z >= 383 /\ v - p + 29 = 30)
  BY <1>3, <1>4, <1>5, <1>6, <1>7
<1> QED
  BY <1>3, <1>6, <1>8, <1>9

LEMMA LateDay ==
    ASSUME NEW w \in LateDays, NEW j, j = LateYearOf(w), NEW z, z = w - LateBefore(j) + 29,
           NEW v, v = w + 1, NEW k, k = LateYearOf(v)
    PROVE  /\ z \in 30 .. 384
           /\ k = j => z < 384
           /\ k # j => z >= 383 /\ k = j + 1 /\ v - LateBefore(k) + 29 = 30
<1>1. PICK q : q = (15238 * j) \div 43
  OBVIOUS
<1>2. PICK p : p = (15238 * (j + 1)) \div 43
  OBVIOUS
<1>3. j \in 16 .. 30
  BY DEF LateDays, LateYearOf
<1>4. \/ j = 16 /\ q = 5669 /\ p = 6024
      \/ j = 17 /\ q = 6024 /\ p = 6378
      \/ j = 18 /\ q = 6378 /\ p = 6733
      \/ j = 19 /\ q = 6733 /\ p = 7087
      \/ j = 20 /\ q = 7087 /\ p = 7441
      \/ j = 21 /\ q = 7441 /\ p = 7796
      \/ j = 22 /\ q = 7796 /\ p = 8150
      \/ j = 23 /\ q = 8150 /\ p = 8504
      \/ j = 24 /\ q = 8504 /\ p = 8859
      \/ j = 25 /\ q = 8859 /\ p = 9213
      \/ j = 26 /\ q = 9213 /\ p = 9568
      \/ j = 27 /\ q = 9568 /\ p = 9922
      \/ j = 28 /\ q = 9922 /\ p = 10276
      \/ j = 29 /\ q = 10276 /\ p = 10631
      \/ j = 30 /\ q = 10631 /\ p = 10985
  BY <1>1, <1>2, <1>3
<1>5. /\ 15238 * j <= 43 * w /\ 43 * w < 15238 * j + 15238 /\ w \in Int
      /\ 15238 * k <= 43 * (w + 1) /\ 43 * (w + 1) < 15238 * k + 15238 /\ k \in Int
  BY DEF LateDays, LateYearOf
<1>6. k \in {j, j + 1}
  BY <1>3, <1>5
<1>7. z = w - q + 29
  BY <1>1 DEF LateBefore
<1>8. k = j + 1 => v - LateBefore(k) + 29 = v - p + 29
  BY <1>2 DEF LateBefore
<1>9. z \in 30 .. 384 /\ (k = j => z < 384) /\ (k = j + 1 => z >= 383 /\ v - p + 29 = 30)
  BY <1>3, <1>4, <1>5, <1>6, <1>7
<1> QED
  BY <1>3, <1>6, <1>8, <1>9

\* The leap days of the years up to this one.
LeapDays(y) == y \div 4 - y \div 100 + y \div 400

LEMMA LeapDaysAre ==
    ASSUME NEW y \in Int PROVE LeapDays(y) \in Int
  BY DEF LeapDays

LEMMA YearsBefore ==
    ASSUME NEW y \in Int
    PROVE  LeapDays(y + 1) = LeapDays(y) + (IF Leap(y + 1) THEN 1 ELSE 0)
<1>1. (y + 1) \div 4 = y \div 4 + (IF (y + 1) % 4 = 0 THEN 1 ELSE 0)
  OBVIOUS
<1>2. (y + 1) \div 100 = y \div 100 + (IF (y + 1) % 100 = 0 THEN 1 ELSE 0)
  OBVIOUS
<1>3. (y + 1) \div 400 = y \div 400 + (IF (y + 1) % 400 = 0 THEN 1 ELSE 0)
  OBVIOUS
<1>4. ((y + 1) % 400 = 0 => (y + 1) % 100 = 0) /\ ((y + 1) % 100 = 0 => (y + 1) % 4 = 0)
  OBVIOUS
<1>5. /\ (y + 1) \div 4 \in Int /\ (y + 1) \div 100 \in Int /\ (y + 1) \div 400 \in Int
      /\ y \div 4 \in Int /\ y \div 100 \in Int /\ y \div 400 \in Int
  OBVIOUS
<1> QED
  BY <1>1, <1>2, <1>3, <1>4, <1>5 DEF Leap, LeapDays

LEMMA JulianIs ==
    ASSUME NEW c, IsDate(c)
    PROVE  LET y == IF c.month <= 2 THEN c.year + 4799 ELSE c.year + 4800
               m == IF c.month <= 2 THEN c.month + 9 ELSE c.month - 3
           IN  ToJulianDay(c) = c.day + (153 * m + 2) \div 5 + 365 * y + LeapDays(y) - 32045
<1>1. c.month \in 1 .. 12 /\ c.year \in Int /\ c.day \in Int
  BY DEF IsDate, DaysInMonth
<1>2. (14 - c.month) \div 12 = IF c.month <= 2 THEN 1 ELSE 0
  BY <1>1
<1>3. CASE c.month <= 2
  <2>1. /\ c.year + 4800 - (14 - c.month) \div 12 = c.year + 4799
        /\ c.month + 12 * ((14 - c.month) \div 12) - 3 = c.month + 9
    BY <1>1, <1>2, <1>3
  <2>2. PICK y, m : y = c.year + 4799 /\ m = c.month + 9
    OBVIOUS
  <2>3. ToJulianDay(c) = c.day + (153 * m + 2) \div 5 + 365 * y + y \div 4 - y \div 100 + y \div 400 - 32045
    BY <2>1, <2>2 DEF ToJulianDay
  <2>4. c.day + (153 * m + 2) \div 5 + 365 * y \in Int /\ y \div 4 \in Int /\ y \div 100 \in Int /\ y \div 400 \in Int
    BY <1>1, <2>2
  <2> QED
    BY <1>3, <2>2, <2>3, <2>4 DEF LeapDays
<1>4. CASE ~ c.month <= 2
  <2>1. /\ c.year + 4800 - (14 - c.month) \div 12 = c.year + 4800
        /\ c.month + 12 * ((14 - c.month) \div 12) - 3 = c.month - 3
    BY <1>1, <1>2, <1>4
  <2>2. PICK y, m : y = c.year + 4800 /\ m = c.month - 3
    OBVIOUS
  <2>3. ToJulianDay(c) = c.day + (153 * m + 2) \div 5 + 365 * y + y \div 4 - y \div 100 + y \div 400 - 32045
    BY <2>1, <2>2 DEF ToJulianDay
  <2>4. c.day + (153 * m + 2) \div 5 + 365 * y \in Int /\ y \div 4 \in Int /\ y \div 100 \in Int /\ y \div 400 \in Int
    BY <1>1, <2>2
  <2> QED
    BY <1>4, <2>2, <2>3, <2>4 DEF LeapDays
<1> QED
  BY <1>3, <1>4

LEMMA LeapShift ==
    ASSUME NEW y \in Int PROVE Leap(y + 4800) <=> Leap(y)
<1>1. (y + 4800) % 4 = y % 4 /\ (y + 4800) % 100 = y % 100 /\ (y + 4800) % 400 = y % 400
  OBVIOUS
<1> QED
  BY <1>1 DEF Leap

LEMMA JulianNext ==
    ASSUME NEW c, IsDate(c) PROVE ToJulianDay(c) \in Int /\ ToJulianDay(Tomorrow(c)) = ToJulianDay(c) + 1
<1>1. PICK year, month, day : year = c.year /\ month = c.month /\ day = c.day
  OBVIOUS
<1>2. year \in Int /\ month \in 1 .. 12 /\ day \in 1 .. DaysInMonth(year, month) /\ c = [year |-> year, month |-> month, day |-> day]
  BY <1>1 DEF IsDate
<1>3. PICK last : last = DaysInMonth(year, month)
  OBVIOUS
<1>4. last = IF month = 2 THEN (IF Leap(year) THEN 29 ELSE 28) ELSE IF month \in {4, 6, 9, 11} THEN 30 ELSE 31
  BY <1>2, <1>3 DEF DaysInMonth
<1>5. \A x \in Int : LeapDays(x) \in Int
  BY LeapDaysAre
<1>6. PICK y, m : /\ y = IF month <= 2 THEN year + 4799 ELSE year + 4800
                  /\ m = IF month <= 2 THEN month + 9 ELSE month - 3
  OBVIOUS
<1>7. y \in Int /\ m \in 0 .. 11
  BY <1>2, <1>6
<1>8. ToJulianDay(c) = day + (153 * m + 2) \div 5 + 365 * y + LeapDays(y) - 32045 /\ ToJulianDay(c) \in Int
  <2>1. ToJulianDay(c) = day + (153 * m + 2) \div 5 + 365 * y + LeapDays(y) - 32045
    BY <1>1, <1>6, JulianIs
  <2>2. day \in Int
    BY <1>2, <1>3, <1>4
  <2> QED
    BY <1>5, <1>7, <2>1, <2>2
<1>9. IsDate(Tomorrow(c))
  BY CivilIsDate
<1>10. CASE day < last
  <2>1. PICK d : d = [year |-> year, month |-> month, day |-> day + 1]
    OBVIOUS
  <2>2. d = Tomorrow(c) /\ d.year = year /\ d.month = month /\ d.day = day + 1
    BY <1>2, <1>3, <1>10, <2>1 DEF Tomorrow
  <2>3. ToJulianDay(d) = day + 1 + (153 * m + 2) \div 5 + 365 * y + LeapDays(y) - 32045
    BY <1>6, <1>9, <2>2, JulianIs
  <2>4. day \in Int
    BY <1>2, <1>3, <1>4
  <2> QED
    BY <1>5, <1>7, <1>8, <2>2, <2>3, <2>4
<1>11. CASE ~ day < last /\ month < 12
  <2>1. PICK d : d = [year |-> year, month |-> month + 1, day |-> 1]
    OBVIOUS
  <2>2. d = Tomorrow(c) /\ d.year = year /\ d.month = month + 1 /\ d.day = 1
    BY <1>2, <1>3, <1>11, <2>1 DEF Tomorrow
  <2>3. day = last
    BY <1>2, <1>3, <1>4, <1>11
  <2>4. CASE month = 2
    <3>1. ToJulianDay(d) = 1 + (153 * 0 + 2) \div 5 + 365 * (year + 4800) + LeapDays(year + 4800) - 32045
      <4>1. d.month = 3 /\ ~ d.month <= 2 /\ d.month - 3 = 0
        BY <2>2, <2>4
      <4> QED
        BY <1>9, <2>2, <4>1, JulianIs
    <3>2. ToJulianDay(d) = 1 + 365 * (year + 4800) + LeapDays(year + 4800) - 32045
      BY <1>2, <1>5, <3>1
    <3>3. y = year + 4799 /\ m = 11 /\ (153 * m + 2) \div 5 = 337
      BY <1>2, <1>6, <2>4
    <3>4. LeapDays(year + 4800) = LeapDays(y) + (IF Leap(year) THEN 1 ELSE 0)
      <4>1. y + 1 = year + 4800 /\ y + 1 \in Int
        BY <1>2, <3>3
      <4>2. LeapDays(y + 1) = LeapDays(y) + (IF Leap(y + 1) THEN 1 ELSE 0)
        BY <1>5, <1>7, <4>1, YearsBefore
      <4> QED
        BY <1>2, <4>1, <4>2, LeapShift
    <3>5. day = IF Leap(year) THEN 29 ELSE 28
      BY <1>4, <2>3, <2>4
    <3> QED
      BY <1>2, <1>5, <1>7, <1>8, <2>2, <3>2, <3>3, <3>4, <3>5
  <2>5. CASE month # 2
    <3>1. ToJulianDay(d) = 1 + (153 * (m + 1) + 2) \div 5 + 365 * y + LeapDays(y) - 32045
      <4>1. CASE month <= 2
        <5>1. d.month <= 2 /\ d.month + 9 = m + 1 /\ y = d.year + 4799
          BY <1>2, <1>6, <2>2, <2>5, <4>1
        <5> QED
          BY <1>9, <2>2, <5>1, JulianIs
      <4>2. CASE ~ month <= 2
        <5>1. ~ d.month <= 2 /\ d.month - 3 = m + 1 /\ y = d.year + 4800
          BY <1>2, <1>6, <2>2, <2>5, <4>2
        <5> QED
          BY <1>9, <2>2, <5>1, JulianIs
      <4> QED
        BY <4>1, <4>2
    <3>2. (153 * (m + 1) + 2) \div 5 = (153 * m + 2) \div 5 + last
      BY <1>2, <1>4, <1>6, <1>11, <2>5
    <3>3. last \in Int /\ (153 * m + 2) \div 5 \in Int
      BY <1>4, <1>7
    <3> QED
      BY <1>5, <1>7, <1>8, <2>2, <2>3, <3>1, <3>2, <3>3
  <2> QED
    BY <2>4, <2>5
<1>12. CASE ~ day < last /\ ~ month < 12
  <2>1. PICK d : d = [year |-> year + 1, month |-> 1, day |-> 1]
    OBVIOUS
  <2>2. d = Tomorrow(c) /\ d.year = year + 1 /\ d.month = 1 /\ d.day = 1
    BY <1>2, <1>3, <1>12, <2>1 DEF Tomorrow
  <2>3. day = 31 /\ month = 12 /\ y = year + 4800 /\ m = 9
    BY <1>2, <1>3, <1>4, <1>6, <1>12
  <2>4. ToJulianDay(d) = 1 + (153 * 10 + 2) \div 5 + 365 * y + LeapDays(y) - 32045
    <3>1. d.month <= 2 /\ d.month + 9 = 10 /\ d.year + 4799 = y
      BY <1>2, <2>2, <2>3
    <3> QED
      BY <1>9, <2>2, <3>1, JulianIs
  <2>5. (153 * 10 + 2) \div 5 = 306 /\ (153 * m + 2) \div 5 = 275
    BY <2>3
  <2> QED
    BY <1>5, <1>7, <1>8, <2>2, <2>3, <2>4, <2>5
<1> QED
  BY <1>10, <1>11, <1>12

-----------------------------------------------------------------------------

LEMMA EarlyYear ==
    ASSUME NEW w \in EarlyDays
    PROVE  /\ YearOfCycle(w) = EarlyYearOf(w) /\ YearOfCycle(w) \in 1 .. 15
           /\ \A j \in 1 .. 15 : PlaceInYear(w, j) = w - EarlyBefore(j) + 29
<1>1. (10985 - w) \div 5316 = 1 /\ w \div 5670 = 0 /\ EarlyYearOf(w) \in 1 .. 15 /\ w \in Int
  <2>1. w \in Int
    BY DEF EarlyDays
  <2> QED
    BY <2>1, Early
<1>2. YearOfCycle(w) = EarlyYearOf(w)
  <2>1. YearOfCycle(w) = 1 * ((50 * w) \div 17719) + 0 * ((43 * w) \div 15238)
    BY <1>1 DEF YearOfCycle
  <2>2. (43 * w) \div 15238 \in Int /\ (50 * w) \div 17719 \in Int
    BY <1>1
  <2> QED
    BY <2>1, <2>2 DEF EarlyYearOf
<1>3. ASSUME NEW j \in 1 .. 15 PROVE PlaceInYear(w, j) = w - EarlyBefore(j) + 29
  <2>1. (30 - j) \div 15 = 1 /\ j \div 16 = 0
    OBVIOUS
  <2>2. PlaceInYear(w, j) = w - 1 * ((17719 * j) \div 50) - 0 * ((15238 * j) \div 43) + 29
    BY <2>1 DEF PlaceInYear
  <2>3. (17719 * j) \div 50 \in Int /\ (15238 * j) \div 43 \in Int
    OBVIOUS
  <2> QED
    BY <1>1, <2>2, <2>3 DEF EarlyBefore
<1> QED
  BY <1>1, <1>2, <1>3

LEMMA LateYear ==
    ASSUME NEW w \in LateDays
    PROVE  /\ YearOfCycle(w) = LateYearOf(w) /\ YearOfCycle(w) \in 16 .. 30
           /\ \A j \in 16 .. 30 : PlaceInYear(w, j) = w - LateBefore(j) + 29
<1>1. (10985 - w) \div 5316 = 0 /\ w \div 5670 = 1 /\ LateYearOf(w) \in 16 .. 30 /\ w \in Int
  <2>1. w \in Int
    BY DEF LateDays
  <2> QED
    BY <2>1, Late
<1>2. YearOfCycle(w) = LateYearOf(w)
  <2>1. YearOfCycle(w) = 0 * ((50 * w) \div 17719) + 1 * ((43 * w) \div 15238)
    BY <1>1 DEF YearOfCycle
  <2>2. (43 * w) \div 15238 \in Int /\ (50 * w) \div 17719 \in Int
    BY <1>1
  <2> QED
    BY <2>1, <2>2 DEF LateYearOf
<1>3. ASSUME NEW j \in 16 .. 30 PROVE PlaceInYear(w, j) = w - LateBefore(j) + 29
  <2>1. (30 - j) \div 15 = 0 /\ j \div 16 = 1
    OBVIOUS
  <2>2. PlaceInYear(w, j) = w - 0 * ((17719 * j) \div 50) - 1 * ((15238 * j) \div 43) + 29
    BY <2>1 DEF PlaceInYear
  <2>3. (17719 * j) \div 50 \in Int /\ (15238 * j) \div 43 \in Int
    OBVIOUS
  <2> QED
    BY <1>1, <2>2, <2>3 DEF LateBefore
<1> QED
  BY <1>1, <1>2, <1>3

CycleDays == 355 .. 10985
CycleFirst == 355
CycleLast == 10985

LEMMA YearStep ==
    ASSUME NEW w \in CycleDays \ {CycleLast}, NEW v, v = w + 1
    PROVE  /\ YearOfCycle(w) \in 1 .. 30 /\ PlaceInYear(w, YearOfCycle(w)) \in 30 .. 384
           /\ \/ /\ YearOfCycle(v) = YearOfCycle(w) /\ PlaceInYear(w, YearOfCycle(w)) < 384
                 /\ PlaceInYear(v, YearOfCycle(v)) = PlaceInYear(w, YearOfCycle(w)) + 1
              \/ /\ YearOfCycle(v) = YearOfCycle(w) + 1 /\ PlaceInYear(v, YearOfCycle(v)) = 30
                 /\ PlaceInYear(w, YearOfCycle(w)) >= 383
<1> PICK j, z : j = YearOfCycle(w) /\ z = PlaceInYear(w, j)
  OBVIOUS
<1> PICK k, y : k = YearOfCycle(v) /\ y = PlaceInYear(v, k)
  OBVIOUS
<1> SUFFICES /\ j \in 1 .. 30 /\ z \in 30 .. 384
             /\ \/ k = j /\ y = z + 1 /\ z < 384
                \/ k = j + 1 /\ y = 30 /\ z >= 383
  OBVIOUS
<1>0. w \in Int /\ 355 <= w /\ w <= 10984
  BY DEF CycleDays, CycleLast
<1>9. v = w + 1
  OBVIOUS
<1>1. CASE w < 5669
  <2>1. w \in EarlyDays /\ v \in EarlyDays
    BY <1>0, <1>9, <1>1 DEF EarlyDays
  <2>2. j = EarlyYearOf(w) /\ j \in 1 .. 15 /\ z = w - EarlyBefore(j) + 29
    BY <2>1, EarlyYear
  <2>3. k = EarlyYearOf(v) /\ k \in 1 .. 15 /\ y = v - EarlyBefore(k) + 29
    BY <2>1, <1>9, EarlyYear
  <2>4. z \in 30 .. 384 /\ (k = j => z < 384) /\ (k # j => z >= 383 /\ k = j + 1 /\ y = 30)
    BY <1>9, <2>1, <2>2, <2>3, EarlyDay
  <2>5. k = j => y = z + 1
    <3>1. EarlyBefore(j) \in Int
      BY <2>2 DEF EarlyBefore
    <3> QED
      BY <1>0, <1>9, <2>2, <2>3, <3>1
  <2> QED
    BY <2>2, <2>4, <2>5
<1>2. CASE w = 5669
  <2>1. w \in EarlyDays /\ v \in LateDays
    BY <1>0, <1>9, <1>2 DEF EarlyDays, LateDays
  <2>2. EarlyYearOf(w) = 15 /\ LateYearOf(v) = 16 /\ EarlyBefore(15) = 5315 /\ LateBefore(16) = 5669
    BY <1>2, <1>9 DEF EarlyYearOf, LateYearOf, EarlyBefore, LateBefore
  <2>3. j = EarlyYearOf(w) /\ z = w - EarlyBefore(j) + 29
    BY <2>1, EarlyYear
  <2>4. k = LateYearOf(v) /\ k \in 16 .. 30 /\ y = v - LateBefore(k) + 29
    BY <2>1, <1>9, LateYear
  <2> QED
    BY <1>2, <1>9, <2>2, <2>3, <2>4
<1>3. CASE w > 5669
  <2>1. w \in LateDays /\ v \in LateDays
    BY <1>0, <1>9, <1>3 DEF LateDays
  <2>2. j = LateYearOf(w) /\ j \in 16 .. 30 /\ z = w - LateBefore(j) + 29
    BY <2>1, LateYear
  <2>3. k = LateYearOf(v) /\ k \in 16 .. 30 /\ y = v - LateBefore(k) + 29
    BY <2>1, <1>9, LateYear
  <2>4. z \in 30 .. 384 /\ (k = j => z < 384) /\ (k # j => z >= 383 /\ k = j + 1 /\ y = 30)
    BY <1>9, <2>1, <2>2, <2>3, LateDay
  <2>5. k = j => y = z + 1
    <3>1. LateBefore(j) \in Int
      BY <2>2 DEF LateBefore
    <3> QED
      BY <1>0, <1>9, <2>2, <2>3, <3>1
  <2> QED
    BY <2>2, <2>4, <2>5
<1> QED
  BY <1>0, <1>1, <1>2, <1>3

\* A cycle begins with its first year and ends with its last.
LEMMA CycleEnds ==
    /\ YearOfCycle(CycleFirst) = 1 /\ PlaceInYear(CycleFirst, 1) = 30
    /\ YearOfCycle(CycleLast) = 30 /\ PlaceInYear(CycleLast, 30) = 383
<1>1. PICK v, w : v = CycleFirst /\ w = CycleLast /\ v = 355 /\ w = 10985
  BY DEF CycleFirst, CycleLast
<1>2. v \in EarlyDays /\ w \in LateDays
  BY <1>1 DEF EarlyDays, LateDays
<1>3. EarlyYearOf(v) = 1 /\ LateYearOf(w) = 30 /\ EarlyBefore(1) = 354 /\ LateBefore(30) = 10631
  BY <1>1 DEF EarlyYearOf, LateYearOf, EarlyBefore, LateBefore
<1>4. YearOfCycle(v) = EarlyYearOf(v) /\ PlaceInYear(v, 1) = v - EarlyBefore(1) + 29
  BY <1>2, EarlyYear
<1>5. YearOfCycle(w) = LateYearOf(w) /\ PlaceInYear(w, 30) = w - LateBefore(30) + 29
  BY <1>2, LateYear
<1> QED
  BY <1>1, <1>3, <1>4, <1>5

\* The days of a Julian day from the beginning of the count, its cycle of thirty
\* years, and its place there.
DaysCounted(jd) == jd - 1948439 + 10632
CycleOf(jd) == (DaysCounted(jd) - 1) \div 10631
PlaceInCycle(jd) == DaysCounted(jd) - 10631 * CycleOf(jd) + 354

LEMMA DaysNext ==
    ASSUME NEW jd \in Int PROVE DaysCounted(jd) \in Int /\ DaysCounted(jd + 1) = DaysCounted(jd) + 1
  BY SMT DEF DaysCounted

LEMMA InCycle ==
    ASSUME NEW jd \in Int
    PROVE  CycleOf(jd) \in Int /\ PlaceInCycle(jd) \in CycleDays
<1>1. PICK z, n, w : z = DaysCounted(jd) /\ n = CycleOf(jd) /\ w = PlaceInCycle(jd)
  OBVIOUS
<1>2. z \in Int
  BY <1>1, DaysNext
<1>3. n = (z - 1) \div 10631
  BY <1>1, SMT DEF CycleOf
<1>4. n \in Int /\ 10631 * n <= z - 1 /\ z - 1 < 10631 * n + 10631
  BY <1>2, <1>3, SMT
<1>5. w = z - 10631 * n + 354
  BY <1>1, SMT DEF PlaceInCycle
<1>6. w \in 355 .. 10985
  BY <1>2, <1>4, <1>5, SMT
<1> QED
  BY <1>1, <1>4, <1>6 DEF CycleDays

LEMMA CycleStep ==
    ASSUME NEW jd \in Int, NEW e, e = jd + 1
    PROVE  \/ PlaceInCycle(jd) # CycleLast /\ CycleOf(e) = CycleOf(jd) /\ PlaceInCycle(e) = PlaceInCycle(jd) + 1
           \/ PlaceInCycle(jd) = CycleLast /\ CycleOf(e) = CycleOf(jd) + 1 /\ PlaceInCycle(e) = CycleFirst
<1>1. PICK z, n, w : z = DaysCounted(jd) /\ n = CycleOf(jd) /\ w = PlaceInCycle(jd)
  OBVIOUS
<1>2. PICK p, v : p = CycleOf(e) /\ v = PlaceInCycle(e)
  OBVIOUS
<1>3. z \in Int /\ DaysCounted(e) = z + 1
  BY <1>1, DaysNext
<1>4. n = (z - 1) \div 10631 /\ p = z \div 10631
  <2>1. n = (z - 1) \div 10631 /\ p = (z + 1 - 1) \div 10631
    BY <1>1, <1>2, <1>3, SMT DEF CycleOf
  <2> QED
    BY <1>3, <2>1, SMT
<1>5. n \in Int /\ 10631 * n <= z - 1 /\ z - 1 < 10631 * n + 10631
  BY <1>3, <1>4, SMT
<1>6. p \in Int /\ 10631 * p <= z /\ z < 10631 * p + 10631
  BY <1>3, <1>4, SMT
<1>7. w = z - 10631 * n + 354 /\ v = z + 1 - 10631 * p + 354
  <2>1. w = z - 10631 * n + 354
    BY <1>1, SMT DEF PlaceInCycle
  <2>2. v = z + 1 - 10631 * p + 354
    <3>1. v = DaysCounted(e) - 10631 * p + 354
      BY <1>2, SMT DEF PlaceInCycle
    <3> QED
      BY <1>3, <1>6, <3>1, SMT
  <2> QED
    BY <2>1, <2>2, SMT
<1>8. n <= p /\ p <= n + 1
  BY <1>3, <1>5, <1>6, SMT
<1>9. CASE p = n
  <2>1. w < 10985 /\ v = w + 1
    BY <1>3, <1>5, <1>6, <1>7, <1>9, SMT
  <2> QED
    BY <1>1, <1>2, <1>9, <2>1, SMT DEF CycleLast
<1>10. CASE p = n + 1
  <2>1. z = 10631 * n + 10631
    BY <1>3, <1>5, <1>6, <1>10, SMT
  <2>2. w = 10985 /\ v = 355
    BY <1>3, <1>5, <1>7, <1>10, <2>1, SMT
  <2> QED
    BY <1>1, <1>2, <1>10, <2>2, SMT DEF CycleLast, CycleFirst
<1>11. p = n \/ p = n + 1
  BY <1>5, <1>6, <1>8, SMT
<1> QED
  BY <1>9, <1>10, <1>11

LEMMA HijriOf ==
    ASSUME NEW jd \in Int, NEW n, n = CycleOf(jd), NEW w, w = PlaceInCycle(jd),
           NEW j, j = YearOfCycle(w), NEW z, z = PlaceInYear(w, j), NEW m, m = (24 * z) \div 709
    PROVE  JulianDayToHijri(jd) = [year |-> 30 * n + j - 30, month |-> m, day |-> z - (709 * m) \div 24]
<1>1. PICK x : x = jd - 1948439 + 10632
  OBVIOUS
<1>2. n = (x - 1) \div 10631 /\ w = x - 10631 * n + 354
  BY <1>1, SMT DEF DaysCounted, CycleOf, PlaceInCycle
<1> QED
  BY <1>1, <1>2, SMT DEF JulianDayToHijri

Follows(k, h) ==
    \/ k = [h EXCEPT !.day = @ + 1] /\ h.day < 30
    \/ k = [year |-> h.year, month |-> h.month + 1, day |-> 1] /\ h.day \in {29, 30} /\ h.month < 12
    \/ k = [year |-> h.year + 1, month |-> 1, day |-> 1] /\ h.day \in {29, 30} /\ h.month = 12

LEMMA HijriStep ==
    ASSUME NEW jd \in Int PROVE Follows(JulianDayToHijri(jd + 1), JulianDayToHijri(jd))
<1>1. PICK n, w : n = CycleOf(jd) /\ w = PlaceInCycle(jd)
  OBVIOUS
<1>2. PICK e : e = jd + 1
  OBVIOUS
<1> SUFFICES Follows(JulianDayToHijri(e), JulianDayToHijri(jd))
  BY <1>2
<1>3. PICK p, v : p = CycleOf(e) /\ v = PlaceInCycle(e)
  OBVIOUS
<1>4. /\ n \in Int /\ w \in CycleDays /\ p \in Int /\ v \in CycleDays
      /\ \/ w # CycleLast /\ p = n /\ v = w + 1
         \/ w = CycleLast /\ p = n + 1 /\ v = CycleFirst
  <2>1. e \in Int
    BY <1>2
  <2>2. CycleOf(jd) \in Int /\ PlaceInCycle(jd) \in CycleDays
    BY InCycle
  <2>3. CycleOf(e) \in Int /\ PlaceInCycle(e) \in CycleDays
    BY <2>1, InCycle
  <2>4. \/ PlaceInCycle(jd) # CycleLast /\ CycleOf(e) = CycleOf(jd) /\ PlaceInCycle(e) = PlaceInCycle(jd) + 1
        \/ PlaceInCycle(jd) = CycleLast /\ CycleOf(e) = CycleOf(jd) + 1 /\ PlaceInCycle(e) = CycleFirst
    BY <1>2, CycleStep
  <2> QED
    BY <1>1, <1>3, <2>2, <2>3, <2>4
<1>5. PICK j, z : j = YearOfCycle(w) /\ z = PlaceInYear(w, j)
  OBVIOUS
<1>6. PICK k, y : k = YearOfCycle(v) /\ y = PlaceInYear(v, k)
  OBVIOUS
<1>7. PICK m, d : m = (24 * z) \div 709 /\ d = z - (709 * m) \div 24
  OBVIOUS
<1>8. PICK m2, d2 : m2 = (24 * y) \div 709 /\ d2 = y - (709 * m2) \div 24
  OBVIOUS
<1>9. JulianDayToHijri(jd) = [year |-> 30 * n + j - 30, month |-> m, day |-> d]
  BY <1>1, <1>5, <1>7, HijriOf
<1>10. JulianDayToHijri(e) = [year |-> 30 * p + k - 30, month |-> m2, day |-> d2]
  <2>1. e \in Int
    BY <1>2
  <2> QED
    BY <2>1, <1>3, <1>6, <1>8, HijriOf
<1>11. /\ j \in 1 .. 30 /\ z \in 30 .. 384
       /\ \/ p = n /\ k = j /\ y = z + 1 /\ z < 384
          \/ p = n /\ k = j + 1 /\ y = 30 /\ z >= 383
          \/ p = n + 1 /\ j = 30 /\ k = 1 /\ y = 30 /\ z >= 383
  <2>1. CASE w # CycleLast /\ p = n /\ v = w + 1
    <3>1. w \in CycleDays \ {CycleLast}
      BY <1>4, <2>1
    <3>3. /\ j \in 1 .. 30 /\ z \in 30 .. 384
          /\ \/ k = j /\ y = z + 1 /\ z < 384
             \/ k = j + 1 /\ y = 30 /\ z >= 383
      <4>1. /\ YearOfCycle(w) \in 1 .. 30 /\ PlaceInYear(w, YearOfCycle(w)) \in 30 .. 384
            /\ \/ /\ YearOfCycle(v) = YearOfCycle(w) /\ PlaceInYear(w, YearOfCycle(w)) < 384
                  /\ PlaceInYear(v, YearOfCycle(v)) = PlaceInYear(w, YearOfCycle(w)) + 1
               \/ /\ YearOfCycle(v) = YearOfCycle(w) + 1 /\ PlaceInYear(v, YearOfCycle(v)) = 30
                  /\ PlaceInYear(w, YearOfCycle(w)) >= 383
        BY <2>1, <3>1, YearStep
      <4> QED
        BY <1>5, <1>6, <4>1
    <3> QED
      BY <2>1, <3>3
  <2>2. CASE w = CycleLast /\ p = n + 1 /\ v = CycleFirst
    BY <1>5, <1>6, <2>2, CycleEnds
  <2> QED
    BY <1>4, <2>1, <2>2
<1>12. /\ m \in 1 .. 12 /\ d \in 1 .. 30
       /\ z >= 383 => m = 12 /\ d \in {29, 30}
  BY <1>7, <1>11, MonthStep
<1>13. PICK h, g : h = JulianDayToHijri(jd) /\ g = JulianDayToHijri(e)
  OBVIOUS
<1>14. h.year = 30 * n + j - 30 /\ h.month = m /\ h.day = d
  BY <1>9, <1>13
<1>15. CASE p = n /\ k = j /\ y = z + 1 /\ z < 384
  <2>1. \/ m2 = m /\ d2 = d + 1 /\ d < 30
        \/ m2 = m + 1 /\ d2 = 1 /\ d \in {29, 30} /\ m < 12
    <3>1. z \in 30 .. 383
      BY <1>11, <1>15
    <3>2. m2 = (24 * (z + 1)) \div 709 /\ d2 = z + 1 - (709 * m2) \div 24
      BY <1>8, <1>15, <3>1
    <3> QED
      BY <1>7, <3>1, <3>2, MonthStep2
  <2>2. g = [year |-> h.year, month |-> m2, day |-> d2]
    BY <1>10, <1>13, <1>14, <1>15
  <2>3. CASE m2 = m /\ d2 = d + 1 /\ d < 30
    <3>1. g = [h EXCEPT !.day = @ + 1]
      BY <1>9, <1>13, <1>14, <2>2, <2>3
    <3> QED
      BY <1>2, <1>13, <1>14, <2>3, <3>1 DEF Follows
  <2>4. CASE m2 = m + 1 /\ d2 = 1 /\ d \in {29, 30} /\ m < 12
    <3>3. g = [year |-> h.year, month |-> h.month + 1, day |-> 1]
      BY <1>14, <2>2, <2>4
    <3> QED
      BY <1>2, <1>13, <1>14, <2>4, <3>3 DEF Follows
  <2> QED
    BY <2>1, <2>3, <2>4
<1>16. ASSUME y = 30, m = 12, d \in {29, 30}, 30 * p + k - 30 = 30 * n + j - 30 + 1
       PROVE  Follows(JulianDayToHijri(e), JulianDayToHijri(jd))
  <2>1. m2 = 1 /\ d2 = 1
    BY <1>8, <1>16, MonthStep
  <2>2. g = [year |-> h.year + 1, month |-> 1, day |-> 1]
    BY <1>10, <1>13, <1>14, <1>16, <2>1
  <2> QED
    BY <1>13, <1>14, <1>16, <2>2 DEF Follows
<1>17. CASE p = n /\ k = j + 1 /\ y = 30 /\ z >= 383
  <2>1. m = 12 /\ d \in {29, 30}
    BY <1>12, <1>17
  <2>2. 30 * p + k - 30 = 30 * n + j - 30 + 1
    BY <1>4, <1>11, <1>17
  <2> QED
    BY <1>16, <1>17, <2>1, <2>2
<1>18. CASE p = n + 1 /\ j = 30 /\ k = 1 /\ y = 30 /\ z >= 383
  <2>1. m = 12 /\ d \in {29, 30}
    BY <1>12, <1>18
  <2>2. 30 * p + k - 30 = 30 * n + j - 30 + 1
    BY <1>4, <1>18
  <2> QED
    BY <1>16, <1>18, <2>1, <2>2
<1> QED
  BY <1>11, <1>15, <1>17, <1>18

LEMMA FallbackIsConsecutive == HijriInv => FallbackConsecutive
<1> SUFFICES ASSUME HijriInv PROVE FallbackConsecutive
  OBVIOUS
<1>1. PICK jd : jd = ToJulianDay(civil)
  OBVIOUS
<1>2. jd \in Int /\ ToJulianDay(Tomorrow(civil)) = jd + 1
  BY <1>1, JulianNext DEF HijriInv
<1>3. Follows(JulianDayToHijri(jd + 1), JulianDayToHijri(jd))
  BY <1>2, HijriStep
<1> QED
  BY <1>1, <1>2, <1>3, Zenon DEF FallbackConsecutive, Follows
-----------------------------------------------------------------------------
(* The days of the Hindu calendar                                           *)

\* What is true of the sky so far, and of the place.
SkyInv ==
    /\ sky \in Seq([index : Nat, dark : BOOLEAN]) /\ Len(sky) > 0
    /\ \A d \in Days : Half <= sky[d].index /\ sky[d].index <= LastTithi
    /\ \A d, e \in Days : d <= e => sky[d].index <= sky[e].index
    /\ instant \in Nat /\ zone \in Int /\ sun \in SunTimes

LEMMA SkyIs ==
    /\ Half \in Nat /\ Half > 0 /\ Len(AmantaMonths) \in Nat /\ Len(AmantaMonths) > 1
    /\ TithisOfMonth \in Nat /\ TithisOfMonth = Half + Half
    /\ LastTithi \in Int /\ LastTithi >= Half
    /\ FirstZone \in Int /\ FirstSun \in SunTimes
<1>1. Half \in Nat /\ Half > 0 /\ Len(AmantaMonths) \in Nat /\ Len(AmantaMonths) > 1
  BY PanchangAssumption DEF PanchangAssumption
<1>2. TithisOfMonth \in Nat /\ TithisOfMonth = Half + Half
  BY <1>1 DEF TithisOfMonth
<1>3. PICK n : n = Len(AmantaMonths)
  OBVIOUS
<1>4. n * TithisOfMonth >= 2 * TithisOfMonth /\ n * TithisOfMonth \in Int
  <2>1. n \in Nat /\ n >= 2
    BY <1>1, <1>3
  <2> QED
    BY <1>2, <2>1
<1>5. LastTithi = n * TithisOfMonth - Half - 1
  BY <1>3 DEF LastTithi
<1>6. LastTithi \in Int /\ LastTithi >= Half
  BY <1>1, <1>2, <1>4, <1>5
<1>7. FirstZone \in Clocks /\ FirstSun \in SunTimes
  BY PanchangAssumption DEF PanchangAssumption, FirstZone, FirstSun
<1> QED
  BY <1>1, <1>2, <1>6, <1>7, PanchangAssumption DEF PanchangAssumption

LEMMA SkyInvInit == PanchangInit => SkyInv
<1> SUFFICES ASSUME PanchangInit PROVE SkyInv
  OBVIOUS
<1>1. sky = <<[index |-> Half, dark |-> FALSE]>>
  BY DEF PanchangInit
<1>2. Len(sky) = 1 /\ sky[1].index = Half /\ sky \in Seq([index : Nat, dark : BOOLEAN])
  BY <1>1, SkyIs
<1>3. \A d \in Days : d = 1
  BY <1>2 DEF Days
<1>4. \A d \in Days : sky[d].index = Half
  BY <1>2, <1>3
<1>5. instant \in Nat /\ zone \in Int /\ sun \in SunTimes
  BY SkyIs DEF PanchangInit
<1> QED
  BY <1>2, <1>4, <1>5, SkyIs DEF SkyInv

LEMMA SkyTyped ==
    ASSUME SkyInv, NEW d \in Days
    PROVE  sky[d].index \in Nat /\ sky[d].dark \in BOOLEAN /\ sky[d].index <= LastTithi /\ Half <= sky[d].index
<1>1. sky[d] \in [index : Nat, dark : BOOLEAN]
  <2>1. PICK S : S = [index : Nat, dark : BOOLEAN]
    OBVIOUS
  <2>2. sky \in Seq(S) /\ d \in 1 .. Len(sky)
    BY <2>1 DEF SkyInv, Days
  <2> QED
    BY <2>1, <2>2, ElementOfSeq
<1> QED
  BY <1>1 DEF SkyInv

LEMMA SkyInvNext == SkyInv /\ [PanchangNext]_panchangVars => SkyInv'
<1> SUFFICES ASSUME SkyInv, [PanchangNext]_panchangVars PROVE SkyInv'
  OBVIOUS
<1>1. CASE UNCHANGED sky /\ instant' \in Nat /\ zone' \in Int /\ sun' \in SunTimes
  BY <1>1 DEF SkyInv, Days
<1>2. CASE NextDay
  <2>1. PICK n : n = Len(sky)
    OBVIOUS
  <2>2. n \in Nat /\ n > 0 /\ n \in Days
    BY <2>1 DEF SkyInv, Days
  <2>3. PICK at : at = sky[n].index
    OBVIOUS
  <2>4. at \in Nat /\ Half <= at
    BY <2>2, <2>3, SkyTyped
  <2>5. PICK step \in {0, 1, 2}, unlit \in BOOLEAN :
            at + step <= LastTithi /\ sky' = Append(sky, [index |-> at + step, dark |-> unlit])
    BY <1>2, <2>1, <2>3 DEF NextDay
  <2>6. sky' \in Seq([index : Nat, dark : BOOLEAN]) /\ Len(sky') = n + 1
    BY <2>1, <2>4, <2>5 DEF SkyInv
  <2>7. sky'[n + 1].index = at + step /\ \A d \in Days : sky'[d] = sky[d]
    BY <2>1, <2>2, <2>5 DEF SkyInv, Days
  <2>8. \A d \in Days' : d = n + 1 \/ d \in Days
    BY <2>1, <2>2, <2>6 DEF Days
  <2>9. \A d \in Days : d \in Int /\ d <= n /\ sky[d].index <= at /\ sky[d].index \in Nat /\ Half <= sky[d].index
    <3>1. \A d \in Days : d \in Int /\ d <= n
      BY <2>1, <2>2 DEF Days
    <3>2. \A d \in Days : sky[d].index <= sky[n].index
      BY <2>2, <3>1 DEF SkyInv
    <3> QED
      BY <2>3, <3>1, <3>2, SkyTyped
  <2>10. \A d \in Days' : Half <= sky'[d].index /\ sky'[d].index <= LastTithi
    <3> SUFFICES ASSUME NEW d \in Days' PROVE Half <= sky'[d].index /\ sky'[d].index <= LastTithi
      OBVIOUS
    <3>1. CASE d = n + 1
      <4>1. Half <= at + step
        BY <2>4, <2>5, SkyIs
      <4> QED
        BY <2>5, <2>7, <3>1, <4>1
    <3>2. CASE d \in Days
      BY <2>7, <3>2, SkyTyped
    <3> QED
      BY <2>8, <3>1, <3>2
  <2>11. ASSUME NEW d \in Days', NEW e \in Days', d <= e PROVE sky'[d].index <= sky'[e].index
    <3>1. CASE e \in Days
      <4>1. d \in Days
        <5>1. CASE d = n + 1
          <6>1. e \in Int /\ e <= n /\ n + 1 <= e
            BY <2>9, <2>11, <3>1, <5>1
          <6> QED
            BY <2>2, <6>1
        <5> QED
          BY <2>8, <2>11, <5>1
      <4> QED
        BY <2>7, <2>11, <3>1, <4>1 DEF SkyInv
    <3>2. CASE e = n + 1 /\ d \in Days
      <4>1. sky[d].index <= at + step
        BY <2>4, <2>5, <2>9, <3>2
      <4> QED
        BY <2>7, <3>2, <4>1
    <3>3. CASE e = n + 1 /\ d = n + 1
      <4>1. at + step <= at + step
        BY <2>4, <2>5
      <4> QED
        BY <2>7, <3>3, <4>1
    <3> QED
      BY <2>8, <3>1, <3>2, <3>3
  <2>12. instant' \in Nat /\ zone' \in Int /\ sun' \in SunTimes
    BY <1>2 DEF NextDay, SkyInv
  <2> QED
    BY <2>2, <2>6, <2>10, <2>11, <2>12 DEF SkyInv
<1>3. CASE Move
  <2>1. zone' \in Clocks /\ sun' \in SunTimes /\ UNCHANGED <<sky, instant>>
    BY <1>3 DEF Move
  <2> QED
    BY <1>1, <2>1, PanchangAssumption DEF PanchangAssumption, SkyInv
<1>4. CASE Quarter
  BY <1>1, <1>4 DEF Quarter, SkyInv
<1>5. CASE UNCHANGED panchangVars
  BY <1>1, <1>5 DEF panchangVars, SkyInv
<1> QED
  BY <1>2, <1>3, <1>4, <1>5 DEF PanchangNext

-----------------------------------------------------------------------------

LEMMA DivisionIs ==
    ASSUME NEW i \in Nat, NEW n \in Nat, n > 0
    PROVE  \E q \in Nat, r \in 0 .. n - 1 : q = i \div n /\ r = i % n /\ i = n * q + r
<1>1. i \div n \in Int /\ i % n \in 0 .. n - 1 /\ i % n = i - n * (i \div n)
  OBVIOUS
<1>2. PICK q, r : q = i \div n /\ r = i % n
  OBVIOUS
<1>3. q \in Int /\ r \in 0 .. n - 1 /\ r = i - n * q
  BY <1>1, <1>2
<1>4. ASSUME q < 0 PROVE FALSE
  <2>1. n * (q + 1) <= 0 /\ n * (q + 1) = n * q + n
    BY <1>3, <1>4
  <2> QED
    BY <1>3, <2>1
<1>5. i = n * q + r /\ q \in Nat
  <2>1. n * q \in Int
    BY <1>3
  <2> QED
    BY <1>3, <1>4, <2>1
<1> QED
  BY <1>2, <1>3, <1>5

LEMMA TithisDivide ==
    ASSUME NEW i \in Nat
    PROVE  \E q \in Nat, r \in 0 .. TithisOfMonth - 1 :
                q = i \div TithisOfMonth /\ r = i % TithisOfMonth /\ i = TithisOfMonth * q + r
<1>1. TithisOfMonth \in Nat /\ TithisOfMonth > 0
  BY SkyIs
<1> QED
  BY <1>1, DivisionIs

LEMMA Multiples ==
    ASSUME NEW t \in Nat, NEW a \in Int, NEW b \in Int, a <= b
    PROVE  t * a <= t * b /\ t * a \in Int /\ t * b \in Int /\ t * (a + 1) = t * a + t
  OBVIOUS

\* A later tithi is not of an earlier month.
LEMMA MonthsGrow ==
    ASSUME NEW i \in Nat, NEW k \in Nat, i <= k
    PROVE  i \div TithisOfMonth <= k \div TithisOfMonth
<1>1. PICK n \in Nat : n = TithisOfMonth
  BY SkyIs
<1>2. PICK a \in Nat, s \in 0 .. n - 1 : a = i \div TithisOfMonth /\ i = n * a + s
  BY <1>1, TithisDivide
<1>3. PICK b \in Nat, t \in 0 .. n - 1 : b = k \div TithisOfMonth /\ k = n * b + t
  BY <1>1, TithisDivide
<1>4. ASSUME b + 1 <= a PROVE FALSE
  <2>1. n * (b + 1) <= n * a /\ n * (b + 1) = n * b + n /\ n * b \in Int /\ n * a \in Int
    BY <1>2, <1>3, <1>4
  <2> QED
    BY <1>2, <1>3, <2>1
<1> QED
  BY <1>1, <1>2, <1>3, <1>4

\* The month of a day, and its tithi there.
LEMMA DayIs ==
    ASSUME SkyInv, NEW d \in Days
    PROVE  /\ sky[d].index \in Nat /\ sky[d].dark \in BOOLEAN
           /\ AmantaOf(d) \in 1 .. Len(AmantaMonths) /\ TithiOf(d) \in 0 .. TithisOfMonth - 1
           /\ sky[d].index = TithisOfMonth * (AmantaOf(d) - 1) + TithiOf(d)
           /\ TithiOf(d) >= Half => AmantaOf(d) < Len(AmantaMonths)
<1>1. PICK i, n, last : i = sky[d].index /\ n = TithisOfMonth /\ last = Len(AmantaMonths)
  OBVIOUS
<1>2. i \in Nat /\ sky[d].dark \in BOOLEAN /\ i <= LastTithi /\ n \in Nat
  BY <1>1, SkyTyped, SkyIs
<1>3. PICK m \in Nat, t \in 0 .. n - 1 : m = i \div TithisOfMonth /\ t = i % TithisOfMonth /\ i = n * m + t
  BY <1>1, <1>2, TithisDivide
<1>4. last \in Nat /\ n = Half + Half /\ Half \in Nat /\ LastTithi = last * n - Half - 1
  BY <1>1, SkyIs DEF LastTithi
<1>5. ASSUME last <= m PROVE FALSE
  <2>1. n * last <= n * m /\ n * last \in Int /\ n * m \in Int /\ n * last = last * n
    BY <1>3, <1>4, <1>5
  <2> QED
    BY <1>2, <1>3, <1>4, <2>1
<1>6. ASSUME t >= Half, last <= m + 1 PROVE FALSE
  <2>1. n * last <= n * (m + 1) /\ n * (m + 1) = n * m + n /\ n * last \in Int /\ n * m \in Int /\ n * last = last * n
    BY <1>3, <1>4, <1>6
  <2> QED
    BY <1>2, <1>3, <1>4, <1>6, <2>1
<1>7. AmantaOf(d) = m + 1 /\ TithiOf(d) = t
  BY <1>1, <1>3 DEF AmantaOf, TithiOf
<1>8. m + 1 \in 1 .. last /\ (t >= Half => m + 1 < last)
  BY <1>3, <1>4, <1>5, <1>6
<1>9. m + 1 - 1 = m
  BY <1>3
<1>10. AmantaOf(d) - 1 = m
  BY <1>7, <1>9
<1>11. sky[d].index = TithisOfMonth * (AmantaOf(d) - 1) + TithiOf(d)
  BY <1>1, <1>3, <1>7, <1>10, Zenon
<1>12. TithiOf(d) \in 0 .. TithisOfMonth - 1 /\ AmantaOf(d) \in 1 .. Len(AmantaMonths)
  BY <1>1, <1>3, <1>7, <1>8
<1>13. TithiOf(d) >= Half => AmantaOf(d) < Len(AmantaMonths)
  BY <1>1, <1>7, <1>8
<1> QED
  BY <1>1, <1>2, <1>11, <1>12, <1>13

\* The rule that a day matches: which month it names, and where in it.
LEMMA MatchIs ==
    ASSUME SkyInv, NEW d \in Days, NEW f \in DOMAIN HinduFestivals, MatchesTithi(f, d)
    PROVE  /\ ~ AmantaMonths[AmantaOf(d)].isAdhika
           /\ Rule(f).paksha = LibraryPaksha(d)
           /\ TithiOf(d) + 1 = IF Rule(f).tithi = Amavasya THEN TithisOfMonth
                               ELSE Rule(f).tithi + (IF Rule(f).paksha = "krishna" THEN Half ELSE 0)
           /\ LibraryPaksha(d) = "shukla" => AmantaMonths[AmantaOf(d)].name = Rule(f).month
           /\ LibraryPaksha(d) = "krishna" =>
                \E m \in AmantaOf(d) + 1 .. Len(AmantaMonths) :
                    /\ ~ AmantaMonths[m].isAdhika /\ AmantaMonths[m].name = Rule(f).month
                    /\ \A n \in AmantaOf(d) + 1 .. Len(AmantaMonths) : AmantaMonths[n].isAdhika \/ m <= n
<1>1. PICK rule, t, a, last : rule = Rule(f) /\ t = TithiOf(d) /\ a = AmantaOf(d) /\ last = Len(AmantaMonths)
  OBVIOUS
<1>2. /\ LibraryPaksha(d) = rule.paksha /\ PurnimantaName(d) = rule.month /\ ~ AmantaMonths[a].isAdhika
      /\ IF rule.tithi = Amavasya THEN LibraryNumber(d) = Half /\ rule.paksha = "krishna"
         ELSE LibraryNumber(d) = rule.tithi
  BY <1>1 DEF MatchesTithi, Rule, IsAdhika
<1>3. /\ a \in 1 .. last /\ t \in 0 .. TithisOfMonth - 1 /\ (t >= Half => a < last)
      /\ Half \in Nat /\ Half > 0 /\ TithisOfMonth = Half + Half /\ last \in Nat
  BY <1>1, DayIs, SkyIs
<1>4. LibraryPaksha(d) = IF t < Half THEN "shukla" ELSE "krishna"
  BY <1>1 DEF LibraryPaksha
<1>5. t = IF LibraryPaksha(d) = "krishna" THEN LibraryNumber(d) - 1 + Half ELSE LibraryNumber(d) - 1
  <2>1. LibraryNumber(d) = (t % Half) + 1
    BY <1>1 DEF LibraryNumber
  <2>2. t % Half = IF t < Half THEN t ELSE t - Half
    <3>1. CASE t < Half
      BY <1>3, <3>1
    <3>2. CASE ~ t < Half
      <4>1. t - Half \in 0 .. Half - 1
        BY <1>3, <3>2
      <4>2. (t - Half) % Half = t - Half
        BY <1>3, <4>1
      <4>3. t % Half = (t - Half) % Half
        BY <1>3, <4>1
      <4> QED
        BY <3>2, <4>2, <4>3
    <3> QED
      BY <3>1, <3>2
  <2> QED
    BY <1>3, <1>4, <2>1, <2>2
<1>6. t + 1 = IF rule.tithi = Amavasya THEN TithisOfMonth
              ELSE rule.tithi + (IF rule.paksha = "krishna" THEN Half ELSE 0)
  <2>1. CASE rule.tithi = Amavasya
    BY <1>2, <1>3, <1>5, <2>1
  <2>2. CASE rule.tithi # Amavasya
    <3>1. LibraryNumber(d) = rule.tithi /\ LibraryPaksha(d) = rule.paksha
      BY <1>2, <2>2
    <3>2. LibraryNumber(d) \in Int
      BY <1>1, <1>3 DEF LibraryNumber
    <3> QED
      BY <1>3, <1>5, <2>2, <3>1, <3>2
  <2> QED
    BY <2>1, <2>2
<1>7. PICK later : later = {m \in a + 1 .. last : ~ AmantaMonths[m].isAdhika}
  OBVIOUS
<1>8. PurnimantaName(d) = IF LibraryPaksha(d) = "shukla" \/ later = {} THEN AmantaMonths[a].name
                          ELSE AmantaMonths[CHOOSE m \in later : \A n \in later : m <= n].name
  BY <1>1, <1>7 DEF PurnimantaName
<1>9. ASSUME LibraryPaksha(d) = "krishna"
      PROVE  \E m \in a + 1 .. last : /\ ~ AmantaMonths[m].isAdhika /\ AmantaMonths[m].name = rule.month
                                      /\ \A n \in a + 1 .. last : AmantaMonths[n].isAdhika \/ m <= n
  <2>1. last \in later
    <3>1. a < last
      BY <1>3, <1>4, <1>9
    <3> QED
      BY <1>1, <1>3, <1>7, <3>1, PanchangAssumption DEF PanchangAssumption
  <2>2. later \subseteq Nat
    BY <1>3, <1>7
  <2>3. \E m \in later : \A n \in later : m <= n
    BY <2>1, <2>2, LeastNat
  <2>4. PICK m \in later : (\A n \in later : m <= n) /\ PurnimantaName(d) = AmantaMonths[m].name
    BY <1>8, <1>9, <2>1, <2>3
  <2> QED
    BY <1>2, <1>7, <2>4
<1> QED
  BY <1>1, <1>2, <1>6, <1>8, <1>9

LEMMA MatchesIs ==
    ASSUME SkyInv, NEW d \in Days, NEW f
    PROVE  /\ ~ sky[d].dark => Build(d).festivals = MatchFestivals(d) /\ Build(d) # Failed
           /\ ~ sky[d].dark => Build(d).tithi = TithiOf(d) + 1 /\ Build(d).paksha = LibraryPaksha(d)
           /\ sky[d].dark => Build(d) = Failed /\ Build(d).festivals = {}
           /\ <<d, f>> \in KeptUntilToday <=> ~ sky[d].dark /\ f \in MatchFestivals(d)
<1>1. TithiOf(d) + 1 # 0
  BY DayIs
<1>2. ~ sky[d].dark => /\ Build(d).festivals = MatchFestivals(d) /\ Build(d).tithi = TithiOf(d) + 1
                       /\ Build(d).paksha = LibraryPaksha(d)
  BY DEF Build, LibraryPaksha
<1>3. Failed.tithi = 0 /\ Failed.festivals = {}
  BY DEF Failed
<1>4. sky[d].dark => Build(d) = Failed
  BY DEF Build
<1>5. <<d, f>> \in KeptUntilToday <=> f \in Build(d).festivals
  BY DEF KeptUntilToday
<1> QED
  BY <1>1, <1>2, <1>3, <1>4, <1>5

\* The month that a rule of the dark fortnight names begins after the day's month;
\* a day of the bright fortnight is in the month that its rule names.
LEMMA OneTithi ==
    ASSUME SkyInv, NEW d \in Days, NEW e \in Days, NEW f \in DOMAIN HinduFestivals,
           MatchesTithi(f, d), MatchesTithi(f, e)
    PROVE  sky[d].index = sky[e].index
<1>1. AmantaOf(d) = AmantaOf(e)
  <2>1. /\ AmantaOf(d) \in DOMAIN AmantaMonths /\ AmantaOf(e) \in DOMAIN AmantaMonths
        /\ AmantaOf(d) \in Nat /\ AmantaOf(e) \in Nat /\ DOMAIN AmantaMonths = 1 .. Len(AmantaMonths)
        /\ Len(AmantaMonths) \in Nat
    <3>1. DOMAIN AmantaMonths = 1 .. Len(AmantaMonths) /\ Len(AmantaMonths) \in Nat
      BY PanchangAssumption DEF PanchangAssumption
    <3> QED
      BY <3>1, DayIs
  <2>2. \A m, n \in DOMAIN AmantaMonths :
            ~ AmantaMonths[m].isAdhika /\ ~ AmantaMonths[n].isAdhika
                /\ AmantaMonths[m].name = AmantaMonths[n].name => m = n
    BY PanchangAssumption DEF PanchangAssumption
  <2>3. ~ AmantaMonths[AmantaOf(d)].isAdhika /\ ~ AmantaMonths[AmantaOf(e)].isAdhika /\ LibraryPaksha(d) = LibraryPaksha(e)
    BY MatchIs
  <2>4. CASE LibraryPaksha(d) = "shukla"
    BY <2>1, <2>2, <2>3, <2>4, MatchIs
  <2>5. CASE LibraryPaksha(d) = "krishna"
    <3>1. PICK m \in AmantaOf(d) + 1 .. Len(AmantaMonths) :
            /\ ~ AmantaMonths[m].isAdhika /\ AmantaMonths[m].name = Rule(f).month
            /\ \A n \in AmantaOf(d) + 1 .. Len(AmantaMonths) : AmantaMonths[n].isAdhika \/ m <= n
      BY <2>5, MatchIs
    <3>2. PICK k \in AmantaOf(e) + 1 .. Len(AmantaMonths) :
            /\ ~ AmantaMonths[k].isAdhika /\ AmantaMonths[k].name = Rule(f).month
            /\ \A n \in AmantaOf(e) + 1 .. Len(AmantaMonths) : AmantaMonths[n].isAdhika \/ k <= n
      BY <2>3, <2>5, MatchIs
    <3>3. m = k
      BY <2>1, <2>2, <3>1, <3>2
    <3>4. ~ AmantaOf(d) < AmantaOf(e)
      <4> SUFFICES ASSUME AmantaOf(d) < AmantaOf(e) PROVE FALSE
        OBVIOUS
      <4>1. AmantaOf(e) \in AmantaOf(d) + 1 .. Len(AmantaMonths)
        BY <2>1
      <4>2. m <= AmantaOf(e)
        BY <2>3, <3>1, <4>1
      <4> QED
        BY <2>1, <3>2, <3>3, <4>2
    <3>5. ~ AmantaOf(e) < AmantaOf(d)
      <4> SUFFICES ASSUME AmantaOf(e) < AmantaOf(d) PROVE FALSE
        OBVIOUS
      <4>1. AmantaOf(d) \in AmantaOf(e) + 1 .. Len(AmantaMonths)
        BY <2>1
      <4>2. k <= AmantaOf(d)
        BY <2>3, <3>2, <4>1
      <4> QED
        BY <2>1, <3>1, <3>3, <4>2
    <3> QED
      BY <2>1, <3>4, <3>5
  <2> QED
    BY <2>4, <2>5 DEF LibraryPaksha
<1>2. TithiOf(d) = TithiOf(e)
  <2>1. TithiOf(d) \in Int /\ TithiOf(e) \in Int
    BY DayIs
  <2>2. TithiOf(d) + 1 = TithiOf(e) + 1
    BY MatchIs
  <2> QED
    BY <2>1, <2>2
<1> QED
  BY <1>1, <1>2, DayIs

\* A day that matches as another of the same tithi does.
LEMMA SameTithi ==
    ASSUME NEW d, NEW e, sky[d].index = sky[e].index
    PROVE  MatchFestivals(d) = MatchFestivals(e)
<1>1. TithiOf(d) = TithiOf(e) /\ AmantaOf(d) = AmantaOf(e)
  BY DEF TithiOf, AmantaOf
<1>2. LibraryPaksha(d) = LibraryPaksha(e) /\ LibraryNumber(d) = LibraryNumber(e) /\ IsAdhika(d) = IsAdhika(e)
  BY <1>1 DEF LibraryPaksha, LibraryNumber, IsAdhika
<1>3. PurnimantaName(d) = PurnimantaName(e)
  BY <1>1, <1>2 DEF PurnimantaName
<1> QED
  BY <1>2, <1>3 DEF MatchFestivals, MatchesTithi

\* The bright fortnight of a month does not come before its dark one.
LEMMA DarkFirst ==
    ASSUME SkyInv, NEW d \in Days, NEW e \in Days, sky[e].index <= sky[d].index,
           NEW f \in DOMAIN HinduFestivals, NEW g \in DOMAIN HinduFestivals,
           MatchesTithi(f, d), MatchesTithi(g, e), Rule(f).month = Rule(g).month,
           Rule(f).paksha = "krishna", Rule(g).paksha = "shukla"
    PROVE  FALSE
<1>1. PICK m \in AmantaOf(d) + 1 .. Len(AmantaMonths) :
        ~ AmantaMonths[m].isAdhika /\ AmantaMonths[m].name = Rule(f).month
  BY MatchIs
<1>2. ~ AmantaMonths[AmantaOf(e)].isAdhika /\ AmantaMonths[AmantaOf(e)].name = Rule(g).month
  BY MatchIs
<1>3. /\ AmantaOf(d) \in 1 .. Len(AmantaMonths) /\ AmantaOf(e) \in 1 .. Len(AmantaMonths)
      /\ DOMAIN AmantaMonths = 1 .. Len(AmantaMonths) /\ Len(AmantaMonths) \in Nat
  BY DayIs, PanchangAssumption DEF PanchangAssumption
<1>4. m = AmantaOf(e)
  <2>1. \A i, n \in DOMAIN AmantaMonths :
            ~ AmantaMonths[i].isAdhika /\ ~ AmantaMonths[n].isAdhika
                /\ AmantaMonths[i].name = AmantaMonths[n].name => i = n
    BY PanchangAssumption DEF PanchangAssumption
  <2> QED
    BY <1>1, <1>2, <1>3, <2>1
<1>5. AmantaOf(e) <= AmantaOf(d)
  <2>1. sky[e].index \in Nat /\ sky[d].index \in Nat
    BY DayIs
  <2>2. sky[e].index \div TithisOfMonth <= sky[d].index \div TithisOfMonth
    BY <2>1, MonthsGrow
  <2>3. PICK a, b : a = sky[e].index \div TithisOfMonth /\ b = sky[d].index \div TithisOfMonth
    OBVIOUS
  <2>4. AmantaOf(e) = a + 1 /\ AmantaOf(d) = b + 1 /\ a <= b
    BY <2>2, <2>3 DEF AmantaOf
  <2>5. a \in Nat /\ b \in Nat
    BY <2>1, <2>3, TithisDivide
  <2> QED
    BY <2>4, <2>5
<1> QED
  BY <1>1, <1>3, <1>4, <1>5

LEMMA FestivalsDo == SkyInv => FestivalsAgree
<1> SUFFICES ASSUME SkyInv PROVE FestivalsAgree
  OBVIOUS
<1>1. PICK last : last = Len(sky)
  OBVIOUS
<1>2. last \in Nat /\ last \in Days /\ \A d \in Days : d \in Int /\ d <= last /\ 1 <= d
  BY <1>1 DEF SkyInv, Days
<1>3. \A x \in KeptUntilToday : \E d \in Days, f \in DOMAIN HinduFestivals :
            x = <<d, f>> /\ ~ sky[d].dark /\ MatchesTithi(f, d)
  <2> SUFFICES ASSUME NEW x \in KeptUntilToday
               PROVE  \E d \in Days, f \in DOMAIN HinduFestivals : x = <<d, f>> /\ ~ sky[d].dark /\ MatchesTithi(f, d)
    OBVIOUS
  <2>1. PICK d \in Days : x \in {<<d, f>> : f \in Build(d).festivals}
    BY DEF KeptUntilToday
  <2>2. PICK f \in Build(d).festivals : x = <<d, f>>
    BY <2>1
  <2>3. ~ sky[d].dark /\ f \in MatchFestivals(d)
    BY <2>2, MatchesIs
  <2> QED
    BY <2>2, <2>3 DEF MatchFestivals
<1>4. \A d \in Days : \A f : <<d, f>> \in KeptUntilToday <=> ~ sky[d].dark /\ f \in DOMAIN HinduFestivals /\ MatchesTithi(f, d)
  BY MatchesIs DEF MatchFestivals
<1>5. ASSUME NEW f \in Build(last).festivals
      PROVE  /\ Build(last).paksha = Rule(f).paksha
             /\ Build(last).tithi = IF Rule(f).tithi = Amavasya THEN TithisOfMonth
                                    ELSE Rule(f).tithi + (IF Rule(f).paksha = "krishna" THEN Half ELSE 0)
             /\ \A d \in {x[1] : x \in {y \in KeptUntilToday : y[2] = f}} :
                    \A between \in d .. last : <<between, f>> \in KeptUntilToday \/ sky[between].dark
             /\ \A x \in KeptUntilToday : ~ (/\ Rule(f).month = Rule(x[2]).month
                                             /\ Rule(f).paksha = "krishna" /\ Rule(x[2]).paksha = "shukla")
  <2>1. ~ sky[last].dark /\ f \in DOMAIN HinduFestivals /\ MatchesTithi(f, last)
    BY <1>2, <1>5, MatchesIs DEF MatchFestivals
  <2>2. Build(last).paksha = LibraryPaksha(last) /\ Build(last).tithi = TithiOf(last) + 1
    BY <1>2, <2>1, MatchesIs
  <2>3. /\ Rule(f).paksha = LibraryPaksha(last)
        /\ TithiOf(last) + 1 = IF Rule(f).tithi = Amavasya THEN TithisOfMonth
                               ELSE Rule(f).tithi + (IF Rule(f).paksha = "krishna" THEN Half ELSE 0)
    BY <1>2, <2>1, MatchIs
  <2>4. ASSUME NEW x \in KeptUntilToday, x[2] = f, NEW between \in x[1] .. last
        PROVE  <<between, f>> \in KeptUntilToday \/ sky[between].dark
    <3>1. PICK d \in Days : x[1] = d /\ MatchesTithi(f, d)
      BY <1>3, <2>4
    <3>2. sky[d].index = sky[last].index
      BY <1>2, <2>1, <3>1, OneTithi
    <3>3. between \in Days /\ d <= between /\ between <= last
      <4>1. between \in Int /\ d <= between /\ between <= last /\ 1 <= d
        BY <1>2, <2>4, <3>1
      <4> QED
        BY <1>1, <1>2, <4>1 DEF Days
    <3>4. sky[d].index <= sky[between].index /\ sky[between].index <= sky[last].index
      BY <1>2, <3>1, <3>3 DEF SkyInv
    <3>5. sky[between].index \in Nat /\ sky[last].index \in Nat
      BY <1>2, <3>3, SkyTyped
    <3>6. sky[between].index = sky[last].index
      BY <3>2, <3>4, <3>5
    <3>7. f \in MatchFestivals(between)
      BY <2>1, <3>6, SameTithi DEF MatchFestivals
    <3> QED
      BY <3>3, <3>7, MatchesIs
  <2>5. ASSUME NEW x \in KeptUntilToday, Rule(f).month = Rule(x[2]).month,
               Rule(f).paksha = "krishna", Rule(x[2]).paksha = "shukla"
        PROVE  FALSE
    <3>1. PICK d \in Days, g \in DOMAIN HinduFestivals : x = <<d, g>> /\ MatchesTithi(g, d)
      BY <1>3
    <3>2. x[2] = g
      BY <3>1
    <3>3. sky[d].index <= sky[last].index
      BY <1>2 DEF SkyInv
    <3> QED
      BY <1>2, <2>1, <2>5, <3>1, <3>2, <3>3, DarkFirst
  <2> QED
    BY <2>2, <2>3, <2>4, <2>5
<1>6. FindUpcoming(Days) = KeptUntilToday
  <2>1. ASSUME NEW x \in FindUpcoming(Days) PROVE x \in KeptUntilToday
    <3>1. PICK d \in Days, f \in DOMAIN HinduFestivals : x = <<d, f>> /\ ~ sky[d].dark /\ MatchesTithi(f, d)
      BY <2>1 DEF FindUpcoming
    <3> QED
      BY <1>4, <3>1
  <2>2. ASSUME NEW x \in KeptUntilToday PROVE x \in FindUpcoming(Days)
    <3>1. PICK d \in Days, f \in DOMAIN HinduFestivals : x = <<d, f>> /\ ~ sky[d].dark /\ MatchesTithi(f, d)
      BY <1>3, <2>2
    <3> QED
      BY <3>1 DEF FindUpcoming
  <2> QED
    BY <2>1, <2>2
<1>7. (\E d \in Days : Build(d) = Failed) <=> \E d \in Days : sky[d].dark
  BY MatchesIs
<1>8. GetPanchangMonth(Days) = {} <=> \E d \in Days : sky[d].dark
  BY <1>2, <1>7 DEF GetPanchangMonth
<1>9. ASSUME NEW x \in GetPanchangMonth(Days)
      PROVE  x.panchang.festivals = {y[2] : y \in {z \in KeptUntilToday : z[1] = x.day}}
  <2>1. PICK d \in Days : x = [day |-> d, panchang |-> Build(d)] /\ ~ sky[d].dark
    BY <1>7, <1>9 DEF GetPanchangMonth
  <2>2. x.day = d /\ x.panchang.festivals = MatchFestivals(d)
    BY <2>1, MatchesIs
  <2>3. ASSUME NEW f \in MatchFestivals(d) PROVE f \in {y[2] : y \in {z \in KeptUntilToday : z[1] = d}}
    <3>1. <<d, f>> \in KeptUntilToday
      BY <2>1, MatchesIs
    <3> QED
      BY <3>1
  <2>4. ASSUME NEW z \in KeptUntilToday, z[1] = d PROVE z[2] \in MatchFestivals(d)
    BY <1>3, <2>4 DEF MatchFestivals
  <2> QED
    BY <2>2, <2>3, <2>4
<1> QED
  BY <1>1, <1>5, <1>6, <1>8, <1>9, Zenon DEF FestivalsAgree

-----------------------------------------------------------------------------
(* The sandhyas                                                             *)

LEMMA SandhyasAre ==
    ASSUME SkyInv
    PROVE  /\ Sandhyas = {"pratah", "madhyahna", "sayam"}
           /\ 2 * WallClockNow \in Int
           /\ \A s \in Sandhyas : Bands[s].start \in Int /\ Bands[s].end \in Int
           /\ Bands["pratah"].start < Bands["madhyahna"].start /\ Bands["madhyahna"].start < Bands["sayam"].start
           /\ sun.sunset - sun.sunrise > 8 =>
                Bands["pratah"].end < Bands["madhyahna"].start /\ Bands["madhyahna"].end < Bands["sayam"].start
<1>1. sun.sunrise \in Int /\ sun.sunset \in Int /\ sun.sunrise < sun.sunset
  BY PanchangAssumption DEF PanchangAssumption, SkyInv
<1>2. PICK rise, set : rise = sun.sunrise /\ set = sun.sunset
  OBVIOUS
<1>3. Bands["pratah"].start = 2 * rise - 12 /\ Bands["pratah"].end = 2 * rise + 4
  BY <1>1, <1>2 DEF Bands
<1>7. Bands["madhyahna"].start = rise + set - 4 /\ Bands["madhyahna"].end = rise + set + 4
  BY <1>1, <1>2 DEF Bands
<1>8. Bands["sayam"].start = 2 * set - 4 /\ Bands["sayam"].end = 2 * set + 6
  BY <1>1, <1>2 DEF Bands
<1>4. Sandhyas = {"pratah", "madhyahna", "sayam"}
  <2>1. DOMAIN Bands = {"pratah", "madhyahna", "sayam"}
    BY DEF Bands
  <2> QED
    BY <2>1 DEF Sandhyas
<1>5. \A s \in Sandhyas : Bands[s].start \in Int /\ Bands[s].end \in Int
  BY <1>1, <1>2, <1>3, <1>4, <1>7, <1>8
<1>6. 2 * WallClockNow \in Int
  <2>1. Quarters \in Nat /\ Quarters > 0 /\ instant + zone \in Int
    BY PanchangAssumption DEF PanchangAssumption, SkyInv
  <2> QED
    BY <2>1 DEF WallClockNow
<1> QED
  BY <1>1, <1>2, <1>3, <1>4, <1>5, <1>6, <1>7, <1>8

LEMMA SandhyasDo == SkyInv => SandhyasInOrder
<1> SUFFICES ASSUME SkyInv PROVE SandhyasInOrder
  OBVIOUS
<1>1. PICK wall, starts, ends : /\ wall = 2 * WallClockNow
                                /\ starts = [s \in Sandhyas |-> Bands[s].start] /\ ends = [s \in Sandhyas |-> Bands[s].end]
  OBVIOUS
<1>2. /\ Sandhyas = {"pratah", "madhyahna", "sayam"} /\ wall \in Int
      /\ \A s \in Sandhyas : starts[s] \in Int /\ ends[s] \in Int
      /\ starts["pratah"] < starts["madhyahna"] /\ starts["madhyahna"] < starts["sayam"]
      /\ sun.sunset - sun.sunrise > 8 => ends["pratah"] < starts["madhyahna"] /\ ends["madhyahna"] < starts["sayam"]
  BY <1>1, SandhyasAre
<1>3. \A s \in Sandhyas : starts[s] = Bands[s].start /\ ends[s] = Bands[s].end
  BY <1>1
<1>4. CurrentSandhyas = {s \in Sandhyas : starts[s] <= wall /\ wall <= ends[s]}
  BY <1>1, <1>2, <1>3 DEF CurrentSandhyas
<1>5. sun.sunset - sun.sunrise > 8 => Cardinality(CurrentSandhyas) <= 1
  <2> SUFFICES ASSUME sun.sunset - sun.sunrise > 8 PROVE Cardinality(CurrentSandhyas) <= 1
    OBVIOUS
  <2>1. \A r, s \in CurrentSandhyas : r = s
    BY <1>2, <1>4
  <2>2. CASE CurrentSandhyas = {}
    BY <2>2, FS_EmptySet
  <2>3. CASE CurrentSandhyas # {}
    <3>1. PICK s : CurrentSandhyas = {s}
      BY <2>1, <2>3
    <3>2. Cardinality(CurrentSandhyas) = 1
      BY <3>1, FS_Singleton
    <3> QED
      BY <3>2
  <2> QED
    BY <2>2, <2>3
<1>6. \A s \in CurrentSandhyas : Bands[s].start <= wall /\ wall <= Bands[s].end
  BY <1>3, <1>4
<1>7. PICK upcoming : upcoming = {s \in Sandhyas : starts[s] > wall}
  OBVIOUS
<1>8. NextSandhya = {s \in upcoming : \A r \in upcoming : starts[s] <= starts[r]}
  <2>1. upcoming = {s \in Sandhyas : Bands[s].start > 2 * WallClockNow}
    BY <1>1, <1>3, <1>7
  <2>2. NextSandhya = {s \in upcoming : \A r \in upcoming : Bands[s].start <= Bands[r].start}
    BY <2>1 DEF NextSandhya
  <2> QED
    BY <1>3, <1>7, <2>2
<1>9. \A s \in NextSandhya : wall < Bands[s].start
  BY <1>2, <1>3, <1>7, <1>8
<1>10. NextSandhya = {} <=> upcoming = {}
  <2>1. ASSUME upcoming # {} PROVE NextSandhya # {}
    <3>1. CASE "pratah" \in upcoming
      BY <1>2, <1>7, <1>8, <3>1
    <3>2. CASE "pratah" \notin upcoming /\ "madhyahna" \in upcoming
      BY <1>2, <1>7, <1>8, <3>2
    <3>3. CASE upcoming = {"sayam"}
      BY <1>2, <1>7, <1>8, <3>3
    <3> QED
      BY <1>2, <1>7, <2>1, <3>1, <3>2, <3>3
  <2> QED
    BY <1>8, <2>1
<1>11. upcoming = {} <=> \A s \in Sandhyas : Bands[s].start <= wall
  BY <1>2, <1>3, <1>7
<1>12. wall = 2 * ((instant + zone) % Quarters)
  BY <1>1 DEF WallClockNow
<1> QED
  BY <1>5, <1>6, <1>9, <1>10, <1>11, <1>12, Zenon DEF SandhyasInOrder

LEMMA PanchangDoes == SkyInv => PanchangAgrees
  BY FestivalsDo, SandhyasDo DEF PanchangAgrees
=============================================================================
