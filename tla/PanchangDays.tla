------------------------------ MODULE PanchangDays ------------------------------
(***************************************************************************)
(* The Hindu calendar: a day's tithi and festivals for one date, for a month *)
(* and for the days to come (panchang.service.ts, festival-rule.service.ts), *)
(* and the sandhya that is due (puja-times.service.ts).                      *)
(*                                                                           *)
(* The sky is panchang-ts: day by day the tithi at sunrise, which may stay    *)
(* or skip one, its lunar month, and whether that month is intercalary.       *)
(***************************************************************************)
EXTENDS Integers, Sequences, FiniteSets

CONSTANTS
    Half,           \* tithis of a fortnight, 15
    Amavasya,       \* 30 in a rule: the last tithi of the dark fortnight
    AmantaMonths,   \* months of the sky: [name, isAdhika], new moon to new moon
    HinduFestivals, \* hindu_festivals: slug -> [month, paksha, tithi]
    MaxIrregular,   \* sunrises at which the tithi has stayed or skipped one
    MaxDark,        \* days without a sunrise
    Quarters,       \* of an hour, in a day: 96
    Clocks,         \* what zones are ahead of UTC, in quarters
    SunTimes        \* [sunrise, sunset] in quarters

ASSUME PanchangAssumption ==
    /\ {Half, Quarters} \subseteq Nat \ {0} /\ Amavasya \in Nat /\ Amavasya > Half
    \* A year: a name is of one month beside leap months, and the last is not one of these.
    /\ AmantaMonths \in Seq([name : STRING, isAdhika : BOOLEAN]) /\ Len(AmantaMonths) > 1
    /\ ~ AmantaMonths[Len(AmantaMonths)].isAdhika
    /\ \A m, n \in {k \in DOMAIN AmantaMonths : ~ AmantaMonths[k].isAdhika} :
            AmantaMonths[m].name = AmantaMonths[n].name => m = n
    /\ \A f \in DOMAIN HinduFestivals :
            HinduFestivals[f].paksha \in {"shukla", "krishna"} /\ HinduFestivals[f].tithi \in (1 .. Half) \union {Amavasya}
    /\ Clocks \subseteq Int /\ Clocks # {} /\ SunTimes # {}
    /\ \A s \in SunTimes : {s.sunrise, s.sunset} \subseteq Int /\ s.sunrise < s.sunset

VARIABLES
    sky,        \* the days so far: [index, dark]
    irregular, dark,
    instant, zone, sun

panchangVars == <<sky, irregular, dark, instant, zone, sun>>

TithisOfMonth == 2 * Half
\* The dark fortnight of the last month has the name of a month that is not here.
LastTithi == Len(AmantaMonths) * TithisOfMonth - Half - 1

-----------------------------------------------------------------------------
(* panchang-ts.                                                            *)

TithiOf(d) == sky[d].index % TithisOfMonth
AmantaOf(d) == (sky[d].index \div TithisOfMonth) + 1
LibraryPaksha(d) == IF TithiOf(d) < Half THEN "shukla" ELSE "krishna"
LibraryNumber(d) == (TithiOf(d) % Half) + 1
IsAdhika(d) == AmantaMonths[AmantaOf(d)].isAdhika

\* The bright fortnight has the name of its month, the dark one the next's.
PurnimantaName(d) ==
    LET later == {m \in AmantaOf(d) + 1 .. Len(AmantaMonths) : ~ AmantaMonths[m].isAdhika}
    IN  IF LibraryPaksha(d) = "shukla" \/ later = {} THEN AmantaMonths[AmantaOf(d)].name
        ELSE AmantaMonths[CHOOSE m \in later : \A n \in later : m <= n].name

-----------------------------------------------------------------------------
(* The services.                                                           *)

\* Faulty variant: a festival is kept in the leap month too.
MatchesTithi_EvenAdhika(f, d) ==
    LET rule == HinduFestivals[f]
    IN  /\ LibraryPaksha(d) = rule.paksha
        /\ IF rule.tithi = Amavasya THEN LibraryNumber(d) = Half /\ rule.paksha = "krishna"
           ELSE LibraryNumber(d) = rule.tithi
        /\ PurnimantaName(d) = rule.month

\* matchesTithi.
MatchesTithi(f, d) ==
    LET rule == HinduFestivals[f]
    IN  /\ LibraryPaksha(d) = rule.paksha
        /\ IF rule.tithi = Amavasya THEN LibraryNumber(d) = Half /\ rule.paksha = "krishna"
           ELSE LibraryNumber(d) = rule.tithi
        /\ ~ IsAdhika(d)
        /\ PurnimantaName(d) = rule.month

MatchFestivals(d) == {f \in DOMAIN HinduFestivals : MatchesTithi(f, d)}

Failed == [tithi |-> 0, paksha |-> "none", festivals |-> {}]

\* build; a day without a sunrise is an error.
Build(d) ==
    IF sky[d].dark THEN Failed
    ELSE [tithi |-> TithiOf(d) + 1, paksha |-> IF TithiOf(d) < Half THEN "shukla" ELSE "krishna",
          festivals |-> MatchFestivals(d)]

\* getPanchangMonth: one failing day fails the month.
GetPanchangMonth(days) ==
    IF \E d \in days : Build(d) = Failed THEN {} ELSE {[day |-> d, panchang |-> Build(d)] : d \in days}

\* findUpcoming: a day without a sunrise is passed over.
FindUpcoming(days) ==
    {coming \in days \X DOMAIN HinduFestivals : ~ sky[coming[1]].dark /\ MatchesTithi(coming[2], coming[1])}

-----------------------------------------------------------------------------
(* The sandhyas of a day.                                                  *)

\* Faulty variant: the real instant is compared with times of the wall clock.
WallClockNow_Instant == instant % Quarters

\* wallClockNow: the clock on the wall, as if it were UTC.
WallClockNow == (instant + zone) % Quarters

\* In eighths of an hour, for the noon between.
Bands ==
    LET rise == 2 * sun.sunrise  set == 2 * sun.sunset  noon == sun.sunrise + sun.sunset
    IN  [pratah |-> [start |-> rise - 12, end |-> rise + 4],
         madhyahna |-> [start |-> noon - 4, end |-> noon + 4],
         sayam |-> [start |-> set - 4, end |-> set + 6]]

Sandhyas == DOMAIN Bands
CurrentSandhyas == {s \in Sandhyas : 2 * WallClockNow \in Bands[s].start .. Bands[s].end}

\* The first that has yet to start, if one has.
NextSandhya ==
    LET upcoming == {s \in Sandhyas : Bands[s].start > 2 * WallClockNow}
    IN  {s \in upcoming : \A r \in upcoming : Bands[s].start <= Bands[r].start}

-----------------------------------------------------------------------------
FirstZone == CHOOSE z \in Clocks : TRUE
FirstSun == CHOOSE s \in SunTimes : TRUE

\* The next sunrise finds the next tithi, the same one again, or skips one.
NextDay ==
    LET at == sky[Len(sky)].index
    IN  /\ instant = 0 /\ zone = FirstZone /\ sun = FirstSun
        /\ \E step \in {0, 1, 2}, night \in BOOLEAN :
            /\ at + step <= LastTithi
            /\ irregular' = irregular + (IF step = 1 THEN 0 ELSE 1) /\ irregular' <= MaxIrregular
            /\ dark' = dark + (IF night THEN 1 ELSE 0) /\ dark' <= MaxDark
            /\ sky' = Append(sky, [index |-> at + step, dark |-> night])
        /\ UNCHANGED <<instant, zone, sun>>

\* Another place, or another season.
Move ==
    /\ Len(sky) = 1 /\ instant = 0 /\ zone' \in Clocks /\ sun' \in SunTimes
    /\ UNCHANGED <<sky, irregular, dark, instant>>

Quarter ==
    /\ Len(sky) = 1 /\ instant < Quarters - 1 /\ instant' = instant + 1
    /\ UNCHANGED <<sky, irregular, dark, zone, sun>>

PanchangInit ==
    /\ sky = <<[index |-> Half, dark |-> FALSE]>> /\ irregular = 0 /\ dark = 0
    /\ instant = 0 /\ zone = FirstZone /\ sun = FirstSun

PanchangNext == NextDay \/ Move \/ Quarter

-----------------------------------------------------------------------------
(* Properties.                                                             *)

Days == 1 .. Len(sky)
KeptUntilToday == UNION {{<<d, f>> : f \in Build(d).festivals} : d \in Days}
Rule(f) == HinduFestivals[f]

\* A festival is kept in one stretch of days, once in its year, whatever the
\* leap months and the tithis that last or fail; the dark fortnight of a month
\* before its bright one, as the rules are written; the tithi that the answer
\* shows is the rule's.  One date, its month and the days to come tell the same
\* festivals; only a day without a sunrise fails a month, and is passed over by
\* the days to come (festival-rule.service.ts:138-141, panchang.service.ts:77-83).
FestivalsAgree ==
    LET today == Build(Len(sky))  kept == KeptUntilToday  month == GetPanchangMonth(Days)
    IN  /\ \A f \in today.festivals :
            /\ today.paksha = Rule(f).paksha
            /\ today.tithi = IF Rule(f).tithi = Amavasya THEN TithisOfMonth
                             ELSE Rule(f).tithi + (IF Rule(f).paksha = "krishna" THEN Half ELSE 0)
            /\ \A d \in {x[1] : x \in {y \in kept : y[2] = f}} :
                \A between \in d .. Len(sky) : <<between, f>> \in kept \/ sky[between].dark
            /\ \A x \in kept : ~ (/\ Rule(f).month = Rule(x[2]).month
                                  /\ Rule(f).paksha = "krishna" /\ Rule(x[2]).paksha = "shukla")
        /\ FindUpcoming(Days) = kept
        /\ month = {} <=> \E d \in Days : sky[d].dark
        /\ \A x \in month : x.panchang.festivals = {y[2] : y \in {z \in kept : z[1] = x.day}}

\* For the clock on the wall of the place, one sandhya at most is under way on a
\* day longer than two hours; the next is the first to start after it; and until
\* the evening's has begun there is a next (puja-times.service.ts:46-50, 83-94).
SandhyasInOrder ==
    LET wall == 2 * ((instant + zone) % Quarters)
    IN  /\ sun.sunset - sun.sunrise > 8 => Cardinality(CurrentSandhyas) <= 1
        /\ \A s \in CurrentSandhyas : Bands[s].start <= wall /\ wall <= Bands[s].end
        /\ \A s \in NextSandhya : wall < Bands[s].start
        /\ NextSandhya = {} <=> \A s \in Sandhyas : Bands[s].start <= wall

PanchangAgrees == FestivalsAgree /\ SandhyasInOrder
=============================================================================
