----------------------------- MODULE PartProofs -----------------------------
(***************************************************************************)
(* The parts that MCRequests runs side by side, together: a user's settings, *)
(* the phones his notifications go to and his roles (RecordInv, DeviceInv,  *)
(* AccessInv), his counters (TallyInv), his prayer log (LogInv) and his      *)
(* streak (LedgerInv of RequestProofs), what he reads and marks (ReadersInv, *)
(* HeartInv and JuzInv of LibraryProofs) and the scripts that guard it (the  *)
(* invariants of ContentProofs).  Each is inductive in its part, for any     *)
(* number of overlapping requests and any constants.                         *)
(***************************************************************************)
EXTENDS MCRequests, RequestProofs, LibraryProofs, ContentProofs

-----------------------------------------------------------------------------
(* UserRecords                                                              *)

RecordJob ==
    [op : {"none", "put_profile", "post_profile", "get_profile", "put_preferences"},
     phase : {"idle", "update", "create", "name", "language", "push"},
     value : Nat, of : SUBSET ({"bio", "name", "language"} \union Switches),
     read : {<<>>} \union [Switches -> Nat]]

\* A profile that is not there was never written; a job that merges switches has
\* read all of them.
RecordInv ==
    /\ profile \in [exists : BOOLEAN, bio : Nat]
    /\ push \in [Switches -> Nat] /\ meant \in [bio : Nat, push : [Switches -> Nat]]
    /\ job \in [Jobs -> RecordJob] /\ started \in Nat
    /\ ~ profile.exists => profile.bio = 0
    /\ \A j \in Jobs : job[j].phase = "update" => profile.exists
    /\ \A j \in Jobs : job[j].phase = "push" => job[j].read \in [Switches -> Nat]
    /\ SettingsKept

LEMMA NoJobIs == NoJob \in RecordJob /\ NoJob.phase = "idle" /\ NoJob.read = <<>>
BY DEF NoJob, RecordJob

LEMMA RecordInvInit == RecordInit => RecordInv
<1> SUFFICES ASSUME RecordInit PROVE RecordInv
  OBVIOUS
<1>2. job \in [Jobs -> RecordJob] /\ \A j \in Jobs : job[j].phase = "idle"
  BY NoJobIs DEF RecordInit
<1> QED
  BY <1>2 DEF RecordInit, RecordInv, SettingsKept

LEMMA JobDone ==
    ASSUME RecordInv, NEW j \in Jobs, Done(j)
    PROVE  /\ job' \in [Jobs -> RecordJob]
           /\ \A i \in Jobs : job'[i].phase = "idle" \/ job'[i] = job[i]
BY NoJobIs DEF Done, RecordInv

LEMMA JobGoesOn ==
    ASSUME RecordInv, NEW j \in Jobs, NEW phase \in {"name", "create"}, OnTo(j, phase)
    PROVE  /\ job' \in [Jobs -> RecordJob]
           /\ \A i \in Jobs : job'[i].phase \in {"name", "create"} \/ job'[i] = job[i]
<1>1. job \in [Jobs -> RecordJob] /\ job[j] \in RecordJob
  BY DEF RecordInv
<1>2. job' = [job EXCEPT ![j] = [job[j] EXCEPT !.phase = phase]]
  BY DEF OnTo
<1>3. [job[j] EXCEPT !.phase = phase] \in RecordJob /\ [job[j] EXCEPT !.phase = phase].phase = phase
  BY <1>1 DEF RecordJob
<1> QED
  BY <1>1, <1>2, <1>3

LEMMA JobAsked ==
    ASSUME RecordInv, NEW j \in Jobs, NEW record \in RecordJob, job' = [job EXCEPT ![j] = record]
    PROVE  /\ job' \in [Jobs -> RecordJob] /\ job'[j] = record
           /\ \A i \in Jobs : i # j => job'[i] = job[i]
BY DEF RecordInv

LEMMA RecordInvNext == RecordInv /\ [RecordNext]_recordVars => RecordInv'
<1> SUFFICES ASSUME RecordInv, [RecordNext]_recordVars PROVE RecordInv'
  OBVIOUS
<1> USE DEF RecordInv, SettingsKept
<1>0. RecordJob' = RecordJob
  BY DEF RecordJob
<1>1. CASE UNCHANGED recordVars
  BY <1>1 DEF recordVars, RecordJob
<1>2. ASSUME NEW j \in Jobs, ReadProfile(j) PROVE RecordInv'
  <2>1. PICK op \in {"put_profile", "post_profile", "get_profile"},
             phase \in {"update", "create", "name"}, of \in SUBSET {"bio", "name"} :
          Ask(j, op, phase, of) /\ (phase = "update" => profile.exists)
    BY <1>2 DEF ReadProfile
  <2> DEFINE record == [NoJob EXCEPT !.op = op, !.phase = phase, !.value = started + 1, !.of = of]
  <2>2. record \in RecordJob /\ record.phase = phase
    <3>1. started + 1 \in Nat /\ of \in SUBSET ({"bio", "name", "language"} \union Switches) /\ push \in [Switches -> Nat]
      OBVIOUS
    <3> QED
      BY <3>1, NoJobIs DEF RecordJob
  <2>3. job' = [job EXCEPT ![j] = record] /\ started' = started + 1
    BY <2>1 DEF Ask
  <2> HIDE DEF record
  <2>4. job' \in [Jobs -> RecordJob] /\ \A i \in Jobs : job'[i] = record \/ job'[i] = job[i]
    BY <2>2, <2>3, JobAsked
  <2> QED
    BY <1>0, <1>2, <2>1, <2>2, <2>3, <2>4 DEF ReadProfile
<1>3. ASSUME NEW j \in Jobs, CreateProfile(j) PROVE RecordInv'
  <2>1. job[j] \in RecordJob
    OBVIOUS
  <2>2. CASE profile.exists
    <3>1. Done(j) /\ UNCHANGED <<profile, meant, push, started, putBack>>
      BY <1>3, <2>2 DEF CreateProfile
    <3> QED
      BY <1>0, <3>1, JobDone
  <2>3. CASE ~ profile.exists
    <3> DEFINE bio == IF "bio" \in job[j].of THEN job[j].value ELSE 0
    <3>1. /\ profile' = [exists |-> TRUE, bio |-> bio] /\ UNCHANGED <<push, started, putBack>>
          /\ meant' = [meant EXCEPT !.bio = IF "bio" \in job[j].of THEN job[j].value ELSE meant.bio]
          /\ (OnTo(j, "name") \/ Done(j))
      BY <1>3, <2>3 DEF CreateProfile
    <3>2. bio \in Nat
      BY <2>1 DEF RecordJob
    <3>3. meant' = [meant EXCEPT !.bio = bio]
      BY <2>3, <3>1
    <3> HIDE DEF bio
    <3>4. meant' \in [bio : Nat, push : [Switches -> Nat]] /\ meant'.bio = bio /\ meant'.push = meant.push
      BY <3>2, <3>3
    <3>5. job' \in [Jobs -> RecordJob] /\ \A i \in Jobs : job'[i].phase \notin {"update", "push"} \/ job'[i] = job[i]
      BY <3>1, JobDone, JobGoesOn
    <3> QED
      BY <1>0, <3>1, <3>2, <3>4, <3>5
  <2> QED
    BY <2>2, <2>3
<1>4. ASSUME NEW j \in Jobs, UpdateProfile(j) PROVE RecordInv'
  <2> DEFINE bio == IF "bio" \in job[j].of THEN job[j].value ELSE profile.bio
  <2>1. job[j] \in RecordJob /\ profile.exists /\ bio \in Nat
    BY <1>4 DEF RecordJob, UpdateProfile, Is
  <2>2. /\ profile' = [profile EXCEPT !.bio = bio] /\ meant' = [meant EXCEPT !.bio = bio]
        /\ UNCHANGED <<push, started, putBack>> /\ (OnTo(j, "name") \/ Done(j))
    BY <1>4 DEF UpdateProfile
  <2> HIDE DEF bio
  <2>3. /\ meant' \in [bio : Nat, push : [Switches -> Nat]] /\ meant'.bio = bio /\ meant'.push = meant.push
        /\ profile' \in [exists : BOOLEAN, bio : Nat] /\ profile'.exists /\ profile'.bio = bio
    BY <2>1, <2>2
  <2>4. job' \in [Jobs -> RecordJob] /\ \A i \in Jobs : job'[i].phase \notin {"update", "push"} \/ job'[i] = job[i]
    <3>1. OnTo(j, "name") \/ Done(j)
      BY <2>2
    <3> QED
      BY <3>1, JobDone, JobGoesOn
  <2>5. UNCHANGED <<push, started, putBack>>
    BY <1>4, Zenon DEF UpdateProfile
  <2>6. SettingsKept'
    BY <2>3, <2>5
  <2>7. /\ ~ profile'.exists => profile'.bio = 0
        /\ \A i \in Jobs : job'[i].phase = "update" => profile'.exists
        /\ \A i \in Jobs : job'[i].phase = "push" => job'[i].read \in [Switches -> Nat]
    BY <2>3, <2>4
  <2> QED
    BY <1>0, <2>3, <2>4, <2>5, <2>6, <2>7
<1>5. ASSUME NEW j \in Jobs, UpdateName(j) \/ UpdateLanguage(j) \/ JobDies(j) PROVE RecordInv'
  <2>1. UNCHANGED <<profile, meant, push, started, putBack>> /\ (OnTo(j, "create") \/ Done(j))
    BY <1>5 DEF UpdateName, UpdateLanguage, JobDies
  <2>2. job' \in [Jobs -> RecordJob] /\ \A i \in Jobs : job'[i].phase \notin {"update", "push"} \/ job'[i] = job[i]
    BY <2>1, JobDone, JobGoesOn
  <2> QED
    BY <1>0, <2>1, <2>2
<1>6. ASSUME NEW j \in Jobs, ReadPreferences(j) PROVE RecordInv'
  <2>1. PICK record \in RecordJob :
          /\ job' = [job EXCEPT ![j] = record] /\ started' = started + 1
          /\ record.phase \in {"language", "push"} /\ (record.phase = "push" => record.read = push)
    <3>1. CASE Ask(j, "put_preferences", "language", {"language"})
      <4> DEFINE record == [NoJob EXCEPT !.op = "put_preferences", !.phase = "language",
                                !.value = started + 1, !.of = {"language"}]
      <4>1. record \in RecordJob /\ record.phase = "language"
        <5>1. started + 1 \in Nat /\ push \in [Switches -> Nat]
          OBVIOUS
        <5> QED
          BY <5>1, NoJobIs DEF RecordJob
      <4>2. job' = [job EXCEPT ![j] = record] /\ started' = started + 1
        BY <3>1 DEF Ask
      <4> HIDE DEF record
      <4> QED
        BY <4>1, <4>2
    <3>2. CASE ~ Ask(j, "put_preferences", "language", {"language"})
      <4>1. PICK k \in Switches :
              /\ started' = started + 1
              /\ job' = [job EXCEPT ![j] = [NoJob EXCEPT !.op = "put_preferences", !.phase = "push",
                            !.value = started + 1, !.of = {k}, !.read = push]]
        BY <1>6, <3>2 DEF ReadPreferences
      <4> DEFINE record == [NoJob EXCEPT !.op = "put_preferences", !.phase = "push",
                            !.value = started + 1, !.of = {k}, !.read = push]
      <4>2. record \in RecordJob /\ record.phase = "push" /\ record.read = push
        <5>1. started + 1 \in Nat /\ push \in [Switches -> Nat]
          OBVIOUS
        <5> QED
          BY <5>1, NoJobIs DEF RecordJob
      <4>3. job' = [job EXCEPT ![j] = record] /\ started' = started + 1
        BY <4>1
      <4> HIDE DEF record
      <4> QED
        BY <4>2, <4>3
    <3> QED
      BY <3>1, <3>2
  <2>4. job' \in [Jobs -> RecordJob] /\ \A i \in Jobs : job'[i] = record \/ job'[i] = job[i]
    <3>1. job' = [job EXCEPT ![j] = record] /\ record \in RecordJob /\ job \in [Jobs -> RecordJob]
      BY <2>1
    <3> QED
      BY <3>1
  <2>5. UNCHANGED <<profile, push, meant, putBack>> /\ started' \in Nat
    <3>1. UNCHANGED <<profile, push, meant, putBack>>
      BY <1>6, Zenon DEF ReadPreferences
    <3>2. started' \in Nat
      BY <2>1
    <3> QED
      BY <3>1, <3>2
  <2>6. \A i \in Jobs : job'[i].phase = "push" => job'[i].read \in [Switches -> Nat]
    BY <2>1, <2>4
  <2>7. \A i \in Jobs : job'[i].phase = "update" => profile.exists
    BY <2>1, <2>4
  <2> QED
    BY <1>0, <2>4, <2>5, <2>6, <2>7
<1>7. ASSUME NEW j \in Jobs, UpdatePush(j) PROVE RecordInv'
  <2>1. job[j] \in RecordJob /\ job[j].read \in [Switches -> Nat] /\ job[j].value \in Nat
    BY <1>7 DEF RecordJob, UpdatePush
  <2> DEFINE wanting == [k \in Switches |-> IF k \in job[j].of THEN job[j].value ELSE meant.push[k]]
  <2>2. /\ push' = Merged(j) /\ meant' = [meant EXCEPT !.push = wanting]
        /\ putBack' = (putBack \union {k \in Switches : push[k] # job[j].read[k]}) \ job[j].of
        /\ Done(j) /\ UNCHANGED <<profile, started>>
    BY <1>7 DEF UpdatePush
  <2>3. /\ wanting \in [Switches -> Nat]
        /\ \A k \in Switches : wanting[k] = IF k \in job[j].of THEN job[j].value ELSE meant.push[k]
    BY <2>1
  <2> HIDE DEF wanting
  <2>4. /\ push' \in [Switches -> Nat] /\ meant' \in [bio : Nat, push : [Switches -> Nat]]
        /\ meant'.bio = meant.bio /\ meant'.push = wanting
        /\ \A k \in Switches : push'[k] = IF k \in job[j].of THEN job[j].value ELSE job[j].read[k]
    BY <2>1, <2>2, <2>3 DEF Merged
  <2>5. \A k \in Switches \ putBack' : push'[k] = meant'.push[k]
    BY <2>2, <2>3, <2>4
  <2> QED
    BY <1>0, <2>2, <2>4, <2>5, JobDone
<1> QED
  BY <1>1, <1>2, <1>3, <1>4, <1>5, <1>6, <1>7 DEF RecordNext

-----------------------------------------------------------------------------
(* PushDevices                                                              *)

DeviceCall ==
    [op : {"none", "register", "find", "switch off", "all"}, owner : Owners \union {"none"},
     row : {<<>>} \union (Owners \X Phones), about : SUBSET Phones, blurred : BOOLEAN]

\* Which rows a request is about, by what it does: a removal goes on only with a
\* row of the person who asked.
AboutItsRow(asked) ==
    /\ asked.op # "none" => asked.owner \in Owners
    /\ asked.op \in {"register", "switch off"} =>
        asked.row \in Owners \X Phones /\ asked.row[1] = asked.owner /\ asked.about = {asked.row[2]}
    /\ asked.op = "find" =>
        /\ asked.row \in Owners \X Phones
        /\ asked.about = IF asked.row[1] = asked.owner THEN {asked.row[2]} ELSE {}
    /\ asked.op = "all" => asked.about = Phones

DeviceInv ==
    /\ deviceRow \in [Owners \X Phones -> [exists : BOOLEAN, isActive : BOOLEAN]]
    /\ wanted \in [Owners \X Phones -> {"on", "off", "unknown"}]
    /\ phoneCall \in [PhoneCalls -> DeviceCall]
    /\ \A c \in PhoneCalls : AboutItsRow(phoneCall[c])
    /\ \A w \in Owners \X Phones : wanted[w] # "unknown" => (deviceRow[w].isActive <=> wanted[w] = "on")

LEMMA DeviceInvPushes == DeviceInv => PushesFollowWishes
BY DEF DeviceInv, PushesFollowWishes, ActiveTokens

LEMMA NoPhoneCallIs == NoPhoneCall \in DeviceCall /\ NoPhoneCall.op = "none" /\ AboutItsRow(NoPhoneCall)
BY DEF NoPhoneCall, DeviceCall, AboutItsRow

LEMMA DeviceInvInit == DeviceInit => DeviceInv
<1> SUFFICES ASSUME DeviceInit PROVE DeviceInv
  OBVIOUS
<1>1. deviceRow \in [Owners \X Phones -> [exists : BOOLEAN, isActive : BOOLEAN]]
      /\ \A w \in Owners \X Phones : ~ deviceRow[w].isActive
  BY DEF DeviceInit
<1>2. wanted \in [Owners \X Phones -> {"on", "off", "unknown"}] /\ \A w \in Owners \X Phones : wanted[w] = "off"
  BY DEF DeviceInit
<1>3. phoneCall \in [PhoneCalls -> DeviceCall] /\ \A c \in PhoneCalls : AboutItsRow(phoneCall[c])
  BY NoPhoneCallIs DEF DeviceInit
<1> QED
  BY <1>1, <1>2, <1>3 DEF DeviceInv

LEMMA CallBegins ==
    ASSUME DeviceInv, NEW c \in PhoneCalls, NEW op \in {"register", "find", "all"}, NEW owner \in Owners,
           NEW key \in {<<>>} \union (Owners \X Phones), NEW about \in SUBSET Phones,
           BeginCall(c, op, owner, key, about),
           AboutItsRow([op |-> op, owner |-> owner, row |-> key, about |-> about, blurred |-> TRUE])
    PROVE  DeviceInv'
<1> DEFINE overlaps == \E e \in PhoneCalls : Concerns(e, owner, about)
           new == [op |-> op, owner |-> owner, row |-> key, about |-> about, blurred |-> overlaps]
<1>1. overlaps \in BOOLEAN
  OBVIOUS
<1>2. /\ phoneCall' = [d \in PhoneCalls |->
            IF d = c THEN new ELSE [phoneCall[d] EXCEPT !.blurred = @ \/ Concerns(d, owner, about)]]
      /\ UNCHANGED <<deviceRow, wanted>>
  BY DEF BeginCall
<1> HIDE DEF overlaps
<1>3. new \in DeviceCall /\ AboutItsRow(new)
  BY <1>1 DEF DeviceCall, AboutItsRow
<1> HIDE DEF new
<1>4. ASSUME NEW d \in PhoneCalls, d # c
      PROVE  phoneCall'[d] \in DeviceCall /\ AboutItsRow(phoneCall'[d])
  <2> DEFINE blurred == phoneCall[d].blurred \/ Concerns(d, owner, about)
  <2>1. blurred \in BOOLEAN
    OBVIOUS
  <2>2. phoneCall'[d] = [phoneCall[d] EXCEPT !.blurred = blurred]
    BY <1>2, <1>4
  <2> HIDE DEF blurred
  <2>3. phoneCall[d] \in DeviceCall /\ AboutItsRow(phoneCall[d])
    BY DEF DeviceInv
  <2> QED
    BY <2>1, <2>2, <2>3 DEF DeviceCall, AboutItsRow
<1>5. phoneCall'[c] = new /\ DOMAIN phoneCall' = PhoneCalls
  BY <1>2
<1>6. phoneCall' \in [PhoneCalls -> DeviceCall] /\ \A d \in PhoneCalls : AboutItsRow(phoneCall'[d])
  BY <1>2, <1>3, <1>4, <1>5
<1>7. DeviceCall' = DeviceCall
  BY DEF DeviceCall
<1> QED
  BY <1>2, <1>6, <1>7 DEF DeviceInv, AboutItsRow

\* The rows of a request that ends are as it leaves them, on or off.
LEMMA CallEnds ==
    ASSUME DeviceInv, NEW c \in PhoneCalls, phoneCall[c].op # "none", NEW left \in {"on", "off"}, EndCall(c, left),
           deviceRow' \in [Owners \X Phones -> [exists : BOOLEAN, isActive : BOOLEAN]],
           \A w \in Owners \X Phones :
                IF w[1] = phoneCall[c].owner /\ w[2] \in phoneCall[c].about
                THEN deviceRow'[w].isActive <=> left = "on" ELSE deviceRow'[w] = deviceRow[w]
    PROVE  DeviceInv'
<1>1. phoneCall' \in [PhoneCalls -> DeviceCall] /\ \A d \in PhoneCalls : AboutItsRow(phoneCall'[d])
  BY NoPhoneCallIs DEF EndCall, DeviceInv
<1>2. \A w \in Owners \X Phones :
        wanted'[w] = IF w[1] = phoneCall[c].owner /\ w[2] \in phoneCall[c].about
                     THEN IF phoneCall[c].blurred THEN "unknown" ELSE left
                     ELSE wanted[w]
  BY DEF EndCall
<1>3. wanted' \in [Owners \X Phones -> {"on", "off", "unknown"}]
  <2>1. \A w \in Owners \X Phones : wanted'[w] \in {"on", "off", "unknown"}
    BY <1>2 DEF DeviceInv
  <2>2. wanted' = [w \in Owners \X Phones |-> wanted'[w]]
    BY DEF EndCall
  <2> QED
    BY <2>1, <2>2
<1>4. \A w \in Owners \X Phones : wanted'[w] # "unknown" => (deviceRow'[w].isActive <=> wanted'[w] = "on")
  BY <1>2 DEF DeviceInv
<1>5. DeviceCall' = DeviceCall
  BY DEF DeviceCall
<1> QED
  BY <1>1, <1>3, <1>4, <1>5 DEF DeviceInv, AboutItsRow

LEMMA DeviceInvNext == DeviceInv /\ [DeviceNext]_deviceVars => DeviceInv'
<1> SUFFICES ASSUME DeviceInv, [DeviceNext]_deviceVars PROVE DeviceInv'
  OBVIOUS
<1>1. CASE UNCHANGED deviceVars
  BY <1>1 DEF deviceVars, DeviceInv, DeviceCall, AboutItsRow
<1>2. ASSUME NEW c \in PhoneCalls, NEW owner \in Owners, NEW phone \in Phones, AskRegister(c, owner, phone)
      PROVE  DeviceInv'
  <2>1. <<owner, phone>> \in Owners \X Phones
    OBVIOUS
  <2>2. AboutItsRow([op |-> "register", owner |-> owner, row |-> <<owner, phone>>, about |-> {phone}, blurred |-> TRUE])
    BY <2>1 DEF AboutItsRow
  <2> QED
    BY <1>2, <2>1, <2>2, CallBegins DEF AskRegister
<1>3. ASSUME NEW c \in PhoneCalls, NEW owner \in Owners, NEW key \in Owners \X Phones, AskRemove(c, owner, key)
      PROVE  DeviceInv'
  <2> DEFINE about == IF key[1] = owner THEN {key[2]} ELSE {}
  <2>1. about \in SUBSET Phones /\ BeginCall(c, "find", owner, key, about)
    BY <1>3 DEF AskRemove
  <2>2. AboutItsRow([op |-> "find", owner |-> owner, row |-> key, about |-> about, blurred |-> TRUE])
    BY DEF AboutItsRow
  <2> HIDE DEF about
  <2> QED
    BY <2>1, <2>2, CallBegins
<1>4. ASSUME NEW c \in PhoneCalls, NEW owner \in Owners, AskRemoveAll(c, owner) PROVE DeviceInv'
  <2>1. AboutItsRow([op |-> "all", owner |-> owner, row |-> <<>>, about |-> Phones, blurred |-> TRUE])
    BY DEF AboutItsRow
  <2> QED
    BY <1>4, <2>1, CallBegins DEF AskRemoveAll
<1>5. ASSUME NEW c \in PhoneCalls, FindDevice(c) PROVE DeviceInv'
  <2>1. /\ phoneCall[c] \in DeviceCall /\ AboutItsRow(phoneCall[c]) /\ phoneCall[c].op = "find"
        /\ phoneCall \in [PhoneCalls -> DeviceCall] /\ UNCHANGED <<deviceRow, wanted>>
    BY <1>5 DEF DeviceInv, FindDevice
  <2> DEFINE next == IF phoneCall[c].row[1] = phoneCall[c].owner
                     THEN [phoneCall[c] EXCEPT !.op = "switch off"] ELSE NoPhoneCall
  <2>2. phoneCall' = [phoneCall EXCEPT ![c] = next]
    BY <1>5 DEF FindDevice
  <2>3. next \in DeviceCall /\ AboutItsRow(next)
    <3>1. CASE phoneCall[c].row[1] = phoneCall[c].owner
      BY <2>1, <3>1 DEF DeviceCall, AboutItsRow
    <3>2. CASE phoneCall[c].row[1] # phoneCall[c].owner
      BY <3>2, NoPhoneCallIs
    <3> QED
      BY <3>1, <3>2
  <2> HIDE DEF next
  <2>4. phoneCall' \in [PhoneCalls -> DeviceCall] /\ \A d \in PhoneCalls : AboutItsRow(phoneCall'[d])
    BY <2>1, <2>2, <2>3 DEF DeviceInv
  <2>5. DeviceCall' = DeviceCall
    BY DEF DeviceCall
  <2> QED
    BY <2>1, <2>4, <2>5 DEF DeviceInv, AboutItsRow
<1>6. ASSUME NEW c \in PhoneCalls, Register(c) \/ SwitchOff(c) PROVE DeviceInv'
  <2> DEFINE key == phoneCall[c].row
             left == IF Register(c) THEN "on" ELSE "off"
  <2>1. /\ key \in Owners \X Phones /\ key[1] = phoneCall[c].owner /\ phoneCall[c].about = {key[2]}
        /\ phoneCall[c].op # "none"
    BY <1>6 DEF DeviceInv, AboutItsRow, Register, SwitchOff
  <2>2. EndCall(c, left) /\ left \in {"on", "off"}
    BY <1>6 DEF Register, SwitchOff
  <2>3. PICK new \in [exists : BOOLEAN, isActive : BOOLEAN] :
          deviceRow' = [deviceRow EXCEPT ![key] = new] /\ (new.isActive <=> left = "on")
    <3>1. CASE Register(c)
      <4>1. [exists |-> TRUE, isActive |-> TRUE] \in [exists : BOOLEAN, isActive : BOOLEAN]
        OBVIOUS
      <4> QED
        BY <3>1, <4>1 DEF Register
    <3>2. CASE ~ Register(c)
      <4> DEFINE new == [deviceRow[key] EXCEPT !.isActive = FALSE]
      <4>1. deviceRow' = [deviceRow EXCEPT ![key] = new]
        BY <1>6, <3>2 DEF SwitchOff
      <4>2. deviceRow[key] \in [exists : BOOLEAN, isActive : BOOLEAN]
        <5>1. deviceRow \in [Owners \X Phones -> [exists : BOOLEAN, isActive : BOOLEAN]] /\ key \in Owners \X Phones
          BY <2>1 DEF DeviceInv
        <5> HIDE DEF key
        <5> QED
          BY <5>1
      <4>3. new \in [exists : BOOLEAN, isActive : BOOLEAN] /\ ~ new.isActive
        <5> HIDE DEF key
        <5> QED
          BY <4>2
      <4> HIDE DEF new
      <4> QED
        BY <3>2, <4>1, <4>3
    <3> QED
      BY <3>1, <3>2
  <2>4. \A w \in Owners \X Phones : (w[1] = key[1] /\ w[2] = key[2]) <=> w = key
    BY <2>1
  <2> HIDE DEF key, left
  <2>5. deviceRow' \in [Owners \X Phones -> [exists : BOOLEAN, isActive : BOOLEAN]]
    BY <2>1, <2>3 DEF DeviceInv
  <2>6. \A w \in Owners \X Phones :
          IF w[1] = phoneCall[c].owner /\ w[2] \in phoneCall[c].about
          THEN deviceRow'[w].isActive <=> left = "on" ELSE deviceRow'[w] = deviceRow[w]
    BY <2>1, <2>3, <2>4 DEF DeviceInv
  <2> QED
    BY <2>1, <2>2, <2>5, <2>6, CallEnds
<1>7. ASSUME NEW c \in PhoneCalls, RemoveAll(c) PROVE DeviceInv'
  <2>1. phoneCall[c].about = Phones /\ phoneCall[c].op # "none" /\ EndCall(c, "off")
    BY <1>7 DEF RemoveAll, DeviceInv, AboutItsRow
  <2>2. ASSUME NEW w \in Owners \X Phones
        PROVE  /\ deviceRow'[w] \in [exists : BOOLEAN, isActive : BOOLEAN]
               /\ IF w[1] = phoneCall[c].owner THEN ~ deviceRow'[w].isActive ELSE deviceRow'[w] = deviceRow[w]
    BY <1>7 DEF RemoveAll, DeviceInv
  <2>3. deviceRow' = [w \in Owners \X Phones |-> deviceRow'[w]]
    BY <1>7 DEF RemoveAll
  <2>4. deviceRow' \in [Owners \X Phones -> [exists : BOOLEAN, isActive : BOOLEAN]]
    BY <2>2, <2>3
  <2>5. \A w \in Owners \X Phones :
          IF w[1] = phoneCall[c].owner /\ w[2] \in phoneCall[c].about
          THEN deviceRow'[w].isActive <=> "off" = "on" ELSE deviceRow'[w] = deviceRow[w]
    BY <2>1, <2>2
  <2> QED
    BY <2>1, <2>4, <2>5, CallEnds
<1> QED
  BY <1>1, <1>2, <1>3, <1>4, <1>5, <1>6, <1>7 DEF DeviceNext

-----------------------------------------------------------------------------
(* RolesAndTokens                                                           *)

MintRecord ==
    [phase : {"idle", "default", "join", "permissions"}, late : BOOLEAN, roles : SUBSET RoleNames,
     todo : SUBSET RoleNames, rights : SUBSET RightNames, role : RoleIds \union {"none"},
     given : SUBSET RoleNames, due : SUBSET RightNames, calm : BOOLEAN]

AccessRecord ==
    [left : 0 .. TokenLife, roles : SUBSET RoleNames, rights : SUBSET RightNames,
     given : SUBSET RoleNames, due : SUBSET RightNames, calm : BOOLEAN]

AssignRecord ==
    [phase : {"idle", "add"}, role : RoleIds \union {"none"}, set : SUBSET RightIds, apart : BOOLEAN]

AccessTypeOK ==
    /\ roleName \in [RoleIds -> RoleNames \union {"none", "gone"}]
    /\ rightName \in [RightIds -> RightNames \union {"none", "gone"}]
    /\ grants \subseteq RoleIds \X RightIds
    /\ member \subseteq RoleIds /\ \A r \in member : roleName[r] \in RoleNames
    /\ access \in AccessRecord /\ mint \in MintRecord
    /\ assigner \in [Assigners -> AssignRecord]
    /\ assigned \in [RoleIds -> [known : BOOLEAN, set : SUBSET RightIds]]
    /\ heldAge \in [RoleNames -> Nat] /\ grantAge \in [RoleNames \X RightNames -> Nat]

\* He holds the role, or did at most k ticks ago; the same of what a role opens.
HeldWithin(n, k) == Holds(n) \/ heldAge[n] <= k
OpenWithin(n, p, k) == Opens(n, p) \/ grantAge[<<n, p>>] <= k

\* A login's claims are at most a tick older than the tables, and what it has
\* read of the permissions is what there is, if nothing has changed.
MintInv ==
    LET age == IF mint.late THEN 1 ELSE 0
    IN  /\ mint.phase # "permissions" => mint.roles = {} /\ mint.rights = {} /\ mint.due = {}
        /\ mint.todo \subseteq mint.roles
        /\ \A n \in mint.roles \ mint.given : HeldWithin(n, age)
        /\ \A p \in mint.rights : \E n \in mint.roles : OpenWithin(n, p, age)
        /\ mint.calm => \A p \in RightNames :
            /\ p \in mint.due <=> \E n \in mint.roles : p \in PermissionsByRole(n)
            /\ p \in mint.rights <=> \E n \in mint.roles \ mint.todo : p \in PermissionsByRole(n)

\* A token's are older by the ticks that have passed.
TokenInv ==
    access.left > 0 =>
        /\ \A n \in access.roles \ access.given : HeldWithin(n, TokenLife - access.left + 1)
        /\ \A p \in access.rights : \E n \in access.roles : OpenWithin(n, p, TokenLife - access.left + 1)
        /\ access.calm => \A p \in RightNames : p \in access.rights <=> p \in access.due

\* What a role opens, of a set of grants.
OpenedBy(G, r) == {g[2] : g \in {h \in G : h[1] = r}}

\* While an assignment that nobody has come between is half done, its role has no
\* permission.
AssignInv ==
    /\ \A a \in Assigners : assigner[a].phase = "add" =>
        assigner[a].role \in RoleIds /\ (assigner[a].apart => OpenedBy(grants, assigner[a].role) = {})
    /\ \A r \in RoleIds : assigned[r].known => OpenedBy(grants, r) = assigned[r].set

AccessInv == AccessTypeOK /\ MintInv /\ TokenInv /\ AssignInv

LEMMA AccessInvFollows == AccessInv => AccessFollowsRoles
<1> SUFFICES ASSUME AccessInv PROVE AccessFollowsRoles
  OBVIOUS
<1>1. /\ access.left \in Nat /\ access.left <= TokenLife /\ access.rights \subseteq RightNames
      /\ access.due \subseteq RightNames /\ TokenLife \in Nat /\ "*" \in RightNames
      /\ access.roles \subseteq RoleNames
      /\ \A n \in RoleNames : heldAge[n] \in Nat
      /\ \A n \in RoleNames, p \in RightNames : grantAge[<<n, p>>] \in Nat
  BY AccessAssumption DEF AccessInv, AccessTypeOK, AccessRecord
<1>2. ASSUME access.left > 0, NEW n \in access.roles \ access.given
      PROVE  Holds(n) \/ heldAge[n] <= TokenLife
  BY <1>1, <1>2 DEF AccessInv, TokenInv, HeldWithin
<1>3. ASSUME access.left > 0, NEW p \in access.rights
      PROVE  \E n \in access.roles : Opens(n, p) \/ grantAge[<<n, p>>] <= TokenLife
  <2>1. PICK n \in access.roles : OpenWithin(n, p, TokenLife - access.left + 1)
    BY <1>3 DEF AccessInv, TokenInv
  <2> QED
    BY <1>1, <1>3, <2>1 DEF OpenWithin
<1>4. ASSUME access.left > 0, access.calm, NEW p \in RightNames
      PROVE  HasPermission(access.rights, p) <=> HasPermission(access.due, p)
  BY <1>1, <1>4 DEF AccessInv, TokenInv, HasPermission
<1>5. \A r \in RoleIds : assigned[r].known => RightsOf(r) = assigned[r].set
  BY DEF AccessInv, AssignInv, RightsOf, OpenedBy
<1> QED
  BY <1>2, <1>3, <1>4, <1>5 DEF AccessFollowsRoles

\* A request takes no time; a tick takes one.
LEMMA AgesOfRequest ==
    ASSUME AccessTypeOK, Aged(0)
    PROVE  /\ heldAge' \in [RoleNames -> Nat] /\ grantAge' \in [RoleNames \X RightNames -> Nat]
           /\ \A n \in RoleNames, k \in Nat : HeldWithin(n, k) => HeldWithin(n, k)'
           /\ \A n \in RoleNames, p \in RightNames, k \in Nat : OpenWithin(n, p, k) => OpenWithin(n, p, k)'
<1>1. \A n \in RoleNames : heldAge[n] \in Nat
  BY DEF AccessTypeOK
<1>2. \A n \in RoleNames, p \in RightNames : grantAge[<<n, p>>] \in Nat
  BY DEF AccessTypeOK
<1>3. \A n \in RoleNames : heldAge'[n] = IF Holds(n) THEN 0 ELSE heldAge[n]
  BY <1>1 DEF Aged, Older
<1>4. \A n \in RoleNames, p \in RightNames : grantAge'[<<n, p>>] = IF Opens(n, p) THEN 0 ELSE grantAge[<<n, p>>]
  <2>1. ASSUME NEW n \in RoleNames, NEW p \in RightNames
        PROVE  grantAge'[<<n, p>>] = IF Opens(n, p) THEN 0 ELSE Older(grantAge[<<n, p>>], 0)
    BY DEF Aged
  <2>2. \A k \in Nat : Older(k, 0) = k
    BY DEF Older
  <2> QED
    BY <1>2, <2>1, <2>2
<1>5. heldAge' \in [RoleNames -> Nat]
  <2>1. heldAge' = [n \in RoleNames |-> heldAge'[n]]
    BY DEF Aged
  <2> QED
    BY <1>1, <1>3, <2>1
<1>6. grantAge' \in [RoleNames \X RightNames -> Nat]
  <2>1. grantAge' = [o \in RoleNames \X RightNames |-> grantAge'[o]]
    BY DEF Aged
  <2>2. \A o \in RoleNames \X RightNames : grantAge'[o] = IF Opens(o[1], o[2]) THEN 0 ELSE grantAge[o]
    BY DEF Aged, Older, AccessTypeOK
  <2>3. \A o \in RoleNames \X RightNames : grantAge'[o] \in Nat
    BY <2>2 DEF AccessTypeOK
  <2> QED
    BY <2>1, <2>3
<1> QED
  BY <1>1, <1>2, <1>3, <1>4, <1>5, <1>6 DEF HeldWithin, OpenWithin

LEMMA AgesOfTick ==
    ASSUME AccessTypeOK, Aged(1)
    PROVE  /\ heldAge' \in [RoleNames -> Nat] /\ grantAge' \in [RoleNames \X RightNames -> Nat]
           /\ \A n \in RoleNames, k \in 0 .. TokenLife : HeldWithin(n, k) => HeldWithin(n, k + 1)'
           /\ \A n \in RoleNames, p \in RightNames, k \in 0 .. TokenLife :
                OpenWithin(n, p, k) => OpenWithin(n, p, k + 1)'
<1>0. TokenLife \in Nat
  BY AccessAssumption
<1>1. \A n \in RoleNames : heldAge[n] \in Nat
  BY DEF AccessTypeOK
<1>2. \A n \in RoleNames, p \in RightNames : grantAge[<<n, p>>] \in Nat
  BY DEF AccessTypeOK
<1>3. \A n \in RoleNames : heldAge'[n] = IF Holds(n) THEN 1 ELSE Older(heldAge[n], 1)
  BY DEF Aged
<1>4. \A n \in RoleNames, p \in RightNames : grantAge'[<<n, p>>] = IF Opens(n, p) THEN 1 ELSE Older(grantAge[<<n, p>>], 1)
  BY DEF Aged
<1>5. heldAge' \in [RoleNames -> Nat]
  <2>1. heldAge' = [n \in RoleNames |-> heldAge'[n]]
    BY DEF Aged
  <2> QED
    BY <1>1, <1>3, <2>1 DEF Older
<1>6. grantAge' \in [RoleNames \X RightNames -> Nat]
  <2>1. grantAge' = [o \in RoleNames \X RightNames |-> grantAge'[o]]
    BY DEF Aged
  <2>2. \A o \in RoleNames \X RightNames : grantAge'[o] = IF Opens(o[1], o[2]) THEN 1 ELSE Older(grantAge[o], 1)
    BY DEF Aged
  <2>3. \A o \in RoleNames \X RightNames : grantAge'[o] \in Nat
    BY <2>2 DEF AccessTypeOK, Older
  <2> QED
    BY <2>1, <2>3
<1> QED
  BY <1>0, <1>1, <1>2, <1>3, <1>4, <1>5, <1>6 DEF HeldWithin, OpenWithin, Older

\* How the tables stay with the parts of the invariant.
RightTables == <<roleName, rightName, grants>>

LEMMA TablesSame ==
    ASSUME UNCHANGED RightTables
    PROVE  \A n : PermissionsByRole(n)' = PermissionsByRole(n)
BY DEF RightTables, PermissionsByRole, Opens

LEMMA TokenStays == ASSUME AccessTypeOK, TokenInv, Aged(0), UNCHANGED access PROVE TokenInv'
<1>1. /\ access.left \in 0 .. TokenLife /\ access.roles \subseteq RoleNames /\ access.rights \subseteq RightNames
      /\ TokenLife \in Nat
  BY AccessAssumption DEF AccessTypeOK, AccessRecord
<1> DEFINE k == TokenLife - access.left + 1
<1>2. k \in Nat
  BY <1>1
<1>3. \A n \in RoleNames : HeldWithin(n, k) => HeldWithin(n, k)'
  BY <1>2, AgesOfRequest
<1>4. \A n \in RoleNames, p \in RightNames : OpenWithin(n, p, k) => OpenWithin(n, p, k)'
  BY <1>2, AgesOfRequest
<1>5. ASSUME access.left > 0, NEW n \in access.roles \ access.given PROVE HeldWithin(n, k)'
  BY <1>1, <1>3, <1>5 DEF TokenInv
<1>6. ASSUME access.left > 0, NEW p \in access.rights PROVE \E n \in access.roles : OpenWithin(n, p, k)'
  <2>1. PICK n \in access.roles : OpenWithin(n, p, k)
    BY <1>6 DEF TokenInv
  <2> QED
    BY <1>1, <1>4, <2>1
<1> QED
  BY <1>5, <1>6 DEF TokenInv, HeldWithin, OpenWithin

\* A login that nothing but a change of the tables concerns.
LEMMA MintLoosened ==
    ASSUME AccessTypeOK, MintInv, Aged(0), mint' = [mint EXCEPT !.calm = FALSE] PROVE MintInv' /\ mint' \in MintRecord
<1> DEFINE age == IF mint.late THEN 1 ELSE 0
<1>1. /\ mint \in MintRecord /\ mint.roles \subseteq RoleNames /\ mint.rights \subseteq RightNames /\ age \in Nat
  BY DEF AccessTypeOK, MintRecord
<1>2. /\ mint' \in MintRecord /\ ~ mint'.calm /\ mint'.phase = mint.phase /\ mint'.roles = mint.roles
      /\ mint'.todo = mint.todo /\ mint'.rights = mint.rights /\ mint'.due = mint.due
      /\ mint'.given = mint.given /\ mint'.late = mint.late
  BY <1>1 DEF MintRecord
<1>3. age' = age
  BY <1>2
<1>4. \A n \in RoleNames : HeldWithin(n, age) => HeldWithin(n, age)'
  BY <1>1, <1>3, AgesOfRequest
<1>5. \A n \in RoleNames, p \in RightNames : OpenWithin(n, p, age) => OpenWithin(n, p, age)'
  BY <1>1, <1>3, AgesOfRequest
<1> QED
  BY <1>1, <1>2, <1>3, <1>4, <1>5 DEF MintInv

LEMMA NoMintIs ==
    /\ NoMint \in MintRecord /\ NoMint.phase = "idle" /\ ~ NoMint.late /\ NoMint.roles = {} /\ NoMint.todo = {}
    /\ NoMint.rights = {} /\ NoMint.given = {} /\ NoMint.due = {}
BY DEF NoMint, MintRecord

LEMMA StartMintIs ==
    ASSUME NEW names \in SUBSET RoleNames
    PROVE  /\ StartMint(names) \in MintRecord /\ StartMint(names).phase = "permissions"
           /\ ~ StartMint(names).late /\ StartMint(names).roles = names /\ StartMint(names).todo = names
           /\ StartMint(names).rights = {} /\ StartMint(names).given = {}
           /\ \A p : p \in StartMint(names).due <=> \E n \in names : p \in PermissionsByRole(n)
<1> DEFINE due == UNION {PermissionsByRole(n) : n \in names}
<1>1. \A n : PermissionsByRole(n) \subseteq RightNames
  BY DEF PermissionsByRole
<1>2. due \subseteq RightNames /\ \A p : p \in due <=> \E n \in names : p \in PermissionsByRole(n)
  BY <1>1
<1>3. StartMint(names) = [NoMint EXCEPT !.phase = "permissions", !.roles = names, !.todo = names, !.due = due]
  BY Zenon DEF StartMint
<1> HIDE DEF due
<1> DEFINE new == [NoMint EXCEPT !.phase = "permissions", !.roles = names, !.todo = names, !.due = due]
<1>4. /\ new \in MintRecord /\ new.phase = "permissions" /\ ~ new.late /\ new.roles = names /\ new.todo = names
      /\ new.rights = {} /\ new.given = {} /\ new.due = due
  BY <1>2, NoMintIs DEF MintRecord
<1> QED
  BY <1>2, <1>3, <1>4, Zenon

\* A login that begins to read permissions, and one that has not, or has ended.
LEMMA MintBegins ==
    ASSUME AccessTypeOK, Aged(0), UNCHANGED RightTables, NEW names \in SUBSET RoleNames, mint' \in MintRecord,
           mint'.roles = names, mint'.todo = names, mint'.rights = {},
           mint'.phase = "permissions", \A p : p \in mint'.due <=> \E n \in names : p \in PermissionsByRole(n),
           \A n \in names \ mint'.given : HeldWithin(n, 0)
    PROVE  MintInv'
<1> DEFINE age == IF mint.late THEN 1 ELSE 0
<1>1. age' \in Nat /\ 0 <= age'
  OBVIOUS
<1>2. \A n \in RoleNames : HeldWithin(n, 0) => HeldWithin(n, 0)'
  BY AgesOfRequest
<1>3. \A n \in RoleNames : heldAge'[n] \in Nat
  BY AgesOfRequest
<1>4. ASSUME NEW n \in names \ mint'.given PROVE HeldWithin(n, age)'
  BY <1>1, <1>2, <1>3 DEF HeldWithin
<1>5. \A n : PermissionsByRole(n)' = PermissionsByRole(n)
  BY TablesSame
<1> QED
  BY <1>4, <1>5 DEF MintInv

LEMMA MintRests ==
    ASSUME mint'.phase # "permissions", mint'.roles = {}, mint'.todo = {}, mint'.rights = {}, mint'.due = {}
    PROVE  MintInv'
BY DEF MintInv

\* Requests that leave the tables and the assignments alone.
LEMMA RestStays ==
    ASSUME AccessInv, Aged(0), UNCHANGED <<roleName, rightName, grants, assigner, assigned>>,
           access' \in AccessRecord, mint' \in MintRecord, MintInv', TokenInv',
           member' \subseteq RoleIds, \A r \in member' : roleName[r] \in RoleNames
    PROVE  AccessInv'
<1>1. AssignInv'
  BY DEF AssignInv, AccessInv
<1>2. AccessTypeOK'
  <2>1. AssignRecord' = AssignRecord /\ MintRecord' = MintRecord /\ AccessRecord' = AccessRecord
    BY DEF AssignRecord, MintRecord, AccessRecord
  <2>2. AccessTypeOK
    BY DEF AccessInv
  <2>3. heldAge' \in [RoleNames -> Nat] /\ grantAge' \in [RoleNames \X RightNames -> Nat]
    BY <2>2, AgesOfRequest
  <2> QED
    BY <2>1, <2>2, <2>3 DEF AccessTypeOK
<1> QED
  BY <1>1, <1>2 DEF AccessInv

\* The names of his roles are names.
LEMMA HisNames == AccessTypeOK => Names(member, roleName) \in SUBSET RoleNames
BY DEF AccessTypeOK, Names

LEMMA MintSteps ==
    ASSUME AccessInv, Aged(0), ReadRoles \/ FindDefault \/ JoinDefault \/ ReadPermissions \/ Sign
    PROVE  AccessInv'
<1>0. /\ AccessTypeOK /\ MintInv /\ TokenInv /\ mint \in MintRecord /\ access \in AccessRecord
      /\ member \subseteq RoleIds /\ \A r \in member : roleName[r] \in RoleNames
  BY DEF AccessInv, AccessTypeOK
<1>a. "user" \in RoleNames
  BY AccessAssumption
<1>1. CASE ReadRoles
  <2>1. UNCHANGED <<roleName, rightName, grants, member, access, assigner, assigned>> /\ UNCHANGED RightTables
    BY <1>1, Zenon DEF ReadRoles, RightTables
  <2>2. MintInv' /\ mint' \in MintRecord
    <3>1. CASE mint' = StartMint(Names(member, roleName))
      <4> DEFINE names == Names(member, roleName)
      <4>1. names \in SUBSET RoleNames /\ \A n \in names : HeldWithin(n, 0)
        BY <1>0, HisNames DEF HeldWithin, Holds
      <4> HIDE DEF names
      <4>2. /\ mint' \in MintRecord /\ mint'.phase = "permissions" /\ ~ mint'.late /\ mint'.roles = names
            /\ mint'.todo = names /\ mint'.rights = {}
            /\ \A p : p \in mint'.due <=> \E n \in names : p \in PermissionsByRole(n)
        BY <3>1, <4>1, StartMintIs DEF names
      <4> QED
        BY <1>0, <2>1, <4>1, <4>2, MintBegins
    <3>2. CASE mint' = [NoMint EXCEPT !.phase = "default"]
      <4>1. /\ mint' \in MintRecord /\ mint'.phase = "default" /\ mint'.roles = {} /\ mint'.todo = {}
            /\ mint'.rights = {} /\ mint'.due = {}
        BY <3>2, NoMintIs DEF MintRecord
      <4> QED
        BY <4>1, MintRests
    <3> QED
      BY <1>1, <3>1, <3>2, Zenon DEF ReadRoles
  <2> QED
    BY <1>0, <2>1, <2>2, TokenStays, RestStays
<1>2. CASE FindDefault
  <2>1. UNCHANGED <<roleName, rightName, grants, member, access, assigner, assigned>> /\ UNCHANGED RightTables
    BY <1>2, Zenon DEF FindDefault, RightTables
  <2>2. MintInv' /\ mint' \in MintRecord
    <3>1. CASE mint' = StartMint({})
      <4>1. /\ mint' \in MintRecord /\ mint'.phase = "permissions" /\ ~ mint'.late /\ mint'.roles = {}
            /\ mint'.todo = {} /\ mint'.rights = {} /\ \A p : p \notin mint'.due
        BY <3>1, StartMintIs
      <4> QED
        BY <4>1 DEF MintInv
    <3>2. CASE \E r \in RoleIds : mint' = [mint EXCEPT !.phase = "join", !.role = r]
      <4>1. PICK r \in RoleIds : mint' = [mint EXCEPT !.phase = "join", !.role = r]
        BY <3>2
      <4>2. mint.phase = "default"
        BY <1>2 DEF FindDefault
      <4>3. mint.roles = {} /\ mint.todo = {} /\ mint.rights = {} /\ mint.due = {}
        BY <1>0, <4>2 DEF MintInv
      <4>4. /\ mint' \in MintRecord /\ mint'.phase = "join" /\ mint'.roles = {} /\ mint'.todo = {}
            /\ mint'.rights = {} /\ mint'.due = {}
        BY <1>0, <4>1, <4>3 DEF MintRecord
      <4> QED
        BY <4>4, MintRests
    <3> QED
      BY <1>2, <3>1, <3>2, Zenon DEF FindDefault
  <2> QED
    BY <1>0, <2>1, <2>2, TokenStays, RestStays
<1>3. CASE JoinDefault
  <2>1. UNCHANGED <<roleName, rightName, grants, access, assigner, assigned>> /\ UNCHANGED RightTables
    BY <1>3, Zenon DEF JoinDefault, RightTables
  <2>2. CASE mint.role \in Existing(roleName) \ member
    <3>1. /\ member' = member \union {mint.role}
          /\ mint' = [StartMint({"user"}) EXCEPT !.late = mint.late, !.given = {"user"}]
      BY <1>3, <2>2, Zenon DEF JoinDefault
    <3>2. member' \subseteq RoleIds /\ \A r \in member' : roleName[r] \in RoleNames
      BY <1>0, <2>2, <3>1 DEF Existing, AccessTypeOK
    <3>3. /\ StartMint({"user"}) \in MintRecord /\ StartMint({"user"}).phase = "permissions"
          /\ StartMint({"user"}).roles = {"user"} /\ StartMint({"user"}).todo = {"user"}
          /\ StartMint({"user"}).rights = {}
          /\ \A p : p \in StartMint({"user"}).due <=> \E n \in {"user"} : p \in PermissionsByRole(n)
      BY <1>a, StartMintIs
    <3>4. mint.late \in BOOLEAN
      BY <1>0 DEF MintRecord
    <3>5. /\ mint' \in MintRecord /\ mint'.phase = "permissions" /\ mint'.roles = {"user"} /\ mint'.todo = {"user"}
          /\ mint'.rights = {} /\ mint'.given = {"user"} /\ mint'.due = StartMint({"user"}).due
      BY <1>a, <3>1, <3>3, <3>4 DEF MintRecord
    <3>6. {"user"} \in SUBSET RoleNames /\ \A n \in {"user"} \ mint'.given : HeldWithin(n, 0)
      BY <1>a, <3>5
    <3>7. \A p : p \in mint'.due <=> \E n \in {"user"} : p \in PermissionsByRole(n)
      BY <3>3, <3>5
    <3>8. MintInv'
      BY <1>0, <2>1, <3>5, <3>6, <3>7, MintBegins
    <3> QED
      BY <1>0, <2>1, <3>2, <3>5, <3>8, TokenStays, RestStays
  <2>3. CASE mint.role \notin Existing(roleName) \ member
    <3>1. mint' = NoMint /\ UNCHANGED member
      BY <1>3, <2>3, Zenon DEF JoinDefault
    <3>2. MintInv' /\ mint' \in MintRecord
      BY <3>1, NoMintIs, MintRests
    <3> QED
      BY <1>0, <2>1, <3>1, <3>2, TokenStays, RestStays
  <2> QED
    BY <2>2, <2>3
<1>4. CASE ReadPermissions
  <2>1. UNCHANGED <<roleName, rightName, grants, member, access, assigner, assigned>> /\ UNCHANGED RightTables
    BY <1>4, Zenon DEF ReadPermissions, RightTables
  <2>2. PICK title \in mint.todo :
          mint' = [mint EXCEPT !.todo = @ \ {title}, !.rights = @ \union PermissionsByRole(title)]
    BY <1>4 DEF ReadPermissions
  <2> DEFINE opened == PermissionsByRole(title)
  <2>3. opened \subseteq RightNames /\ \A p \in opened : Opens(title, p)
    BY DEF PermissionsByRole
  <2>4. /\ mint' \in MintRecord /\ mint'.phase = "permissions" /\ mint'.roles = mint.roles
        /\ mint'.todo = mint.todo \ {title} /\ mint'.rights = mint.rights \union opened
        /\ mint'.due = mint.due /\ mint'.given = mint.given /\ mint'.late = mint.late /\ mint'.calm = mint.calm
    <3> HIDE DEF opened
    <3>1. mint' = [mint EXCEPT !.todo = @ \ {title}, !.rights = @ \union opened]
      BY <2>2, Zenon DEF opened
    <3>2. mint.phase = "permissions"
      BY <1>4 DEF ReadPermissions
    <3> QED
      BY <1>0, <2>3, <3>1, <3>2 DEF MintRecord
  <2> DEFINE age == IF mint.late THEN 1 ELSE 0
  <2>5. age \in Nat /\ age' = age /\ mint.roles \subseteq RoleNames /\ mint.rights \subseteq RightNames
    BY <1>0, <2>4 DEF MintRecord
  <2>6. \A n \in mint.roles \ mint.given : HeldWithin(n, age)'
    BY <1>0, <2>5, AgesOfRequest DEF MintInv
  <2>7. ASSUME NEW p \in mint'.rights PROVE \E n \in mint.roles : OpenWithin(n, p, age)'
    <3>1. PICK n \in mint.roles : OpenWithin(n, p, age) /\ p \in RightNames
      <4>1. CASE p \in mint.rights
        BY <1>0, <2>5, <4>1 DEF MintInv
      <4>2. CASE p \in opened
        <5>1. title \in mint.roles
          BY <1>0 DEF MintInv
        <5> QED
          BY <2>3, <4>2, <5>1 DEF OpenWithin
      <4> QED
        BY <2>4, <2>7, <4>1, <4>2
    <3> QED
      BY <1>0, <2>5, <3>1, AgesOfRequest
  <2>8. ASSUME mint.calm, NEW p \in RightNames
        PROVE  /\ p \in mint'.due <=> \E n \in mint.roles : p \in PermissionsByRole(n)
               /\ p \in mint'.rights <=> \E n \in mint.roles \ mint'.todo : p \in PermissionsByRole(n)
    <3>1. title \in mint.roles
      BY <1>0 DEF MintInv
    <3>2. /\ p \in mint.due <=> \E n \in mint.roles : p \in PermissionsByRole(n)
          /\ p \in mint.rights <=> \E n \in mint.roles \ mint.todo : p \in PermissionsByRole(n)
      BY <1>0, <2>8 DEF MintInv
    <3> QED
      BY <2>4, <3>1, <3>2
  <2>9. \A n : PermissionsByRole(n)' = PermissionsByRole(n)
    BY <2>1, TablesSame
  <2>10. mint'.todo \subseteq mint'.roles
    BY <1>0, <2>4 DEF MintInv
  <2>11. MintInv'
    BY <2>4, <2>5, <2>6, <2>7, <2>8, <2>9, <2>10 DEF MintInv
  <2> QED
    BY <1>0, <2>1, <2>4, <2>11, TokenStays, RestStays
<1>5. CASE Sign
  <2>1. UNCHANGED <<roleName, rightName, grants, member, assigner, assigned>> /\ mint' = NoMint /\ mint.todo = {}
    BY <1>5, Zenon DEF Sign
  <2>2. MintInv' /\ mint' \in MintRecord
    BY <2>1, NoMintIs, MintRests
  <2>3. CASE UNCHANGED access
    BY <1>0, <2>1, <2>2, <2>3, TokenStays, RestStays
  <2>4. CASE access' = [left |-> TokenLife, roles |-> mint.roles, rights |-> mint.rights,
                        given |-> mint.given, due |-> mint.due, calm |-> mint.calm]
    <3>1. /\ mint.roles \subseteq RoleNames /\ mint.rights \subseteq RightNames /\ mint.given \subseteq RoleNames
          /\ mint.due \subseteq RightNames /\ mint.calm \in BOOLEAN /\ TokenLife \in Nat
      BY <1>0, AccessAssumption DEF MintRecord
    <3>2. /\ access' \in AccessRecord /\ access'.left = TokenLife /\ access'.roles = mint.roles
          /\ access'.rights = mint.rights /\ access'.given = mint.given /\ access'.due = mint.due
          /\ access'.calm = mint.calm
      BY <2>4, <3>1 DEF AccessRecord
    <3> DEFINE age == IF mint.late THEN 1 ELSE 0
    <3>3. age \in Nat /\ age <= 1 /\ TokenLife - access'.left + 1 = 1
      BY <3>1, <3>2
    <3>4. \A n \in RoleNames : heldAge[n] \in Nat
      BY <1>0 DEF AccessTypeOK
    <3>5. \A n \in RoleNames, p \in RightNames : grantAge[<<n, p>>] \in Nat
      BY <1>0 DEF AccessTypeOK
    <3>6. \A n \in mint.roles \ mint.given : HeldWithin(n, 1)
      <4>1. \A n \in mint.roles \ mint.given : HeldWithin(n, age) /\ n \in RoleNames
        BY <1>0, <3>1 DEF MintInv
      <4> QED
        BY <3>3, <3>4, <4>1 DEF HeldWithin
    <3>7. ASSUME NEW p \in mint.rights PROVE \E n \in mint.roles : OpenWithin(n, p, 1)
      <4>1. PICK n \in mint.roles : OpenWithin(n, p, age)
        BY <1>0 DEF MintInv
      <4>2. n \in RoleNames /\ p \in RightNames
        BY <3>1
      <4>3. OpenWithin(n, p, 1)
        BY <3>3, <3>5, <4>1, <4>2 DEF OpenWithin
      <4> QED
        BY <4>3
    <3>8. \A n \in mint.roles \ mint.given : HeldWithin(n, 1)'
      BY <1>0, <3>1, <3>6, AgesOfRequest
    <3>9. ASSUME NEW p \in mint.rights PROVE \E n \in mint.roles : OpenWithin(n, p, 1)'
      <4>1. PICK n \in mint.roles : OpenWithin(n, p, 1)
        BY <3>7
      <4> QED
        BY <1>0, <3>1, <4>1, AgesOfRequest
    <3>10. ASSUME mint.calm, NEW p \in RightNames PROVE p \in mint.rights <=> p \in mint.due
      BY <1>0, <2>1, <3>10 DEF MintInv
    <3>11. TokenInv'
      BY <3>2, <3>3, <3>8, <3>9, <3>10 DEF TokenInv, HeldWithin, OpenWithin
    <3> QED
      BY <1>0, <2>1, <2>2, <3>2, <3>11, RestStays
  <2> QED
    BY <1>5, <2>3, <2>4, Zenon DEF Sign
<1> QED
  BY <1>1, <1>2, <1>3, <1>4, <1>5

LEMMA PairsOf ==
    ASSUME NEW G \in SUBSET (RoleIds \X RightIds), NEW r, NEW q
    PROVE  q \in OpenedBy(G, r) <=> <<r, q>> \in G
BY DEF OpenedBy

LEMMA OpensSame ==
    ASSUME NEW G \in SUBSET (RoleIds \X RightIds), NEW H \in SUBSET (RoleIds \X RightIds), NEW r,
           \A q : <<r, q>> \in G <=> <<r, q>> \in H
    PROVE  OpenedBy(G, r) = OpenedBy(H, r)
<1>1. \A q : q \in OpenedBy(G, r) <=> q \in OpenedBy(H, r)
  BY PairsOf
<1> QED
  BY <1>1, Zenon

LEMMA AdminKeeps ==
    ASSUME AccessInv, Aged(0), UNCHANGED access, mint' = [mint EXCEPT !.calm = FALSE],
           roleName' \in [RoleIds -> RoleNames \union {"none", "gone"}],
           rightName' \in [RightIds -> RightNames \union {"none", "gone"}],
           grants' \subseteq RoleIds \X RightIds,
           member' \subseteq RoleIds, \A r \in member' : roleName'[r] \in RoleNames,
           assigner' \in [Assigners -> AssignRecord],
           assigned' \in [RoleIds -> [known : BOOLEAN, set : SUBSET RightIds]],
           AssignInv'
    PROVE  AccessInv'
<1>1. AccessTypeOK /\ MintInv /\ TokenInv
  BY DEF AccessInv
<1>2. AssignRecord' = AssignRecord /\ MintRecord' = MintRecord /\ AccessRecord' = AccessRecord
  BY DEF AssignRecord, MintRecord, AccessRecord
<1>3. heldAge' \in [RoleNames -> Nat] /\ grantAge' \in [RoleNames \X RightNames -> Nat]
  BY <1>1, AgesOfRequest
<1>4. MintInv' /\ mint' \in MintRecord
  BY <1>1, MintLoosened
<1>5. TokenInv'
  BY <1>1, TokenStays
<1>6. access' \in AccessRecord
  BY <1>1 DEF AccessTypeOK
<1>7. AccessTypeOK'
  BY <1>2, <1>3, <1>4, <1>6 DEF AccessTypeOK
<1> QED
  BY <1>4, <1>5, <1>7 DEF AccessInv

\* A change that leaves what the roles open to their assignments.
LEMMA GrantsSame ==
    ASSUME AssignInv, UNCHANGED <<grants, assigner, assigned>> PROVE AssignInv'
BY DEF AssignInv

LEMMA AdminSteps ==
    ASSUME AccessInv, Aged(0),
           \/ \E id \in RoleIds, n \in RoleNames : CreateRole(id, n) \/ UpdateRole(id, n)
           \/ \E right \in RightIds, n \in RightNames : CreatePermission(right, n) \/ UpdatePermission(right, n)
           \/ \E id \in RoleIds : DeleteRole(id)
           \/ \E right \in RightIds : DeletePermission(right)
           \/ ChangeMembership
    PROVE  AccessInv'
<1>0. /\ AccessTypeOK /\ MintInv /\ TokenInv /\ AssignInv
      /\ roleName \in [RoleIds -> RoleNames \union {"none", "gone"}]
      /\ rightName \in [RightIds -> RightNames \union {"none", "gone"}]
      /\ grants \subseteq RoleIds \X RightIds /\ member \subseteq RoleIds
      /\ \A r \in member : roleName[r] \in RoleNames
      /\ assigner \in [Assigners -> AssignRecord]
      /\ assigned \in [RoleIds -> [known : BOOLEAN, set : SUBSET RightIds]]
  BY DEF AccessInv, AccessTypeOK
<1>1. ASSUME NEW id \in RoleIds, NEW n \in RoleNames, CreateRole(id, n) \/ UpdateRole(id, n)
      PROVE  AccessInv'
  <2>1. /\ roleName' = [roleName EXCEPT ![id] = n] /\ mint' = [mint EXCEPT !.calm = FALSE]
        /\ UNCHANGED <<rightName, grants, member, access, assigner, assigned>>
    BY <1>1, Zenon DEF CreateRole, UpdateRole, AdminChanges, ChangeRoles
  <2>2. /\ roleName' \in [RoleIds -> RoleNames \union {"none", "gone"}]
        /\ \A r \in member : roleName'[r] \in RoleNames
    BY <1>0, <2>1
  <2> QED
    BY <1>0, <2>1, <2>2, GrantsSame, AdminKeeps
<1>2. ASSUME NEW right \in RightIds, NEW n \in RightNames, CreatePermission(right, n) \/ UpdatePermission(right, n)
      PROVE  AccessInv'
  <2>1. /\ rightName' = [rightName EXCEPT ![right] = n] /\ mint' = [mint EXCEPT !.calm = FALSE]
        /\ UNCHANGED <<roleName, grants, member, access, assigner, assigned>>
    BY <1>2, Zenon DEF CreatePermission, UpdatePermission, AdminChanges, ChangeRoles
  <2>2. rightName' \in [RightIds -> RightNames \union {"none", "gone"}]
    BY <1>0, <2>1
  <2> QED
    BY <1>0, <2>1, <2>2, GrantsSame, AdminKeeps
<1>3. ASSUME NEW id \in RoleIds, DeleteRole(id) PROVE AccessInv'
  <2>1. /\ roleName' = [roleName EXCEPT ![id] = "gone"] /\ mint' = [mint EXCEPT !.calm = FALSE]
        /\ grants' = {g \in grants : g[1] # id} /\ member' = member \ {id}
        /\ assigned' = [assigned EXCEPT ![id] = [known |-> TRUE, set |-> {}]]
        /\ UNCHANGED <<rightName, access, assigner>>
    BY <1>3, Zenon DEF DeleteRole, AdminChanges, ChangeRoles
  <2>2. /\ roleName' \in [RoleIds -> RoleNames \union {"none", "gone"}] /\ grants' \subseteq RoleIds \X RightIds
        /\ member' \subseteq RoleIds /\ \A r \in member' : roleName'[r] \in RoleNames
        /\ assigned' \in [RoleIds -> [known : BOOLEAN, set : SUBSET RightIds]]
        /\ assigned'[id].set = {} /\ \A r \in RoleIds \ {id} : assigned'[r] = assigned[r]
    BY <1>0, <2>1
  <2>3. OpenedBy(grants', id) = {}
    <3>1. \A q : <<id, q>> \notin grants'
      BY <2>1
    <3>2. \A q : q \notin OpenedBy(grants', id)
      BY <2>2, <3>1, PairsOf
    <3> QED
      BY <3>2
  <2>4. ASSUME NEW r \in RoleIds, r # id PROVE OpenedBy(grants', r) = OpenedBy(grants, r)
    <3>1. \A q : <<r, q>> \in grants' <=> <<r, q>> \in grants
      BY <2>1, <2>4
    <3> QED
      BY <1>0, <2>2, <3>1, PairsOf, OpensSame
  <2>5. AssignInv'
    BY <1>0, <2>1, <2>2, <2>3, <2>4 DEF AssignInv
  <2> QED
    BY <1>0, <2>1, <2>2, <2>5, AdminKeeps
<1>4. ASSUME NEW right \in RightIds, DeletePermission(right) PROVE AccessInv'
  <2>1. /\ rightName' = [rightName EXCEPT ![right] = "gone"] /\ mint' = [mint EXCEPT !.calm = FALSE]
        /\ grants' = {g \in grants : g[2] # right}
        /\ assigned' = [r \in RoleIds |-> [assigned[r] EXCEPT !.set = @ \ {right}]]
        /\ UNCHANGED <<roleName, member, access, assigner>>
    BY <1>4, Zenon DEF DeletePermission, AdminChanges, ChangeRoles
  <2>2. /\ rightName' \in [RightIds -> RightNames \union {"none", "gone"}] /\ grants' \subseteq RoleIds \X RightIds
    BY <1>0, <2>1
  <2>3. ASSUME NEW r \in RoleIds
        PROVE  /\ assigned'[r] \in [known : BOOLEAN, set : SUBSET RightIds]
               /\ assigned'[r].known = assigned[r].known /\ assigned'[r].set = assigned[r].set \ {right}
    BY <1>0, <2>1
  <2>4. assigned' \in [RoleIds -> [known : BOOLEAN, set : SUBSET RightIds]]
    BY <2>1, <2>3
  <2>5. \A r \in RoleIds : OpenedBy(grants', r) = OpenedBy(grants, r) \ {right}
    <3> SUFFICES ASSUME NEW r \in RoleIds PROVE OpenedBy(grants', r) = OpenedBy(grants, r) \ {right}
      OBVIOUS
    <3>1. \A q : <<r, q>> \in grants' <=> <<r, q>> \in grants /\ q # right
      BY <2>1
    <3>2. \A q : q \in OpenedBy(grants', r) <=> q \in OpenedBy(grants, r) /\ q # right
      BY <1>0, <2>2, <3>1, PairsOf
    <3> QED
      BY <3>2
  <2>6. AssignInv'
    <3>1. ASSUME NEW a \in Assigners, assigner'[a].phase = "add"
          PROVE  /\ assigner'[a].role \in RoleIds
                 /\ assigner'[a].apart => OpenedBy(grants', assigner'[a].role) = {}
      <4>1. assigner' = assigner /\ assigner[a].role \in RoleIds
        BY <1>0, <2>1, <3>1 DEF AssignInv
      <4>2. assigner[a].apart => OpenedBy(grants, assigner[a].role) = {}
        BY <1>0, <3>1, <4>1 DEF AssignInv
      <4> QED
        BY <2>5, <4>1, <4>2
    <3>2. ASSUME NEW r \in RoleIds, assigned'[r].known PROVE OpenedBy(grants', r) = assigned'[r].set
      <4>1. OpenedBy(grants, r) = assigned[r].set
        BY <1>0, <2>3, <3>2 DEF AssignInv
      <4> QED
        BY <2>3, <2>5, <4>1
    <3> QED
      BY <3>1, <3>2 DEF AssignInv
  <2> QED
    BY <1>0, <2>1, <2>2, <2>4, <2>6, AdminKeeps
<1>5. CASE ChangeMembership
  <2>1. /\ mint' = [mint EXCEPT !.calm = FALSE]
        /\ UNCHANGED <<roleName, rightName, grants, access, assigner, assigned>>
    BY <1>5, Zenon DEF ChangeMembership, ChangeRoles
  <2>2. PICK id \in Existing(roleName) :
          member' = IF id \in member THEN member \ {id} ELSE member \union {id}
    BY <1>5 DEF ChangeMembership
  <2>3. member' \subseteq RoleIds /\ \A r \in member' : roleName'[r] \in RoleNames
    BY <1>0, <2>1, <2>2 DEF Existing
  <2> QED
    BY <1>0, <2>1, <2>3, GrantsSame, AdminKeeps
<1> QED
  BY <1>1, <1>2, <1>3, <1>4, <1>5

LEMMA AssignSteps ==
    ASSUME AccessInv, Aged(0), NEW a \in Assigners, RemoveGrants(a) \/ AddGrants(a) PROVE AccessInv'
<1>0. /\ AccessTypeOK /\ MintInv /\ TokenInv /\ AssignInv
      /\ roleName \in [RoleIds -> RoleNames \union {"none", "gone"}]
      /\ rightName \in [RightIds -> RightNames \union {"none", "gone"}]
      /\ grants \subseteq RoleIds \X RightIds /\ member \subseteq RoleIds
      /\ \A r \in member : roleName[r] \in RoleNames
      /\ assigner \in [Assigners -> AssignRecord]
      /\ assigned \in [RoleIds -> [known : BOOLEAN, set : SUBSET RightIds]]
  BY DEF AccessInv, AccessTypeOK
<1>1. CASE RemoveGrants(a)
  <2>1. mint' = [mint EXCEPT !.calm = FALSE] /\ UNCHANGED <<roleName, rightName, member, access>>
    BY <1>1, Zenon DEF RemoveGrants, AdminChanges, ChangeRoles
  <2>2. PICK id \in Existing(roleName), set \in SUBSET RightsKnown :
          /\ grants' = {g \in grants : g[1] # id} /\ StartAssign(a, id, set)
          /\ assigned' = [assigned EXCEPT ![id] = Forgotten]
    BY <1>1 DEF RemoveGrants
  <2>3. id \in RoleIds /\ set \in SUBSET RightIds
    BY <1>0 DEF Existing, RightsKnown
  <2>4. PICK new \in AssignRecord :
          assigner' = [assigner EXCEPT ![a] = new] /\ new.role = id
    <3> DEFINE new == [NoAssign EXCEPT !.phase = "add", !.role = id, !.set = set]
    <3>1. assigner' = [assigner EXCEPT ![a] = new]
      BY <2>2, Zenon DEF StartAssign
    <3>2. new \in AssignRecord /\ new.role = id
      BY <2>3 DEF NoAssign, AssignRecord
    <3> HIDE DEF new
    <3> QED
      BY <3>1, <3>2
  <2>5. /\ assigner' \in [Assigners -> AssignRecord] /\ assigner'[a].role = id
        /\ \A b \in Assigners \ {a} : assigner'[b] = assigner[b]
    BY <1>0, <2>4
  <2>6. /\ assigned' \in [RoleIds -> [known : BOOLEAN, set : SUBSET RightIds]] /\ ~ assigned'[id].known
        /\ \A r \in RoleIds \ {id} : assigned'[r] = assigned[r]
    BY <1>0, <2>2, <2>3 DEF Forgotten
  <2>7. grants' \subseteq RoleIds \X RightIds
    BY <1>0, <2>2
  <2>8. OpenedBy(grants', id) = {}
    BY <1>0, <2>2, <2>7, PairsOf, OpensSame
  <2>9. ASSUME NEW r, r # id PROVE OpenedBy(grants', r) = OpenedBy(grants, r)
    <3>1. \A q : <<r, q>> \in grants' <=> <<r, q>> \in grants
      BY <2>2, <2>9
    <3> QED
      BY <1>0, <2>7, <3>1, PairsOf, OpensSame
  <2>10. AssignInv'
    <3>1. ASSUME NEW b \in Assigners, assigner'[b].phase = "add"
          PROVE  assigner'[b].role \in RoleIds /\ (assigner'[b].apart => OpenedBy(grants', assigner'[b].role) = {})
      BY <1>0, <2>3, <2>5, <2>8, <2>9, <3>1 DEF AssignInv
    <3>2. ASSUME NEW r \in RoleIds, assigned'[r].known PROVE OpenedBy(grants', r) = assigned'[r].set
      BY <1>0, <2>6, <2>9, <3>2 DEF AssignInv
    <3> QED
      BY <3>1, <3>2 DEF AssignInv
  <2> QED
    BY <1>0, <2>1, <2>5, <2>6, <2>7, <2>10, AdminKeeps
<1>2. CASE AddGrants(a)
  <2> DEFINE id == assigner[a].role
             set == assigner[a].set
             whole == id \in Existing(roleName) /\ set \subseteq Existing(rightName)
             blurred == Overlapping(a, id) \/ ~ assigner[a].apart
             after == IF blurred THEN Forgotten ELSE IF whole THEN [known |-> TRUE, set |-> set] ELSE assigned[id]
  <2>1. mint' = [mint EXCEPT !.calm = FALSE] /\ UNCHANGED <<roleName, rightName, member, access>>
    BY <1>2, Zenon DEF AddGrants
  <2>2. /\ assigner[a].phase = "add" /\ id \in RoleIds /\ set \in SUBSET RightIds
        /\ assigner[a].apart \in BOOLEAN /\ (assigner[a].apart => OpenedBy(grants, id) = {})
    BY <1>0, <1>2 DEF AddGrants, AssignInv, AssignRecord
  <2>3. grants' = IF whole THEN grants \union ({id} \X set) ELSE grants
    BY <1>2 DEF AddGrants
  <2>4. assigned' = [assigned EXCEPT ![id] = after]
    BY <1>2, Zenon DEF AddGrants
  <2>5. assigner' = [b \in Assigners |->
            IF b = a THEN NoAssign ELSE [assigner[b] EXCEPT !.apart = @ /\ assigner[b].role # id]]
    BY <1>2 DEF AddGrants
  <2> HIDE DEF id, set, whole, blurred
  <2>6. grants' \subseteq RoleIds \X RightIds
    BY <1>0, <2>2, <2>3
  <2>7. /\ after \in [known : BOOLEAN, set : SUBSET RightIds]
        /\ (blurred => ~ after.known) /\ (~ blurred /\ whole => after.set = set)
        /\ (~ blurred /\ ~ whole => after = assigned[id])
    BY <1>0, <2>2 DEF Forgotten
  <2> HIDE DEF after
  <2>8. /\ assigned' \in [RoleIds -> [known : BOOLEAN, set : SUBSET RightIds]] /\ assigned'[id] = after
        /\ \A r \in RoleIds \ {id} : assigned'[r] = assigned[r]
    BY <1>0, <2>2, <2>4, <2>7
  <2>9. ASSUME NEW b \in Assigners
        PROVE  /\ assigner'[b] \in AssignRecord
               /\ assigner'[b].phase = "add" =>
                    /\ b # a /\ assigner[b].phase = "add" /\ assigner'[b].role = assigner[b].role
                    /\ assigner'[b].apart => assigner[b].apart /\ assigner[b].role # id
    <3>1. CASE b = a
      <4>1. NoAssign \in AssignRecord /\ NoAssign.phase = "idle"
        BY DEF NoAssign, AssignRecord
      <4> QED
        BY <2>5, <3>1, <4>1
    <3>2. CASE b # a
      <4>1. assigner[b] \in AssignRecord
        BY <1>0
      <4> DEFINE apart == assigner[b].apart /\ assigner[b].role # id
      <4>2. apart \in BOOLEAN /\ (apart => assigner[b].apart /\ assigner[b].role # id)
        BY <4>1 DEF AssignRecord
      <4>3. assigner'[b] = [assigner[b] EXCEPT !.apart = apart]
        BY <2>5, <3>2
      <4> HIDE DEF apart
      <4> QED
        BY <3>2, <4>1, <4>2, <4>3 DEF AssignRecord
    <3> QED
      BY <3>1, <3>2
  <2>10. assigner' \in [Assigners -> AssignRecord]
    BY <2>5, <2>9
  <2>11. ASSUME NEW r, r # id PROVE OpenedBy(grants', r) = OpenedBy(grants, r)
    <3>1. \A q : <<r, q>> \in grants' <=> <<r, q>> \in grants
      BY <2>3, <2>11
    <3> QED
      BY <1>0, <2>6, <3>1, PairsOf, OpensSame
  <2>12. assigned'[id].known => OpenedBy(grants', id) = assigned'[id].set
    <3>1. CASE blurred
      BY <2>7, <2>8, <3>1
    <3>2. CASE ~ blurred /\ whole
      <4>1. OpenedBy(grants, id) = {}
        BY <2>2, <3>2 DEF blurred
      <4>2. \A q : <<id, q>> \in grants' <=> q \in set
        <5>1. \A q : <<id, q>> \notin grants
          BY <1>0, <2>6, <4>1, PairsOf, OpensSame
        <5> QED
          BY <2>3, <3>2, <5>1
      <4>3. OpenedBy(grants', id) = set
        BY <1>0, <2>6, <4>2, PairsOf, OpensSame
      <4> QED
        BY <2>7, <2>8, <3>2, <4>3
    <3>3. CASE ~ blurred /\ ~ whole
      <4>1. \A q : <<id, q>> \in grants' <=> <<id, q>> \in grants
        BY <2>3, <3>3
      <4>2. OpenedBy(grants', id) = OpenedBy(grants, id)
        BY <1>0, <2>6, <4>1, PairsOf, OpensSame
      <4> QED
        BY <1>0, <2>2, <2>7, <2>8, <3>3, <4>2 DEF AssignInv
    <3> QED
      BY <3>1, <3>2, <3>3
  <2>13. AssignInv'
    <3>1. ASSUME NEW b \in Assigners, assigner'[b].phase = "add"
          PROVE  assigner'[b].role \in RoleIds /\ (assigner'[b].apart => OpenedBy(grants', assigner'[b].role) = {})
      <4>1. /\ assigner[b].phase = "add" /\ assigner'[b].role = assigner[b].role
            /\ assigner'[b].apart => assigner[b].apart /\ assigner[b].role # id
        BY <2>9, <3>1
      <4>2. assigner[b].role \in RoleIds /\ (assigner[b].apart => OpenedBy(grants, assigner[b].role) = {})
        BY <1>0, <4>1 DEF AssignInv
      <4>3. assigner[b].role # id => OpenedBy(grants', assigner[b].role) = OpenedBy(grants, assigner[b].role)
        BY <2>11
      <4> QED
        BY <4>1, <4>2, <4>3
    <3>2. ASSUME NEW r \in RoleIds, assigned'[r].known PROVE OpenedBy(grants', r) = assigned'[r].set
      BY <1>0, <2>8, <2>11, <2>12, <3>2 DEF AssignInv
    <3> QED
      BY <3>1, <3>2 DEF AssignInv
  <2> QED
    BY <1>0, <2>1, <2>6, <2>8, <2>10, <2>13, AdminKeeps
<1> QED
  BY <1>1, <1>2

LEMMA RequestDiesKeeps == ASSUME AccessInv, Aged(0), RequestDies PROVE AccessInv'
<1>0. /\ AccessTypeOK /\ MintInv /\ TokenInv /\ AssignInv /\ mint \in MintRecord /\ access \in AccessRecord
      /\ assigner \in [Assigners -> AssignRecord] /\ member \subseteq RoleIds
      /\ \A r \in member : roleName[r] \in RoleNames
  BY DEF AccessInv, AccessTypeOK
<1>1. UNCHANGED <<roleName, rightName, grants, member, access, assigned>> /\ UNCHANGED RightTables
  BY Zenon DEF RequestDies, RightTables
<1>2. CASE mint' = NoMint /\ UNCHANGED assigner
  <2>1. MintInv' /\ mint' \in MintRecord
    BY <1>2, NoMintIs, MintRests
  <2> QED
    BY <1>0, <1>1, <1>2, <2>1, TokenStays, RestStays
<1>3. CASE UNCHANGED mint /\ \E a \in Assigners : assigner' = [assigner EXCEPT ![a] = NoAssign]
  <2>1. PICK a \in Assigners : assigner' = [assigner EXCEPT ![a] = NoAssign]
    BY <1>3
  <2>2. NoAssign \in AssignRecord /\ NoAssign.phase = "idle"
    BY DEF NoAssign, AssignRecord
  <2>3. /\ assigner' \in [Assigners -> AssignRecord]
        /\ \A b \in Assigners : assigner'[b].phase = "idle" \/ assigner'[b] = assigner[b]
    BY <1>0, <2>1, <2>2
  <2>4. AssignInv'
    BY <1>0, <1>1, <2>3 DEF AssignInv
  <2>5. MintInv'
    <3> DEFINE age == IF mint.late THEN 1 ELSE 0
    <3>1. age \in Nat /\ age' = age /\ mint.roles \subseteq RoleNames /\ mint.rights \subseteq RightNames
      BY <1>0, <1>3 DEF MintRecord
    <3>2. \A n \in mint.roles \ mint.given : HeldWithin(n, age)'
      BY <1>0, <3>1, AgesOfRequest DEF MintInv
    <3>3. ASSUME NEW p \in mint.rights PROVE \E n \in mint.roles : OpenWithin(n, p, age)'
      <4>1. PICK n \in mint.roles : OpenWithin(n, p, age)
        BY <1>0 DEF MintInv
      <4> QED
        BY <1>0, <3>1, <4>1, AgesOfRequest
    <3>4. \A n : PermissionsByRole(n)' = PermissionsByRole(n)
      BY <1>1, TablesSame
    <3> QED
      BY <1>0, <1>3, <3>1, <3>2, <3>3, <3>4 DEF MintInv
  <2>6. TokenInv'
    BY <1>0, <1>1, TokenStays
  <2>7. AccessTypeOK'
    <3>1. AssignRecord' = AssignRecord /\ MintRecord' = MintRecord /\ AccessRecord' = AccessRecord
      BY DEF AssignRecord, MintRecord, AccessRecord
    <3>2. heldAge' \in [RoleNames -> Nat] /\ grantAge' \in [RoleNames \X RightNames -> Nat]
      BY <1>0, AgesOfRequest
    <3> QED
      BY <1>0, <1>1, <1>3, <2>3, <3>1, <3>2 DEF AccessTypeOK
  <2> QED
    BY <2>4, <2>5, <2>6, <2>7 DEF AccessInv
<1> QED
  BY <1>2, <1>3, Zenon DEF RequestDies

LEMMA TickKeeps == ASSUME AccessInv, Aged(1), AccessTick PROVE AccessInv'
<1>0. /\ AccessTypeOK /\ MintInv /\ TokenInv /\ AssignInv /\ mint \in MintRecord /\ access \in AccessRecord
      /\ TokenLife \in Nat \ {0}
  BY AccessAssumption DEF AccessInv, AccessTypeOK
<1>1. UNCHANGED <<roleName, rightName, grants, member, assigner, assigned>> /\ UNCHANGED RightTables
  BY Zenon DEF AccessTick, RightTables
<1>2. AssignInv'
  BY <1>0, <1>1, GrantsSame
<1>3. MintInv' /\ mint' \in MintRecord
  <2>1. CASE mint.phase = "idle"
    <3>1. mint' = mint
      BY <2>1 DEF AccessTick
    <3>2. mint.roles = {} /\ mint.todo = {} /\ mint.rights = {} /\ mint.due = {}
      BY <1>0, <2>1 DEF MintInv
    <3> QED
      BY <1>0, <2>1, <3>1, <3>2, MintRests
  <2>2. CASE mint.phase # "idle"
    <3>1. mint' = [mint EXCEPT !.late = TRUE] /\ ~ mint.late
      BY <2>2 DEF AccessTick
    <3>2. /\ mint' \in MintRecord /\ mint'.late /\ mint'.phase = mint.phase /\ mint'.roles = mint.roles
          /\ mint'.todo = mint.todo /\ mint'.rights = mint.rights /\ mint'.due = mint.due
          /\ mint'.given = mint.given /\ mint'.calm = mint.calm
      BY <1>0, <3>1 DEF MintRecord
    <3>3. mint.roles \subseteq RoleNames /\ mint.rights \subseteq RightNames /\ 0 \in 0 .. TokenLife /\ 0 + 1 = 1
      BY <1>0 DEF MintRecord
    <3>4. \A n \in mint.roles \ mint.given : HeldWithin(n, 0)
      BY <1>0, <3>1 DEF MintInv
    <3>5. \A p \in mint.rights : \E n \in mint.roles : OpenWithin(n, p, 0)
      BY <1>0, <3>1 DEF MintInv
    <3>6. \A n \in RoleNames : HeldWithin(n, 0) => HeldWithin(n, 1)'
      BY <1>0, <3>3, AgesOfTick
    <3>7. \A n \in RoleNames, p \in RightNames : OpenWithin(n, p, 0) => OpenWithin(n, p, 1)'
      BY <1>0, <3>3, AgesOfTick
    <3>8. \A n \in mint.roles \ mint.given : HeldWithin(n, 1)'
      BY <3>3, <3>4, <3>6
    <3>9. \A p \in mint.rights : \E n \in mint.roles : OpenWithin(n, p, 1)'
      BY <3>3, <3>5, <3>7
    <3>10. \A n : PermissionsByRole(n)' = PermissionsByRole(n)
      BY <1>1, TablesSame
    <3> QED
      BY <1>0, <3>2, <3>8, <3>9, <3>10 DEF MintInv, HeldWithin, OpenWithin
  <2> QED
    BY <2>1, <2>2
<1>4. TokenInv' /\ access' \in AccessRecord
  <2>1. CASE access.left <= 1
    <3>1. access' = NoAccess
      BY <2>1 DEF AccessTick
    <3>2. access' \in AccessRecord /\ access'.left = 0
      BY <1>0, <3>1 DEF NoAccess, AccessRecord
    <3> QED
      BY <3>2 DEF TokenInv
  <2>2. CASE ~ (access.left <= 1)
    <3>0. access.left \in Nat /\ access.left <= TokenLife
      BY <1>0 DEF AccessRecord
    <3>1. access' = [access EXCEPT !.left = access.left - 1]
      BY <2>2 DEF AccessTick
    <3>2. /\ access' \in AccessRecord /\ access'.left = access.left - 1 /\ access'.roles = access.roles
          /\ access'.rights = access.rights /\ access'.given = access.given /\ access'.due = access.due
          /\ access'.calm = access.calm
      BY <1>0, <2>2, <3>0, <3>1 DEF AccessRecord
    <3> DEFINE k == TokenLife - access.left + 1
    <3>3. k \in 0 .. TokenLife /\ TokenLife - access'.left + 1 = k + 1 /\ access.left > 0
      BY <1>0, <2>2, <3>0, <3>2
    <3>4. access.roles \subseteq RoleNames /\ access.rights \subseteq RightNames
      BY <1>0 DEF AccessRecord
    <3>5. \A n \in access.roles \ access.given : HeldWithin(n, k)
      BY <1>0, <3>3 DEF TokenInv
    <3>6. \A p \in access.rights : \E n \in access.roles : OpenWithin(n, p, k)
      BY <1>0, <3>3 DEF TokenInv
    <3> HIDE DEF k
    <3>7. PICK m \in 0 .. TokenLife : m = k
      BY <3>3
    <3>8. \A n \in RoleNames : HeldWithin(n, m) => HeldWithin(n, m + 1)'
      BY <1>0, AgesOfTick
    <3>9. \A n \in RoleNames, p \in RightNames : OpenWithin(n, p, m) => OpenWithin(n, p, m + 1)'
      BY <1>0, AgesOfTick
    <3>10. \A n \in access.roles \ access.given : HeldWithin(n, m + 1)'
      BY <3>4, <3>5, <3>7, <3>8
    <3>11. \A p \in access.rights : \E n \in access.roles : OpenWithin(n, p, m + 1)'
      BY <3>4, <3>6, <3>7, <3>9
    <3>12. access.calm => \A p \in RightNames : p \in access.rights <=> p \in access.due
      BY <1>0, <3>3 DEF TokenInv
    <3>13. TokenLife - access'.left + 1 = m + 1
      BY <3>3, <3>7
    <3> QED
      BY <3>2, <3>10, <3>11, <3>12, <3>13 DEF TokenInv, HeldWithin, OpenWithin
  <2> QED
    BY <2>1, <2>2
<1>5. AccessTypeOK'
  <2>1. AssignRecord' = AssignRecord /\ MintRecord' = MintRecord /\ AccessRecord' = AccessRecord
    BY DEF AssignRecord, MintRecord, AccessRecord
  <2>2. heldAge' \in [RoleNames -> Nat] /\ grantAge' \in [RoleNames \X RightNames -> Nat]
    BY <1>0, AgesOfTick
  <2> QED
    BY <1>0, <1>1, <1>3, <1>4, <2>1, <2>2 DEF AccessTypeOK
<1> QED
  BY <1>2, <1>3, <1>4, <1>5 DEF AccessInv

LEMMA AccessInvInit == AccessInit => AccessInv
<1> SUFFICES ASSUME AccessInit PROVE AccessInv
  OBVIOUS
<1> DEFINE admin == CHOOSE r \in RoleIds : TRUE
           user  == CHOOSE r \in RoleIds \ {admin} : TRUE
           all   == CHOOSE p \in RightIds : TRUE
           some  == CHOOSE p \in RightIds \ {all} : TRUE
<1>1. admin \in RoleIds
  BY AccessAssumption
<1>2. user \in RoleIds \ {admin}
  <2> HIDE DEF admin
  <2>1. \E r \in RoleIds \ {admin} : TRUE
    BY AccessAssumption
  <2> QED
    BY <2>1
<1>3. all \in RightIds
  BY AccessAssumption
<1>4. some \in RightIds \ {all}
  <2> HIDE DEF all
  <2>1. \E p \in RightIds \ {all} : TRUE
    BY AccessAssumption
  <2> QED
    BY <2>1
<1>5. /\ roleName = [r \in RoleIds |-> CASE r = admin -> "admin" [] r = user -> "user" [] OTHER -> "none"]
      /\ rightName = [p \in RightIds |-> CASE p = all -> "*" [] p = some -> "read" [] OTHER -> "none"]
      /\ grants = {<<admin, all>>, <<admin, some>>, <<user, some>>}
      /\ member \in {{}, {user}, {admin, user}}
      /\ assigned = [r \in RoleIds |-> [known |-> TRUE, set |-> RightsOf(r)]]
      /\ access = NoAccess /\ mint = NoMint /\ assigner = [a \in Assigners |-> NoAssign]
      /\ heldAge = [n \in RoleNames |-> TokenLife + 1]
      /\ grantAge = [o \in RoleNames \X RightNames |-> TokenLife + 1]
  BY Zenon DEF AccessInit
<1> HIDE DEF admin, user, all, some
<1>6. /\ {"admin", "user"} \subseteq RoleNames /\ {"*", "read"} \subseteq RightNames /\ TokenLife \in Nat \ {0}
  BY AccessAssumption
<1>7. roleName \in [RoleIds -> RoleNames \union {"none", "gone"}] /\ roleName[admin] = "admin" /\ roleName[user] = "user"
  BY <1>1, <1>2, <1>5, <1>6
<1>8. rightName \in [RightIds -> RightNames \union {"none", "gone"}]
  BY <1>5, <1>6
<1>9. grants \subseteq RoleIds \X RightIds
  BY <1>1, <1>2, <1>3, <1>4, <1>5
<1>10. member \subseteq RoleIds /\ \A r \in member : roleName[r] \in RoleNames
  BY <1>1, <1>2, <1>5, <1>6, <1>7
<1>11. access \in AccessRecord /\ access.left = 0
  BY <1>5, <1>6 DEF NoAccess, AccessRecord
<1>12. assigner \in [Assigners -> AssignRecord] /\ \A a \in Assigners : assigner[a].phase = "idle"
  BY <1>5 DEF NoAssign, AssignRecord
<1>13. \A r \in RoleIds : OpenedBy(grants, r) \in SUBSET RightIds /\ RightsOf(r) = OpenedBy(grants, r)
  BY <1>9 DEF OpenedBy, RightsOf
<1>14. /\ assigned \in [RoleIds -> [known : BOOLEAN, set : SUBSET RightIds]]
       /\ \A r \in RoleIds : assigned[r].set = OpenedBy(grants, r)
  BY <1>5, <1>13
<1>15. heldAge \in [RoleNames -> Nat] /\ grantAge \in [RoleNames \X RightNames -> Nat]
  BY <1>5, <1>6
<1>16. AccessTypeOK
  BY <1>5, <1>7, <1>8, <1>9, <1>10, <1>11, <1>12, <1>14, <1>15, NoMintIs DEF AccessTypeOK
<1>17. MintInv
  BY <1>5, NoMintIs DEF MintInv
<1>18. TokenInv
  BY <1>11 DEF TokenInv
<1>19. AssignInv
  BY <1>12, <1>14 DEF AssignInv
<1> QED
  BY <1>16, <1>17, <1>18, <1>19 DEF AccessInv

LEMMA AccessInvNext == AccessInv /\ [AccessNext]_accessVars => AccessInv'
<1> SUFFICES ASSUME AccessInv, [AccessNext]_accessVars PROVE AccessInv'
  OBVIOUS
<1>1. CASE UNCHANGED accessVars
  <2>1. UNCHANGED <<roleName, rightName, grants, member, access, mint, assigner, heldAge, grantAge, assigned>>
    BY <1>1 DEF accessVars
  <2>2. AccessTypeOK'
    BY <2>1 DEF AccessInv, AccessTypeOK, AssignRecord, MintRecord, AccessRecord
  <2>3. AssignInv'
    BY <2>1, GrantsSame DEF AccessInv
  <2>4. /\ \A n : PermissionsByRole(n)' = PermissionsByRole(n)
        /\ \A n, k : HeldWithin(n, k)' <=> HeldWithin(n, k)
        /\ \A n, p, k : OpenWithin(n, p, k)' <=> OpenWithin(n, p, k)
    BY <2>1 DEF PermissionsByRole, HeldWithin, OpenWithin, Holds, Opens, Names
  <2>5. MintInv' /\ TokenInv'
    BY <2>1, <2>4 DEF AccessInv, MintInv, TokenInv
  <2> QED
    BY <2>2, <2>3, <2>5 DEF AccessInv
<1>2. CASE AccessRequest /\ Aged(0)
  <2>1. CASE ReadRoles \/ FindDefault \/ JoinDefault \/ ReadPermissions \/ Sign
    BY <1>2, <2>1, MintSteps
  <2>2. CASE \/ \E id \in RoleIds, n \in RoleNames : CreateRole(id, n) \/ UpdateRole(id, n)
             \/ \E right \in RightIds, n \in RightNames : CreatePermission(right, n) \/ UpdatePermission(right, n)
             \/ \E id \in RoleIds : DeleteRole(id)
             \/ \E right \in RightIds : DeletePermission(right)
             \/ ChangeMembership
    BY <1>2, <2>2, AdminSteps
  <2>3. CASE \E a \in Assigners : RemoveGrants(a) \/ AddGrants(a)
    BY <1>2, <2>3, AssignSteps
  <2>4. CASE RequestDies
    BY <1>2, <2>4, RequestDiesKeeps
  <2> QED
    BY <1>2, <2>1, <2>2, <2>3, <2>4, Zenon DEF AccessRequest
<1>3. CASE AccessTick /\ Aged(1)
  BY <1>3, TickKeeps
<1> QED
  BY <1>1, <1>2, <1>3 DEF AccessNext

-----------------------------------------------------------------------------
(* Tallies: the sum of a history                                            *)

\* What is added to one day is added to the sum.
LEMMA SumOfMore ==
    ASSUME NEW S, IsFiniteSet(S), NEW h \in [S -> Int], NEW k \in [S -> Int], NEW day \in S, NEW n \in Int,
           k[day] = h[day] + n, \A d \in S : d # day => k[d] = h[d],
           NEW f, NEW g, IsSum(f, h, S), IsSum(g, k, S)
    PROVE  \A days \in SUBSET S : f[days] \in Int /\ g[days] = f[days] + (IF day \in days THEN n ELSE 0)
<1> DEFINE Adds(days) == f[days] \in Int /\ g[days] = f[days] + (IF day \in days THEN n ELSE 0)
           T == {m \in Nat : \E days \in SUBSET S : Cardinality(days) = m /\ ~ Adds(days)}
<1>1. \A days \in SUBSET S : Cardinality(days) \in Nat
  BY FS_CardinalityType, FS_Subset
<1>2. SUFFICES ASSUME T # {} PROVE FALSE
  BY <1>1
<1>3. PICK m \in T : \A i \in T : m <= i
  <2>1. T \subseteq Nat
    OBVIOUS
  <2> HIDE DEF T
  <2> QED
    BY <1>2, <2>1, LeastNat
<1>4. PICK days \in SUBSET S : Cardinality(days) = m /\ ~ Adds(days)
  BY <1>3
<1>5. f[days] = SumAt(f, h, days) /\ g[days] = SumAt(g, k, days)
  BY Zenon DEF IsSum
<1>6. CASE days = {}
  BY <1>4, <1>5, <1>6 DEF SumAt
<1>7. CASE days # {}
  <2> DEFINE d == CHOOSE e \in days : TRUE
             rest == days \ {d}
  <2>1. d \in days /\ rest \in SUBSET S /\ Cardinality(rest) = m - 1 /\ m \in Nat /\ Cardinality(rest) \in Nat
    BY <1>1, <1>4, <1>7, WithoutOne
  <2>2. Adds(rest)
    <3>1. m - 1 \notin T
      BY <1>3, <2>1
    <3> HIDE DEF Adds, rest, d
    <3> QED
      BY <2>1, <3>1
  <2>3. f[days] = h[d] + f[rest] /\ g[days] = k[d] + g[rest]
    BY <1>5, <1>7 DEF SumAt
  <2>4. h[d] \in Int /\ k[d] \in Int
    BY <2>1
  <2>5. day \in rest <=> day \in days /\ day # d
    OBVIOUS
  <2> HIDE DEF d, rest
  <2> QED
    BY <1>4, <2>1, <2>2, <2>3, <2>4, <2>5
<1> QED
  BY <1>6, <1>7

\* The total of a history.
Total(h) == (CHOOSE f : IsSum(f, h, Today))[Today]

LEMMA RecordedIs ==
    /\ \A t \in {"dhikr", "japa"} : Recorded(t) = Total(history[t])
    /\ \A t \in {"dhikr", "japa"} : Recorded(t)' = Total(history'[t])
BY Zenon DEF Recorded, Total, IsSum, SumAt

LEMMA TotalOfMore ==
    ASSUME NEW h \in [Today -> Int], NEW k \in [Today -> Int], NEW day \in Today, NEW n \in Int,
           k[day] = h[day] + n, \A d \in Today : d # day => k[d] = h[d]
    PROVE  Total(h) \in Int /\ Total(k) = Total(h) + n
<1> DEFINE f == CHOOSE f : IsSum(f, h, Today)
           g == CHOOSE g : IsSum(g, k, Today)
<1>1. IsFiniteSet(Today)
  BY TallyAssumption
<1>2. IsSum(f, h, Today) /\ IsSum(g, k, Today)
  BY <1>1, SumExists
<1>3. f[Today] \in Int /\ g[Today] = f[Today] + n
  <2> HIDE DEF f, g
  <2>1. Today \in SUBSET Today /\ day \in Today
    OBVIOUS
  <2>2. \A days \in SUBSET Today : f[days] \in Int /\ g[days] = f[days] + (IF day \in days THEN n ELSE 0)
    BY <1>1, <1>2, SumOfMore
  <2> QED
    BY <2>1, <2>2
<1> QED
  BY <1>3 DEF Total

LEMMA TotalOfNone == Total([d \in Today |-> 0]) = 0
<1> DEFINE h == [d \in Today |-> 0]
           f == CHOOSE f : IsSum(f, h, Today)
           T == {m \in Nat : \E days \in SUBSET Today : Cardinality(days) = m /\ f[days] # 0}
<1>1. IsFiniteSet(Today)
  BY TallyAssumption
<1>2. IsSum(f, h, Today)
  BY <1>1, SumExists
<1>3. Cardinality(Today) \in Nat /\ Total(h) = f[Today]
  BY <1>1, FS_CardinalityType DEF Total
<1>4. SUFFICES ASSUME T # {} PROVE FALSE
  BY <1>3
<1>5. PICK m \in T : \A i \in T : m <= i
  <2>1. T \subseteq Nat
    OBVIOUS
  <2> HIDE DEF T
  <2> QED
    BY <1>4, <2>1, LeastNat
<1>6. PICK days \in SUBSET Today : Cardinality(days) = m /\ f[days] # 0
  BY <1>5
<1>7. f[days] = SumAt(f, h, days)
  <2> HIDE DEF f, h
  <2> QED
    BY <1>2, Zenon DEF IsSum
<1>8. days # {}
  BY <1>6, <1>7 DEF SumAt
<1> DEFINE d == CHOOSE e \in days : TRUE
           rest == days \ {d}
<1>9. d \in days /\ rest \in SUBSET Today /\ Cardinality(rest) = m - 1 /\ m \in Nat /\ Cardinality(rest) \in Nat
  <2>1. Cardinality(rest) \in Nat
    BY <1>1, FS_Subset, FS_CardinalityType
  <2> QED
    BY <1>1, <1>5, <1>6, <1>8, <2>1, WithoutOne
<1>10. f[rest] = 0
  <2>1. ~ (m <= m - 1) /\ m - 1 \in Nat
    BY <1>9
  <2>2. m - 1 \notin T
    BY <1>5, <2>1, Zenon
  <2> HIDE DEF f, rest, d
  <2> QED
    BY <1>9, <2>1, <2>2
<1>11. h[d] = 0
  BY <1>9
<1>12. f[days] = h[d] + f[rest]
  BY <1>7, <1>8, Zenon DEF SumAt
<1> HIDE DEF f, h, d, rest
<1> QED
  BY <1>6, <1>10, <1>11, <1>12

-----------------------------------------------------------------------------
(* Tallies: the invariant                                                   *)

Histories == {"dhikr", "japa"}
TapRow == [table : Tables \union {"none"}, phase : {"idle", "write", "history"}, by : Int, read : Int]

TallyTypeOK ==
    /\ count \in [Tables -> Int] /\ history \in [Histories -> [Today -> Int]]
    /\ tap \in [Taps -> TapRow] /\ taps \in Nat
    /\ owed \in Int /\ cleared \in [Histories -> Int] /\ crossed \subseteq Tables

\* The taps of a table that have not overlapped are one, which has read what is
\* there; its history is behind by what the tap is about to add.
OneTap ==
    /\ \A p \in Taps : tap[p].phase = "idle" <=> tap[p].table = "none"
    /\ \A p \in Taps : tap[p].phase = "history" => tap[p].table = "japa"
    /\ \A t \in Tables \ crossed, p, q \in Taps : tap[p].table = t /\ tap[q].table = t => p = q
    /\ \A t \in {"qada", "japa"} \ crossed, p \in Taps :
        tap[p].table = t /\ tap[p].phase = "write" => tap[p].read = count[t]

JapaBehind ==
    "japa" \notin crossed =>
        /\ (\A p \in Taps : tap[p].phase # "history") => count["japa"] = Total(history["japa"]) + cleared["japa"]
        /\ \A p \in Taps : tap[p].phase = "history" =>
            count["japa"] = Total(history["japa"]) + cleared["japa"] + tap[p].by - tap[p].read

TallyInv ==
    /\ TallyTypeOK /\ OneTap /\ JapaBehind
    /\ count["dhikr"] = Total(history["dhikr"]) + cleared["dhikr"]
    /\ "qada" \notin crossed => count["qada"] = owed

LEMMA TallyInvAddsUp == TallyInv => TalliesAddUp
BY RecordedIs DEF TallyInv, TallyTypeOK, OneTap, JapaBehind, TalliesAddUp

LEMMA NoTapIs == NoTap \in TapRow /\ NoTap.phase = "idle" /\ NoTap.table = "none"
BY DEF NoTap, TapRow, Tables

LEMMA TallyInvInit == TallyInit => TallyInv
BY TotalOfNone, NoTapIs DEF TallyInit, TallyInv, TallyTypeOK, OneTap, JapaBehind, Histories, Tables

LEMMA TotalIs ==
    ASSUME TallyTypeOK
    PROVE  Total(history["dhikr"]) \in Int /\ Total(history["japa"]) \in Int
<1>1. ASSUME NEW h \in [Today -> Int] PROVE Total(h) \in Int
  <2>1. CASE Today = {}
    <3>1. h = [d \in Today |-> 0]
      BY <2>1
    <3> QED
      BY <3>1, TotalOfNone
  <2>2. CASE Today # {}
    <3>1. PICK day \in Today : TRUE
      BY <2>2
    <3>2. h[day] = h[day] + 0
      OBVIOUS
    <3> QED
      BY <3>2, TotalOfMore
  <2> QED
    BY <2>1, <2>2
<1> QED
  BY <1>1 DEF TallyTypeOK, Histories

\* A request begins, on any table.
LEMMA BeginTapKeeps ==
    ASSUME TallyInv, NEW p \in Taps, NEW counter \in Tables, NEW by \in Int, BeginTap(p, counter, by),
           UNCHANGED <<count, history, owed, cleared>>
    PROVE  TallyInv'
<1> DEFINE entry == [table |-> counter, phase |-> "write", by |-> by, read |-> count[counter]]
<1>1. entry \in TapRow /\ entry.phase = "write" /\ entry.table = counter /\ entry.read = count[counter]
  BY DEF TallyInv, TallyTypeOK, TapRow
<1>2. tap' = [tap EXCEPT ![p] = entry] /\ taps' \in Nat /\ tap[p].phase = "idle" /\ tap[p].table = "none"
  BY DEF BeginTap, TallyInv, TallyTypeOK, OneTap
<1> HIDE DEF entry
<1>3. \A q \in Taps : tap'[q] = IF q = p THEN entry ELSE tap[q]
  BY <1>2 DEF TallyInv, TallyTypeOK
<1>4. crossed' \in {crossed, crossed \union {counter}} /\ crossed' \subseteq Tables /\ crossed \subseteq crossed'
  BY DEF BeginTap, TallyInv, TallyTypeOK
<1>5. counter \notin crossed' => \A q \in Taps \ {p} : tap[q].table # counter
  BY DEF BeginTap
<1>6. TallyTypeOK'
  BY <1>1, <1>2, <1>4 DEF TallyInv, TallyTypeOK
<1>7. OneTap'
  BY <1>1, <1>2, <1>3, <1>4, <1>5 DEF TallyInv, OneTap, Tables
<1>8. JapaBehind'
  BY <1>1, <1>2, <1>3, <1>4 DEF TallyInv, JapaBehind
<1> QED
  BY <1>4, <1>6, <1>7, <1>8 DEF TallyInv

\* A request ends, or is killed.
LEMMA EndsOneTap ==
    ASSUME TallyTypeOK, NEW p \in Taps, EndTap(p)
    PROVE  /\ \A q \in Taps : tap'[q] = IF q = p THEN NoTap ELSE tap[q]
           /\ tap' \in [Taps -> TapRow]
BY NoTapIs DEF EndTap, TallyTypeOK

\* The other taps are as they were: only their own tables' rows concern them.
LEMMA OneTapLess ==
    ASSUME TallyInv, NEW p \in Taps, UNCHANGED crossed,
           \A q \in Taps : tap'[q] = IF q = p THEN NoTap ELSE tap[q],
           \A t \in {"qada", "japa"} : count'[t] = count[t] \/ tap[p].table = t
    PROVE  OneTap'
<1>1. \A q \in Taps \ {p} : tap'[q] = tap[q]
  OBVIOUS
<1>2. tap'[p].phase = "idle" /\ tap'[p].table = "none" /\ "none" \notin Tables
  BY NoTapIs DEF Tables
<1>3. \A q \in Taps :
        /\ tap'[q].phase = "idle" <=> tap'[q].table = "none"
        /\ tap'[q].phase = "history" => tap'[q].table = "japa"
  BY <1>1, <1>2 DEF TallyInv, OneTap
<1>4. \A t \in Tables \ crossed', q, r \in Taps : tap'[q].table = t /\ tap'[r].table = t => q = r
  BY <1>1, <1>2 DEF TallyInv, OneTap
<1>5. ASSUME NEW t \in {"qada", "japa"} \ crossed', NEW q \in Taps,
             tap'[q].table = t, tap'[q].phase = "write"
      PROVE  tap'[q].read = count'[t]
  <2>1. q # p /\ tap'[q] = tap[q] /\ t \in Tables \ crossed
    BY <1>1, <1>2, <1>5 DEF Tables
  <2>2. count'[t] = count[t]
    BY <1>5, <2>1 DEF TallyInv, OneTap
  <2> QED
    BY <1>5, <2>1, <2>2 DEF TallyInv, OneTap
<1> QED
  BY <1>3, <1>4, <1>5 DEF OneTap

LEMMA WriteQadaKeeps == ASSUME TallyInv, NEW p \in Taps, WriteQada(p) PROVE TallyInv'
<1>1. \A q \in Taps : tap'[q] = IF q = p THEN NoTap ELSE tap[q]
  BY EndsOneTap DEF WriteQada, TallyInv
<1>2. tap' \in [Taps -> TapRow]
  BY EndsOneTap DEF WriteQada, TallyInv
<1>3. tap[p].by \in Int /\ tap[p].read \in Int /\ tap[p].table = "qada" /\ tap[p].phase = "write"
  BY DEF WriteQada, TallyInv, TallyTypeOK, TapRow
<1>4. \A n \in Int : Clamp(n) \in Int
  BY DEF Clamp
<1>5. count' = [count EXCEPT !["qada"] = Clamp(tap[p].read + tap[p].by)] /\ owed' = Clamp(owed + tap[p].by)
  BY DEF WriteQada
<1>6. TallyTypeOK'
  <2>1. Clamp(tap[p].read + tap[p].by) \in Int
    BY <1>3, <1>4
  <2>2. owed' \in Int
    BY <1>3, <1>4, <1>5 DEF TallyInv, TallyTypeOK
  <2>3. count' \in [Tables -> Int]
    BY <1>5, <2>1 DEF TallyInv, TallyTypeOK
  <2> QED
    BY <1>2, <2>2, <2>3 DEF WriteQada, TallyInv, TallyTypeOK
<1>7. OneTap'
  <2>1. UNCHANGED crossed /\ \A t \in Tables \ {"qada"} : count'[t] = count[t]
    BY <1>5 DEF WriteQada, TallyInv, TallyTypeOK
  <2> QED
    BY <1>1, <1>3, <2>1, OneTapLess DEF Tables
<1>8. JapaBehind'
  BY <1>1, <1>3, <1>5, NoTapIs DEF WriteQada, TallyInv, TallyTypeOK, JapaBehind, Tables
<1>9. "qada" \notin crossed' => count'["qada"] = owed'
  BY <1>3, <1>5 DEF WriteQada, TallyInv, TallyTypeOK, OneTap, Tables
<1> QED
  BY <1>5, <1>6, <1>7, <1>8, <1>9 DEF WriteQada, TallyInv, TallyTypeOK, Tables

LEMMA IncrementDhikrKeeps ==
    ASSUME TallyInv, NEW p \in Taps, NEW day \in Today, IncrementDhikr(p, day)
    PROVE  TallyInv'
<1>1. \A q \in Taps : tap'[q] = IF q = p THEN NoTap ELSE tap[q]
  BY EndsOneTap DEF IncrementDhikr, TallyInv
<1>2. tap' \in [Taps -> TapRow]
  BY EndsOneTap DEF IncrementDhikr, TallyInv
<1>3. tap[p].by \in Int /\ tap[p].table = "dhikr" /\ tap[p].phase = "write"
  BY DEF IncrementDhikr, TallyInv, TallyTypeOK, TapRow
<1>4. /\ count' = [count EXCEPT !["dhikr"] = @ + tap[p].by]
      /\ history' = [history EXCEPT !["dhikr"][day] = @ + tap[p].by]
  BY DEF IncrementDhikr
<1>5. /\ history["dhikr"] \in [Today -> Int] /\ history'["dhikr"] \in [Today -> Int]
      /\ history'["dhikr"][day] = history["dhikr"][day] + tap[p].by
      /\ \A d \in Today : d # day => history'["dhikr"][d] = history["dhikr"][d]
      /\ history'["japa"] = history["japa"] /\ history' \in [Histories -> [Today -> Int]]
  BY <1>3, <1>4 DEF TallyInv, TallyTypeOK, Histories
<1>6. Total(history'["dhikr"]) = Total(history["dhikr"]) + tap[p].by
  BY <1>3, <1>5, TotalOfMore
<1>7. TallyTypeOK'
  <2>1. count' \in [Tables -> Int]
    BY <1>3, <1>4 DEF TallyInv, TallyTypeOK, Tables
  <2> QED
    BY <1>2, <1>5, <2>1 DEF IncrementDhikr, TallyInv, TallyTypeOK
<1>8. OneTap'
  <2>1. UNCHANGED crossed /\ \A t \in {"qada", "japa"} : count'[t] = count[t]
    BY <1>4 DEF IncrementDhikr, TallyInv, TallyTypeOK, Tables
  <2> QED
    BY <1>1, <2>1, OneTapLess
<1>9. JapaBehind'
  <2>1. UNCHANGED <<crossed, cleared>> /\ count'["japa"] = count["japa"]
    BY <1>4 DEF IncrementDhikr, TallyInv, TallyTypeOK, Tables
  <2>2. tap[p].phase # "history" /\ tap'[p].phase # "history"
    BY <1>1, <1>3, NoTapIs
  <2>3. \A q \in Taps : tap'[q].phase = "history" <=> tap[q].phase = "history"
    BY <1>1, <2>2
  <2>4. \A q \in Taps : tap'[q].phase = "history" => tap'[q] = tap[q]
    BY <1>1, <2>2
  <2> QED
    BY <1>5, <2>1, <2>3, <2>4 DEF TallyInv, JapaBehind
<1>10. count'["dhikr"] = Total(history'["dhikr"]) + cleared'["dhikr"]
  <2>1. count'["dhikr"] = count["dhikr"] + tap[p].by /\ cleared'["dhikr"] = cleared["dhikr"]
    BY <1>4 DEF IncrementDhikr, TallyInv, TallyTypeOK, Tables
  <2>2. Total(history["dhikr"]) \in Int /\ cleared["dhikr"] \in Int /\ count["dhikr"] \in Int
    BY TotalIs DEF TallyInv, TallyTypeOK, Tables, Histories
  <2> QED
    BY <1>3, <1>6, <2>1, <2>2 DEF TallyInv
<1> QED
  BY <1>4, <1>7, <1>8, <1>9, <1>10 DEF IncrementDhikr, TallyInv, TallyTypeOK, Tables

LEMMA SetDhikrKeeps == ASSUME TallyInv, SetDhikr PROVE TallyInv'
<1>1. PICK n \in Steps \union {0} :
        /\ count' = [count EXCEPT !["dhikr"] = n]
        /\ cleared' = [cleared EXCEPT !["dhikr"] = @ + n - count["dhikr"]]
  BY DEF SetDhikr
<1>2. n \in Int /\ UNCHANGED <<history, tap, owed, crossed>> /\ taps' \in Nat
  BY <1>1, TallyAssumption DEF SetDhikr, TallyInv, TallyTypeOK
<1>3. /\ count["dhikr"] \in Int /\ cleared["dhikr"] \in Int /\ Total(history["dhikr"]) \in Int
      /\ count'["dhikr"] = n /\ cleared'["dhikr"] = cleared["dhikr"] + n - count["dhikr"]
      /\ \A t \in {"qada", "japa"} : count'[t] = count[t]
      /\ cleared'["japa"] = cleared["japa"]
  BY <1>1, <1>2, TotalIs DEF TallyInv, TallyTypeOK, Tables, Histories
<1>4. TallyTypeOK'
  <2>1. count' \in [Tables -> Int]
    BY <1>1, <1>2 DEF TallyInv, TallyTypeOK
  <2>2. cleared["dhikr"] + n - count["dhikr"] \in Int
    BY <1>2, <1>3
  <2>3. cleared' \in [Histories -> Int]
    BY <1>1, <2>2 DEF TallyInv, TallyTypeOK
  <2> QED
    BY <1>2, <2>1, <2>3 DEF TallyInv, TallyTypeOK
<1>5. OneTap' /\ JapaBehind'
  BY <1>2, <1>3 DEF TallyInv, OneTap, JapaBehind
<1> QED
  BY <1>2, <1>3, <1>4, <1>5 DEF TallyInv

LEMMA UpdateJapaKeeps == ASSUME TallyInv, NEW p \in Taps, UpdateJapa(p) PROVE TallyInv'
<1> DEFINE step == tap[p].by - tap[p].read
<1>1. /\ tap[p].by \in Int /\ tap[p].read \in Int /\ tap[p] \in TapRow
      /\ tap[p].table = "japa" /\ tap[p].phase = "write"
      /\ count' = [count EXCEPT !["japa"] = tap[p].by]
      /\ UNCHANGED <<history, taps, owed, crossed>>
  BY DEF UpdateJapa, TallyInv, TallyTypeOK, TapRow
<1>2. /\ count'["japa"] = tap[p].by /\ \A t \in {"qada", "dhikr"} : count'[t] = count[t]
      /\ count' \in [Tables -> Int]
  BY <1>1 DEF TallyInv, TallyTypeOK, Tables
<1>3. Total(history["japa"]) \in Int /\ cleared["japa"] \in Int /\ count["japa"] \in Int
  BY TotalIs DEF TallyInv, TallyTypeOK, Tables, Histories
<1>4. "japa" \notin crossed =>
        /\ tap[p].read = count["japa"] /\ count["japa"] = Total(history["japa"]) + cleared["japa"]
        /\ \A q \in Taps : q # p => tap[q].table # "japa"
  BY <1>1 DEF TallyInv, OneTap, JapaBehind, Tables
<1>5. CASE tap[p].by > tap[p].read
  <2>1. tap' = [tap EXCEPT ![p].phase = "history"] /\ UNCHANGED cleared
    BY <1>5 DEF UpdateJapa
  <2>2. /\ \A q \in Taps : q # p => tap'[q] = tap[q]
        /\ tap'[p].phase = "history" /\ tap'[p].table = "japa"
        /\ tap'[p].by = tap[p].by /\ tap'[p].read = tap[p].read
        /\ tap' \in [Taps -> TapRow]
    BY <1>1, <2>1 DEF TallyInv, TallyTypeOK, TapRow
  <2>3. TallyTypeOK'
    BY <1>1, <1>2, <2>1, <2>2 DEF TallyInv, TallyTypeOK
  <2>4. OneTap'
    BY <1>1, <1>2, <2>2 DEF TallyInv, OneTap, Tables
  <2>5. JapaBehind'
    BY <1>1, <1>2, <1>3, <1>4, <2>1, <2>2 DEF TallyInv, OneTap, JapaBehind
  <2> QED
    BY <1>1, <1>2, <2>1, <2>3, <2>4, <2>5 DEF TallyInv
<1>6. CASE ~ (tap[p].by > tap[p].read)
  <2>1. EndTap(p) /\ cleared' = [cleared EXCEPT !["japa"] = @ + tap[p].by - tap[p].read]
    BY <1>6 DEF UpdateJapa
  <2>2. /\ \A q \in Taps : tap'[q] = IF q = p THEN NoTap ELSE tap[q]
        /\ tap' \in [Taps -> TapRow]
    BY <2>1, EndsOneTap DEF TallyInv
  <2>3. /\ cleared'["japa"] = cleared["japa"] + tap[p].by - tap[p].read
        /\ cleared'["dhikr"] = cleared["dhikr"] /\ cleared' \in [Histories -> Int]
    BY <1>1, <1>3, <2>1 DEF TallyInv, TallyTypeOK, Histories
  <2>4. TallyTypeOK'
    BY <1>1, <1>2, <2>2, <2>3 DEF TallyInv, TallyTypeOK
  <2>5. OneTap'
    BY <1>1, <1>2, <2>2, NoTapIs DEF TallyInv, OneTap, Tables
  <2>6. JapaBehind'
    <3>1. \A q \in Taps : "japa" \notin crossed => tap'[q].phase # "history"
      BY <1>4, <2>2, NoTapIs DEF TallyInv, OneTap
    <3> QED
      BY <1>1, <1>2, <1>3, <1>4, <2>3, <3>1 DEF JapaBehind
  <2> QED
    BY <1>1, <1>2, <2>3, <2>4, <2>5, <2>6 DEF TallyInv
<1> QED
  BY <1>5, <1>6

LEMMA RecordJapaKeeps ==
    ASSUME TallyInv, NEW p \in Taps, NEW day \in Today, RecordJapa(p, day)
    PROVE  TallyInv'
<1> DEFINE step == tap[p].by - tap[p].read
<1>1. /\ tap[p].by \in Int /\ tap[p].read \in Int /\ step \in Int
      /\ tap[p].table = "japa" /\ tap[p].phase = "history"
      /\ UNCHANGED <<count, taps, owed, cleared, crossed>>
  BY DEF RecordJapa, TallyInv, TallyTypeOK, TapRow
<1>2. /\ \A q \in Taps : tap'[q] = IF q = p THEN NoTap ELSE tap[q]
      /\ tap' \in [Taps -> TapRow]
  BY EndsOneTap DEF RecordJapa, TallyInv
<1>3. /\ history["japa"] \in [Today -> Int] /\ history'["japa"] \in [Today -> Int]
      /\ history'["japa"][day] = history["japa"][day] + step
      /\ \A d \in Today : d # day => history'["japa"][d] = history["japa"][d]
      /\ history'["dhikr"] = history["dhikr"] /\ history' \in [Histories -> [Today -> Int]]
  BY <1>1 DEF RecordJapa, TallyInv, TallyTypeOK, Histories
<1>4. Total(history'["japa"]) = Total(history["japa"]) + step
  <2> HIDE DEF step
  <2> QED
    BY <1>1, <1>3, TotalOfMore
<1>5. Total(history["japa"]) \in Int /\ cleared["japa"] \in Int /\ count["japa"] \in Int
  BY TotalIs DEF TallyInv, TallyTypeOK, Tables, Histories
<1>6. TallyTypeOK'
  BY <1>1, <1>2, <1>3 DEF TallyInv, TallyTypeOK
<1>7. OneTap'
  BY <1>1, <1>2, NoTapIs DEF TallyInv, OneTap, Tables
<1>8. JapaBehind'
  <2>1. \A q \in Taps : "japa" \notin crossed => tap'[q].phase # "history"
    BY <1>1, <1>2, NoTapIs DEF TallyInv, OneTap, Tables
  <2>2. "japa" \notin crossed => count["japa"] = Total(history["japa"]) + cleared["japa"] + tap[p].by - tap[p].read
    BY <1>1 DEF TallyInv, JapaBehind
  <2> QED
    BY <1>1, <1>4, <1>5, <2>1, <2>2 DEF JapaBehind
<1> QED
  BY <1>1, <1>3, <1>6, <1>7, <1>8 DEF TallyInv

LEMMA TapDiesKeeps == ASSUME TallyInv, NEW p \in Taps, TapDies(p) PROVE TallyInv'
<1>1. /\ \A q \in Taps : tap'[q] = IF q = p THEN NoTap ELSE tap[q]
      /\ tap' \in [Taps -> TapRow]
  BY EndsOneTap DEF TapDies, TallyInv
<1>2. /\ crossed \subseteq crossed' /\ crossed' \subseteq Tables
      /\ tap[p].phase = "history" => "japa" \in crossed'
      /\ UNCHANGED <<count, history, taps, owed, cleared>>
  BY DEF TapDies, TallyInv, TallyTypeOK, Tables
<1>3. TallyTypeOK'
  BY <1>1, <1>2 DEF TallyInv, TallyTypeOK
<1>4. OneTap'
  BY <1>1, <1>2, NoTapIs DEF TallyInv, OneTap, Tables
<1>5. JapaBehind'
  BY <1>1, <1>2, NoTapIs DEF TallyInv, JapaBehind
<1> QED
  BY <1>2, <1>3, <1>4, <1>5 DEF TallyInv

LEMMA TallyInvNext == TallyInv /\ [TallyNext]_tallyVars => TallyInv'
<1> SUFFICES ASSUME TallyInv, [TallyNext]_tallyVars PROVE TallyInv'
  OBVIOUS
<1>1. CASE UNCHANGED tallyVars
  BY <1>1 DEF tallyVars, TallyInv, TallyTypeOK, OneTap, JapaBehind
<1>2. ASSUME NEW p \in Taps, ReadQada(p) \/ FindDhikr(p) \/ FindJapa(p) PROVE TallyInv'
  <2>1. PICK counter \in Tables, by \in Int : BeginTap(p, counter, by)
    BY <1>2, TallyAssumption DEF ReadQada, FindDhikr, FindJapa, Tables
  <2> QED
    BY <1>2, <2>1, BeginTapKeeps DEF ReadQada, FindDhikr, FindJapa
<1> QED
  BY <1>1, <1>2, WriteQadaKeeps, IncrementDhikrKeeps, SetDhikrKeeps, UpdateJapaKeeps, RecordJapaKeeps,
     TapDiesKeeps DEF TallyNext

-----------------------------------------------------------------------------
(* PrayerLogs                                                               *)

LogRow == {NoLog} \union [status : Statuses, id : Nat \ {0}]
WriteRow ==
    [op : {"none", "log", "again", "find", "delete"}, key : LogKeys \union {<<>>},
     status : Statuses \union {"none"}, id : Nat, blurred : BOOLEAN]
StatsRow ==
    [phase : {"idle", "onTime", "streak", "done"}, total : Nat, onTime : Nat, streak : Nat, writes : Nat]

LogTypeOK ==
    /\ logged \in [LogKeys -> LogRow] /\ logCall \in [LogCalls -> WriteRow]
    /\ stats \in StatsRow /\ logCalls \in Nat /\ lastLogId \in Nat
    /\ meantLog \in [LogKeys -> Statuses \union {"none", "unknown"}]

\* Writes that overlap are blurred; a removal that is not has named the row that
\* is there.
WritesApart ==
    /\ \A c \in LogCalls : logCall[c].op # "none" => logCall[c].key \in LogKeys
    /\ \A c \in LogCalls : logCall[c].op \in {"log", "again"} => logCall[c].status \in Statuses
    /\ \A c, d \in LogCalls :
        c # d /\ logCall[c].op # "none" /\ logCall[d].op # "none" /\ logCall[c].key = logCall[d].key
            => logCall[c].blurred
    /\ \A c \in LogCalls : logCall[c].op \in {"find", "delete"} /\ ~ logCall[c].blurred =>
        logged[logCall[c].key] # NoLog /\ logged[logCall[c].key].id = logCall[c].id

LoggedAsMeant == \A k \in LogKeys : KnownLog(k) => logged[k].status = meantLog[k]

Prayed == WithStatus(PRAYED_STATUSES)
OnTime == WithStatus({"on_time"})
DaysOfKeys(keys) == {k[2] : k \in keys}

\* What has been written since the first query of /stats bounds what the others
\* can have found more.
StatsBounded ==
    /\ stats.phase \in {"onTime", "streak"} => Cardinality(Prayed) <= stats.total + stats.writes
    /\ stats.phase \in {"streak", "done"} => stats.onTime <= stats.total + stats.writes
    /\ stats.phase = "done" => stats.streak <= stats.total + stats.writes
    /\ stats.phase # "idle" /\ stats.writes = 0 => stats.total = Cardinality(Prayed)
    /\ stats.phase \in {"streak", "done"} /\ stats.writes = 0 => stats.onTime = Cardinality(OnTime)
    /\ stats.phase = "done" /\ stats.writes = 0 => stats.streak = PrayerStreak(DaysOfKeys(Prayed), LogToday)

LogInv == LogTypeOK /\ WritesApart /\ LoggedAsMeant /\ StatsBounded

LEMMA KeysFinite ==
    /\ IsFiniteSet(LogKeys)
    /\ \A K \in SUBSET LogKeys : IsFiniteSet(K) /\ Cardinality(K) \in Nat
    /\ \A K \in SUBSET LogKeys : \A L \in SUBSET K : Cardinality(L) <= Cardinality(K)
<1>1. IsFiniteSet(LogKeys)
  BY LogAssumption, FS_Product DEF LogKeys
<1> QED
  BY <1>1, FS_Subset, FS_CardinalityType

LEMMA StatusOf ==
    ASSUME NEW entry \in LogRow
    PROVE  /\ entry.status \in Statuses \union {"none"} /\ entry.id \in Nat
           /\ entry = NoLog <=> entry.status = "none"
           /\ entry = NoLog <=> entry.id = 0
BY DEF LogRow, NoLog, Statuses, PRAYED_STATUSES

\* A streak is as long as some days with prayers are many.
LEMMA StreakWithin ==
    ASSUME NEW keys \in SUBSET LogKeys
    PROVE  /\ DaysOfKeys(keys) \in SUBSET Nat
           /\ PrayerStreak(DaysOfKeys(keys), LogToday) \in Nat
           /\ PrayerStreak(DaysOfKeys(keys), LogToday) <= Cardinality(keys)
<1> DEFINE days == DaysOfKeys(keys)
           reach == MaxChunks * ChunkDays
           S == {d \in days : LogToday - d < reach}
           end == LiveEnd(days, LogToday)
<1>1. days \in SUBSET Nat /\ LogToday \in Nat /\ reach \in Nat /\ end \in Int
  <2>1. \A k \in keys : k[2] \in Nat
    BY LogAssumption DEF LogKeys
  <2> QED
    BY <2>1, LogAssumption, PracticeAssumption, LiveEndIs DEF DaysOfKeys
<1>2. IsFiniteSet(days) /\ Cardinality(days) <= Cardinality(keys) /\ Cardinality(days) \in Nat
      /\ Cardinality(keys) \in Nat
  <2> DEFINE f == [k \in keys |-> k[2]]
  <2>1. f \in Surjection(keys, days)
    BY DEF Surjection, Range, DaysOfKeys
  <2>2. IsFiniteSet(keys) /\ Cardinality(keys) \in Nat
    BY KeysFinite
  <2> HIDE DEF f, days
  <2>3. IsFiniteSet(days) /\ Cardinality(days) <= Cardinality(keys)
    BY <2>1, <2>2, FS_Surjection
  <2> QED
    BY <2>2, <2>3, FS_CardinalityType
<1> HIDE DEF days, end, reach
<1>3. PICK n \in Nat : Back(S, end, n)
  <2>1. PICK first \in Int : first = 0
    OBVIOUS
  <2>2. \A d \in S : first <= d
    BY <1>1, <2>1
  <2> HIDE DEF S
  <2> QED
    BY <1>1, <2>2, BackIs
<1>4. PrayerStreak(days, LogToday) = n
  <2>1. LiveRun(days, LogToday, reach) = n
    BY <1>1, <1>3, LiveRunIs DEF end
  <2>2. PrayerStreak(days, LogToday) = LiveRun(days, LogToday, reach)
    BY <1>1, PrayerIsLive DEF reach
  <2> QED
    BY <2>1, <2>2
<1>5. n <= Cardinality(days)
  <2>1. \A d \in end - n + 1 .. end : d \in days
    <3> TAKE d \in end - n + 1 .. end
    <3>1. end - d \in 0 .. n - 1 /\ end - (end - d) = d
      BY <1>1
    <3> QED
      BY <1>3, <3>1 DEF Back
  <2>2. Cardinality(end - n + 1 .. end) = n
    BY <1>1, FS_Interval
  <2>3. end - n + 1 .. end \in SUBSET days
    BY <2>1
  <2>4. Cardinality(end - n + 1 .. end) <= Cardinality(days)
    BY <1>2, <2>3, FS_Subset
  <2> QED
    BY <2>2, <2>4
<1> QED
  BY <1>1, <1>2, <1>4, <1>5 DEF days

LEMMA PrayedIs ==
    ASSUME LogTypeOK
    PROVE  /\ Prayed \in SUBSET LogKeys /\ OnTime \in SUBSET Prayed
           /\ Cardinality(Prayed) \in Nat /\ Cardinality(OnTime) \in Nat
           /\ Cardinality(OnTime) <= Cardinality(Prayed)
           /\ PrayerStreak(DaysOfKeys(Prayed), LogToday) \in Nat
           /\ PrayerStreak(DaysOfKeys(Prayed), LogToday) <= Cardinality(Prayed)
<1>1. Prayed \in SUBSET LogKeys /\ OnTime \in SUBSET LogKeys /\ OnTime \in SUBSET Prayed
  BY DEF Prayed, OnTime, WithStatus, PRAYED_STATUSES
<1> QED
  BY <1>1, KeysFinite, StreakWithin

LEMMA LogInvInit == LogInit => LogInv
BY DEF LogInit, LogInv, LogTypeOK, WritesApart, LoggedAsMeant, StatsBounded, KnownLog, LogRow, WriteRow,
       StatsRow, NoLog, NoWrite, NoStats

LEMMA KeyIs == \A k \in LogKeys : k = <<k[1], k[2]>> /\ k[2] \in Nat
<1>1. LogDays \subseteq Nat
  BY LogAssumption
<1>2. \A k \in DailyPrayers \X LogDays : k = <<k[1], k[2]>> /\ k[2] \in LogDays
  OBVIOUS
<1> QED
  BY <1>1, <1>2 DEF LogKeys

\* What the log says, if no two writes about it overlapped, is what was meant; and
\* so are the numbers of a /stats while which nothing was written.
LEMMA LogInvCounted == LogInv => PrayersCounted
<1> SUFFICES ASSUME LogInv PROVE PrayersCounted
  OBVIOUS
<1>1. ASSUME NEW k \in LogKeys, KnownLog(k)
      PROVE  logged[k].status = meantLog[k] /\ (k[1] \in LoggedOn(k[2]) <=> meantLog[k] # "none")
  <2>1. logged[k].status = meantLog[k] /\ logged[k] \in LogRow
    BY <1>1 DEF LogInv, LogTypeOK, LoggedAsMeant
  <2>2. logged[k] = NoLog <=> meantLog[k] = "none"
    BY <2>1, StatusOf
  <2>3. k = <<k[1], k[2]>> /\ k[2] \in Nat
    BY KeyIs
  <2>4. logged[k] # NoLog => k[1] \in LoggedOn(k[2])
    BY <2>3 DEF LoggedOn
  <2>5. ASSUME k[1] \in LoggedOn(k[2]) PROVE logged[k] # NoLog
    <3>1. PICK j \in LogKeys : logged[j] # NoLog /\ j[2] >= k[2] /\ j[2] < k[2] + 1 /\ j[1] = k[1]
      BY <2>5 DEF LoggedOn
    <3>2. j = <<j[1], j[2]>> /\ j[2] \in Nat
      BY KeyIs
    <3>3. j[2] = k[2]
      BY <2>3, <3>1, <3>2
    <3> QED
      BY <2>3, <3>1, <3>2, <3>3
  <2> QED
    BY <2>1, <2>2, <2>4, <2>5
<1>2. ASSUME \A k \in LogKeys : KnownLog(k)
      PROVE  Meant(PRAYED_STATUSES) = Prayed /\ Meant({"on_time"}) = OnTime
  <2>1. \A k \in LogKeys : logged[k].status = meantLog[k]
    BY <1>1, <1>2
  <2> QED
    BY <2>1 DEF Meant, Prayed, OnTime, WithStatus
<1>3. PrayerStreak(DaysOfKeys(Prayed), LogToday) = LiveRun(DaysOfKeys(Prayed), LogToday, MaxChunks * ChunkDays)
  <2>1. DaysOfKeys(Prayed) \in SUBSET Nat
    BY PrayedIs, StreakWithin DEF LogInv
  <2>2. DaysOfKeys(Prayed) \in SUBSET Int /\ LogToday \in Int
    BY <2>1, LogAssumption
  <2> QED
    BY <2>2, PrayerIsLive
<1>4. /\ Prayed = WithStatus(PRAYED_STATUSES)
      /\ DaysOfKeys(Prayed) = {k[2] : k \in Prayed}
  BY DEF Prayed, DaysOfKeys
<1>5. stats.phase = "done" =>
        /\ stats.onTime <= stats.total + stats.writes
        /\ stats.streak <= stats.total + stats.writes
  BY DEF LogInv, StatsBounded
<1>6. stats.phase = "done" /\ stats.writes = 0 /\ (\A k \in LogKeys : KnownLog(k)) =>
        /\ stats.total = Cardinality(Meant(PRAYED_STATUSES))
        /\ stats.onTime = Cardinality(Meant({"on_time"}))
        /\ stats.streak = LiveRun({k[2] : k \in Meant(PRAYED_STATUSES)}, LogToday, MaxChunks * ChunkDays)
  BY <1>2, <1>3, <1>4 DEF LogInv, StatsBounded
<1> QED
  BY <1>1, <1>5, <1>6 DEF PrayersCounted

-----------------------------------------------------------------------------
(* PrayerLogs: its steps                                                    *)

LEMMA NoWriteIs == NoWrite \in WriteRow /\ NoWrite.op = "none"
BY DEF NoWrite, WriteRow

\* A entry of the log is written, and /stats counts it.
LEMMA WroteKeeps ==
    ASSUME LogInv, NEW key \in LogKeys, NEW entry \in LogRow, logged' = [logged EXCEPT ![key] = entry], Wrote
    PROVE  logged' \in [LogKeys -> LogRow] /\ stats' \in StatsRow /\ StatsBounded'
<1>1. logged' \in [LogKeys -> LogRow] /\ \A k \in LogKeys : k # key => logged'[k] = logged[k]
  BY DEF LogInv, LogTypeOK
<1>2. stats \in StatsRow /\ stats' = IF stats.phase = "idle" THEN stats ELSE [stats EXCEPT !.writes = @ + 1]
  BY DEF Wrote, LogInv, LogTypeOK
<1>3. stats' \in StatsRow
  BY <1>2 DEF StatsRow
<1>4. Prayed' \in SUBSET LogKeys /\ Prayed' \in SUBSET (Prayed \union {key})
  BY <1>1 DEF Prayed, WithStatus
<1>5. Cardinality(Prayed') <= Cardinality(Prayed) + 1 /\ Cardinality(Prayed') \in Nat /\ Cardinality(Prayed) \in Nat
  <2>1. Prayed \in SUBSET LogKeys /\ IsFiniteSet(Prayed) /\ Cardinality(Prayed) \in Nat /\ Cardinality(Prayed') \in Nat
    BY <1>4, KeysFinite, PrayedIs DEF LogInv
  <2>2. IsFiniteSet(Prayed \union {key}) /\ Cardinality(Prayed \union {key}) <= Cardinality(Prayed) + 1
    BY <2>1, FS_AddElement
  <2>3. Cardinality(Prayed') <= Cardinality(Prayed \union {key}) /\ Cardinality(Prayed \union {key}) \in Nat
    BY <1>4, <2>2, FS_Subset, FS_CardinalityType
  <2> QED
    BY <2>1, <2>2, <2>3
<1>6. ASSUME stats.phase = "idle" PROVE StatsBounded'
  <2>1. stats'.phase = "idle"
    BY <1>2, <1>6
  <2> QED
    BY <2>1 DEF StatsBounded
<1>7. ASSUME stats.phase # "idle" PROVE StatsBounded'
  <2>1. /\ stats'.phase = stats.phase /\ stats'.total = stats.total /\ stats'.onTime = stats.onTime
        /\ stats'.streak = stats.streak /\ stats'.writes = stats.writes + 1
        /\ stats.total \in Nat /\ stats.onTime \in Nat /\ stats.streak \in Nat /\ stats.writes \in Nat
    BY <1>2, <1>7 DEF StatsRow
  <2>2. stats.phase \in {"onTime", "streak"} => Cardinality(Prayed) <= stats.total + stats.writes
    BY DEF LogInv, StatsBounded
  <2>3. /\ stats.phase \in {"streak", "done"} => stats.onTime <= stats.total + stats.writes
        /\ stats.phase = "done" => stats.streak <= stats.total + stats.writes
    BY DEF LogInv, StatsBounded
  <2>4. stats'.writes # 0 /\ stats'.phase # "idle"
    BY <1>7, <2>1
  <2>5. stats'.phase \in {"onTime", "streak"} => Cardinality(Prayed') <= stats'.total + stats'.writes
    BY <1>5, <2>1, <2>2
  <2>6. /\ stats'.phase \in {"streak", "done"} => stats'.onTime <= stats'.total + stats'.writes
        /\ stats'.phase = "done" => stats'.streak <= stats'.total + stats'.writes
    BY <2>1, <2>3
  <2> QED
    BY <2>4, <2>5, <2>6 DEF StatsBounded
<1> QED
  BY <1>1, <1>3, <1>6, <1>7

\* Nothing is written.
LEMMA RestKeeps ==
    ASSUME StatsBounded, UNCHANGED <<logged, stats>>
    PROVE  StatsBounded'
BY DEF StatsBounded, Prayed, OnTime, WithStatus

LEMMA BeginWriteKeeps ==
    ASSUME LogInv, NEW c \in LogCalls, NEW op \in {"log", "find"}, NEW key \in LogKeys,
           NEW said \in Statuses \union {"none"}, NEW id \in Nat, op = "log" => said \in Statuses,
           op = "find" => logged[key] # NoLog /\ logged[key].id = id,
           BeginWrite(c, op, key, said, id)
    PROVE  LogInv'
<1> DEFINE overlaps == \E d \in LogCalls : logCall[d].op # "none" /\ logCall[d].key = key
           entry == [op |-> op, key |-> key, status |-> said, id |-> id, blurred |-> overlaps]
           seen(d) == [logCall[d] EXCEPT !.blurred = @ \/ (logCall[d].op # "none" /\ logCall[d].key = key)]
<1>1. /\ logCall[c].op = "none" /\ logCalls' \in Nat /\ UNCHANGED <<logged, stats, lastLogId, meantLog>>
      /\ logCall' = [d \in LogCalls |-> IF d = c THEN entry ELSE seen(d)]
  BY DEF BeginWrite, LogInv, LogTypeOK
<1>2. entry \in WriteRow /\ entry.op = op /\ entry.key = key /\ entry.status = said /\ entry.id = id
      /\ entry.blurred = overlaps
  BY DEF WriteRow
<1>3. \A d \in LogCalls :
        /\ seen(d) \in WriteRow /\ seen(d).op = logCall[d].op /\ seen(d).key = logCall[d].key
        /\ seen(d).status = logCall[d].status /\ seen(d).id = logCall[d].id
        /\ seen(d).blurred <=> logCall[d].blurred \/ (logCall[d].op # "none" /\ logCall[d].key = key)
  BY DEF LogInv, LogTypeOK, WriteRow
<1>4. /\ logCall'[c] = entry /\ \A d \in LogCalls : d # c => logCall'[d] = seen(d)
      /\ logCall' \in [LogCalls -> WriteRow]
  BY <1>1, <1>2, <1>3
<1>5. \A d \in LogCalls : logCall[d].op # "none" /\ logCall[d].key = key => overlaps
  OBVIOUS
<1> HIDE DEF entry, seen, overlaps
<1>6. LogTypeOK'
  BY <1>1, <1>4 DEF LogInv, LogTypeOK
<1>7. WritesApart'
  <2>1. \A d \in LogCalls : logCall'[d].op # "none" => logCall'[d].key \in LogKeys
    BY <1>2, <1>3, <1>4 DEF LogInv, WritesApart
  <2>2. \A d \in LogCalls : logCall'[d].op \in {"log", "again"} => logCall'[d].status \in Statuses
    BY <1>2, <1>3, <1>4 DEF LogInv, WritesApart
  <2>3. \A d, e \in LogCalls :
          d # e /\ logCall'[d].op # "none" /\ logCall'[e].op # "none" /\ logCall'[d].key = logCall'[e].key
              => logCall'[d].blurred
    BY <1>2, <1>3, <1>4, <1>5 DEF LogInv, WritesApart
  <2>4. \A d \in LogCalls : logCall'[d].op \in {"find", "delete"} /\ ~ logCall'[d].blurred =>
          logged'[logCall'[d].key] # NoLog /\ logged'[logCall'[d].key].id = logCall'[d].id
    BY <1>1, <1>2, <1>3, <1>4 DEF LogInv, WritesApart
  <2> QED
    BY <2>1, <2>2, <2>3, <2>4 DEF WritesApart
<1>8. LoggedAsMeant'
  <2>1. \A k \in LogKeys : KnownLog(k)' => KnownLog(k)
    BY <1>1, <1>3, <1>4 DEF KnownLog
  <2> QED
    BY <1>1, <2>1 DEF LogInv, LoggedAsMeant
<1>9. StatsBounded'
  BY <1>1, RestKeeps DEF LogInv
<1> QED
  BY <1>6, <1>7, <1>8, <1>9 DEF LogInv

\* A write ends: its entry is what it leaves, or it was blurred.
LEMMA EndOfWrite ==
    ASSUME LogInv, NEW c \in LogCalls, logCall[c].op # "none", NEW left \in Statuses \union {"none", "unknown"},
           logCall' = [logCall EXCEPT ![c] = NoWrite], LeaveLog(c, left),
           logged' \in [LogKeys -> LogRow],
           \A k \in LogKeys : k # logCall[c].key => logged'[k] = logged[k],
           ~ logCall[c].blurred /\ left # "unknown" => logged'[logCall[c].key].status = left
    PROVE  /\ logCall' \in [LogCalls -> WriteRow]
           /\ meantLog' \in [LogKeys -> Statuses \union {"none", "unknown"}]
           /\ WritesApart' /\ LoggedAsMeant'
<1> DEFINE key == logCall[c].key
<1>1. key \in LogKeys /\ logCall[c].blurred \in BOOLEAN
  BY DEF LogInv, LogTypeOK, WritesApart, WriteRow
<1>2. /\ logCall' \in [LogCalls -> WriteRow] /\ logCall'[c] = NoWrite
      /\ \A d \in LogCalls : d # c => logCall'[d] = logCall[d]
  BY NoWriteIs DEF LogInv, LogTypeOK
<1>3. /\ meantLog' = [meantLog EXCEPT ![key] = IF logCall[c].blurred THEN "unknown" ELSE left]
      /\ meantLog' \in [LogKeys -> Statuses \union {"none", "unknown"}]
  BY <1>1 DEF LeaveLog, LogInv, LogTypeOK
<1>4. /\ meantLog'[key] = IF logCall[c].blurred THEN "unknown" ELSE left
      /\ \A k \in LogKeys : k # key => meantLog'[k] = meantLog[k]
  BY <1>1, <1>3 DEF LogInv, LogTypeOK
<1>5. WritesApart'
  <2>1. \A d \in LogCalls : d # c /\ logCall[d].op \in {"find", "delete"} /\ ~ logCall[d].blurred => logCall[d].key # key
    BY DEF LogInv, WritesApart
  <2>2. \A d \in LogCalls : logCall'[d].op \in {"find", "delete"} /\ ~ logCall'[d].blurred =>
          logged'[logCall'[d].key] # NoLog /\ logged'[logCall'[d].key].id = logCall'[d].id
    <3> SUFFICES ASSUME NEW d \in LogCalls, logCall'[d].op \in {"find", "delete"}, ~ logCall'[d].blurred
                 PROVE  logged'[logCall'[d].key] # NoLog /\ logged'[logCall'[d].key].id = logCall'[d].id
      OBVIOUS
    <3>1. d # c /\ logCall'[d] = logCall[d]
      BY <1>2, NoWriteIs
    <3>2. logCall[d].key \in LogKeys /\ logCall[d].key # key
      BY <2>1, <3>1 DEF LogInv, WritesApart
    <3>3. logged'[logCall[d].key] = logged[logCall[d].key]
      BY <3>2
    <3> QED
      BY <3>1, <3>3 DEF LogInv, WritesApart
  <2>3. \A d \in LogCalls : logCall'[d].op # "none" => logCall'[d].key \in LogKeys
    BY <1>2, NoWriteIs DEF LogInv, WritesApart
  <2>4. \A d \in LogCalls : logCall'[d].op \in {"log", "again"} => logCall'[d].status \in Statuses
    BY <1>2, NoWriteIs DEF LogInv, WritesApart
  <2>5. \A d, e \in LogCalls :
          d # e /\ logCall'[d].op # "none" /\ logCall'[e].op # "none" /\ logCall'[d].key = logCall'[e].key
              => logCall'[d].blurred
    BY <1>2, NoWriteIs DEF LogInv, WritesApart
  <2> QED
    BY <2>2, <2>3, <2>4, <2>5 DEF WritesApart
<1>6. LoggedAsMeant'
  <2> SUFFICES ASSUME NEW k \in LogKeys, KnownLog(k)' PROVE logged'[k].status = meantLog'[k]
    BY DEF LoggedAsMeant
  <2>1. CASE k = key
    <3>1. meantLog'[key] # "unknown"
      BY <2>1 DEF KnownLog
    <3> QED
      BY <1>4, <2>1, <3>1
  <2>2. CASE k # key
    <3>1. KnownLog(k)
      BY <1>2, <1>4, <2>2 DEF KnownLog
    <3> QED
      BY <1>4, <2>2, <3>1 DEF LogInv, LoggedAsMeant
  <2> QED
    BY <2>1, <2>2
<1> QED
  BY <1>2, <1>3, <1>5, <1>6

LEMMA LogPrayerKeeps ==
    ASSUME LogInv, NEW c \in LogCalls, LogPrayer(c)
    PROVE  LogInv'
<1> DEFINE key == logCall[c].key
           new == logged[key] = NoLog
           entry == [status |-> logCall[c].status, id |-> IF new THEN lastLogId + 1 ELSE logged[key].id]
<1>1. /\ logCall[c] \in WriteRow /\ key \in LogKeys /\ logCall[c].status \in Statuses
      /\ logCall[c].op \in {"log", "again"} /\ lastLogId \in Nat
  BY DEF LogPrayer, LogInv, LogTypeOK, WritesApart
<1>2. /\ logged' = [logged EXCEPT ![key] = entry] /\ Wrote /\ logCalls' \in Nat /\ lastLogId' \in Nat
  BY <1>1 DEF LogPrayer, LogInv, LogTypeOK
<1>3. entry \in LogRow /\ entry.status = logCall[c].status
  <2>1. logged[key] \in LogRow
    BY <1>1 DEF LogInv, LogTypeOK
  <2>2. ~ new => logged[key].id \in Nat \ {0}
    BY <2>1, StatusOf
  <2>3. entry.id \in Nat \ {0}
    BY <1>1, <2>2
  <2> QED
    BY <1>1, <2>3 DEF LogRow
<1> HIDE DEF entry
<1>4. logged' \in [LogKeys -> LogRow] /\ stats' \in StatsRow /\ StatsBounded'
  BY <1>1, <1>2, <1>3, WroteKeeps
<1>5. logged'[key] = entry /\ \A k \in LogKeys : k # key => logged'[k] = logged[k]
  BY <1>1, <1>2 DEF LogInv, LogTypeOK
<1>6. CASE logCall' = [logCall EXCEPT ![c] = NoWrite] /\ LeaveLog(c, logCall[c].status)
  <2>1. logCall[c].op # "none" /\ logCall[c].status \in Statuses \union {"none", "unknown"}
    BY <1>1
  <2>2. logged'[logCall[c].key].status = logCall[c].status
    BY <1>3, <1>5
  <2>3. \A k \in LogKeys : k # logCall[c].key => logged'[k] = logged[k]
    BY <1>5
  <2>4. /\ logCall' \in [LogCalls -> WriteRow]
        /\ meantLog' \in [LogKeys -> Statuses \union {"none", "unknown"}]
        /\ WritesApart' /\ LoggedAsMeant'
    BY <1>4, <1>6, <2>1, <2>2, <2>3, EndOfWrite
  <2> QED
    BY <1>2, <1>4, <2>4 DEF LogInv, LogTypeOK
<1>7. CASE logCall[c].op = "log" /\ logCall' = [logCall EXCEPT ![c].op = "again"] /\ UNCHANGED meantLog
  <2>1. /\ logCall'[c] = [logCall[c] EXCEPT !.op = "again"]
        /\ \A d \in LogCalls : d # c => logCall'[d] = logCall[d]
        /\ DOMAIN logCall' = LogCalls /\ logCall' = [d \in LogCalls |-> logCall'[d]]
    BY <1>7 DEF LogInv, LogTypeOK
  <2>2. /\ logCall'[c] \in WriteRow /\ logCall'[c].op = "again" /\ logCall'[c].key = key
        /\ logCall'[c].status = logCall[c].status /\ logCall'[c].blurred = logCall[c].blurred
    BY <1>1, <2>1 DEF WriteRow
  <2>3. logCall' \in [LogCalls -> WriteRow]
    BY <2>1, <2>2 DEF LogInv, LogTypeOK
  <2>6. \A d \in LogCalls :
          /\ logCall'[d].op = logCall[d].op \/ (d = c /\ logCall[d].op = "log" /\ logCall'[d].op = "again")
          /\ logCall'[d].key = logCall[d].key /\ logCall'[d].blurred = logCall[d].blurred
    BY <1>7, <2>1, <2>2
  <2>4. WritesApart'
    <3>1. \A d \in LogCalls : logCall'[d].op # "none" => logCall'[d].key \in LogKeys
      BY <2>6 DEF LogInv, WritesApart
    <3>2. \A d \in LogCalls : logCall'[d].op \in {"log", "again"} => logCall'[d].status \in Statuses
      BY <1>1, <2>1, <2>2 DEF LogInv, WritesApart
    <3>3. \A d, e \in LogCalls :
            d # e /\ logCall'[d].op # "none" /\ logCall'[e].op # "none" /\ logCall'[d].key = logCall'[e].key
                => logCall'[d].blurred
      BY <2>6 DEF LogInv, WritesApart
    <3>4. \A d \in LogCalls : logCall'[d].op \in {"find", "delete"} /\ ~ logCall'[d].blurred =>
            logged'[logCall'[d].key] # NoLog /\ logged'[logCall'[d].key].id = logCall'[d].id
      <4> SUFFICES ASSUME NEW d \in LogCalls, logCall'[d].op \in {"find", "delete"}, ~ logCall'[d].blurred
                   PROVE  logged'[logCall'[d].key] # NoLog /\ logged'[logCall'[d].key].id = logCall'[d].id
        OBVIOUS
      <4>1. d # c /\ logCall'[d] = logCall[d]
        BY <2>1, <2>2
      <4>2. logCall[d].key # key /\ logCall[d].key \in LogKeys
        BY <1>1, <4>1 DEF LogInv, WritesApart
      <4> QED
        BY <1>5, <4>1, <4>2 DEF LogInv, WritesApart
    <3> QED
      BY <3>1, <3>2, <3>3, <3>4 DEF WritesApart
  <2>5. LoggedAsMeant'
    <3> SUFFICES ASSUME NEW k \in LogKeys, KnownLog(k)' PROVE logged'[k].status = meantLog'[k]
      BY DEF LoggedAsMeant
    <3>1. k # key
      BY <2>2 DEF KnownLog
    <3>2. KnownLog(k)
      BY <1>7, <2>1, <3>1 DEF KnownLog
    <3> QED
      BY <1>5, <1>7, <3>1, <3>2 DEF LogInv, LoggedAsMeant
  <2> QED
    BY <1>2, <1>4, <1>7, <2>3, <2>4, <2>5 DEF LogInv, LogTypeOK
<1> QED
  BY <1>6, <1>7 DEF LogPrayer

LEMMA FindLogKeeps ==
    ASSUME LogInv, NEW c \in LogCalls, FindLog(c)
    PROVE  LogInv'
<1> DEFINE key == logCall[c].key
<1>1. /\ logCall[c] \in WriteRow /\ key \in LogKeys /\ logCall[c].op = "find"
      /\ UNCHANGED <<logged, stats, logCalls, lastLogId>>
  BY DEF FindLog, LogInv, LogTypeOK, WritesApart
<1>2. StatsBounded'
  BY <1>1, RestKeeps DEF LogInv
<1>3. CASE logged[key].id = logCall[c].id
  <2>1. logCall' = [logCall EXCEPT ![c].op = "delete"] /\ meantLog' = meantLog
    BY <1>3 DEF FindLog
  <2>2. /\ logCall'[c] = [logCall[c] EXCEPT !.op = "delete"]
        /\ \A d \in LogCalls : d # c => logCall'[d] = logCall[d]
        /\ logCall' = [d \in LogCalls |-> logCall'[d]]
    BY <2>1 DEF LogInv, LogTypeOK
  <2>3. /\ logCall'[c] \in WriteRow /\ logCall'[c].op = "delete" /\ logCall'[c].key = key
        /\ logCall'[c].id = logCall[c].id /\ logCall'[c].blurred = logCall[c].blurred
    BY <1>1, <2>2 DEF WriteRow
  <2>4. logCall' \in [LogCalls -> WriteRow]
    BY <2>2, <2>3 DEF LogInv, LogTypeOK
  <2>7. \A d \in LogCalls :
          /\ logCall'[d].op = logCall[d].op \/ (d = c /\ logCall[d].op = "find" /\ logCall'[d].op = "delete")
          /\ logCall'[d].key = logCall[d].key /\ logCall'[d].blurred = logCall[d].blurred
          /\ logCall'[d].id = logCall[d].id
    BY <1>1, <2>2, <2>3
  <2>5. WritesApart'
    <3>1. \A d \in LogCalls : logCall'[d].op # "none" => logCall'[d].key \in LogKeys
      BY <2>7 DEF LogInv, WritesApart
    <3>2. \A d \in LogCalls : logCall'[d].op \in {"log", "again"} => logCall'[d].status \in Statuses
      BY <2>2, <2>3 DEF LogInv, WritesApart
    <3>3. \A d, e \in LogCalls :
            d # e /\ logCall'[d].op # "none" /\ logCall'[e].op # "none" /\ logCall'[d].key = logCall'[e].key
                => logCall'[d].blurred
      BY <2>7 DEF LogInv, WritesApart
    <3>4. \A d \in LogCalls : logCall'[d].op \in {"find", "delete"} /\ ~ logCall'[d].blurred =>
            logged'[logCall'[d].key] # NoLog /\ logged'[logCall'[d].key].id = logCall'[d].id
      BY <1>1, <2>7 DEF LogInv, WritesApart
    <3> QED
      BY <3>1, <3>2, <3>3, <3>4 DEF WritesApart
  <2>6. LoggedAsMeant'
    <3>1. \A k \in LogKeys : KnownLog(k)' => KnownLog(k)
      BY <1>1, <2>1, <2>2, <2>3 DEF KnownLog
    <3> QED
      BY <1>1, <2>1, <3>1 DEF LogInv, LoggedAsMeant
  <2> QED
    BY <1>1, <1>2, <2>1, <2>4, <2>5, <2>6 DEF LogInv, LogTypeOK
<1>4. CASE logged[key].id # logCall[c].id
  <2>1. /\ logCall' = [logCall EXCEPT ![c] = NoWrite] /\ LeaveLog(c, meantLog[key])
        /\ meantLog[key] \in Statuses \union {"none", "unknown"} /\ logCall[c].op # "none"
    BY <1>1, <1>4 DEF FindLog, LogInv, LogTypeOK
  <2>2. logCall[c].blurred
    BY <1>1, <1>4 DEF LogInv, WritesApart
  <2>3. logged' \in [LogKeys -> LogRow] /\ \A k \in LogKeys : k # logCall[c].key => logged'[k] = logged[k]
    BY <1>1 DEF LogInv, LogTypeOK
  <2>4. /\ logCall' \in [LogCalls -> WriteRow]
        /\ meantLog' \in [LogKeys -> Statuses \union {"none", "unknown"}]
        /\ WritesApart' /\ LoggedAsMeant'
    BY <2>1, <2>2, <2>3, EndOfWrite
  <2> QED
    BY <1>1, <1>2, <2>4 DEF LogInv, LogTypeOK
<1> QED
  BY <1>3, <1>4

LEMMA DeleteLogKeeps ==
    ASSUME LogInv, NEW c \in LogCalls, DeleteLog(c)
    PROVE  LogInv'
<1> DEFINE key == logCall[c].key
<1>1. /\ key \in LogKeys /\ logCall[c].op = "delete" /\ "none" \in Statuses \union {"none", "unknown"}
      /\ logCall' = [logCall EXCEPT ![c] = NoWrite] /\ LeaveLog(c, "none")
      /\ UNCHANGED <<logCalls, lastLogId>>
  BY DEF DeleteLog, LogInv, WritesApart
<1>2. NoLog \in LogRow /\ NoLog.status = "none"
  BY DEF LogRow, NoLog
<1>3. /\ logged' \in [LogKeys -> LogRow] /\ stats' \in StatsRow /\ StatsBounded'
      /\ \A k \in LogKeys : k # key => logged'[k] = logged[k]
      /\ ~ logCall[c].blurred => logged'[key].status = "none"
  <2>1. CASE logged[key].id = logCall[c].id
    <3>1. logged' = [logged EXCEPT ![key] = NoLog] /\ Wrote
      BY <2>1 DEF DeleteLog
    <3>2. logged' \in [LogKeys -> LogRow] /\ stats' \in StatsRow /\ StatsBounded'
      BY <1>1, <1>2, <3>1, WroteKeeps
    <3>3. logged'[key] = NoLog /\ \A k \in LogKeys : k # key => logged'[k] = logged[k]
      BY <1>1, <3>1 DEF LogInv, LogTypeOK
    <3> QED
      BY <1>2, <3>2, <3>3
  <2>2. CASE logged[key].id # logCall[c].id
    <3>1. UNCHANGED <<logged, stats>>
      BY <2>2 DEF DeleteLog
    <3>2. StatsBounded'
      BY <3>1, RestKeeps DEF LogInv
    <3>3. logCall[c].blurred
      BY <1>1, <2>2 DEF LogInv, WritesApart
    <3> QED
      BY <3>1, <3>2, <3>3 DEF LogInv, LogTypeOK
  <2> QED
    BY <2>1, <2>2
<1>4. /\ logCall' \in [LogCalls -> WriteRow]
      /\ meantLog' \in [LogKeys -> Statuses \union {"none", "unknown"}]
      /\ WritesApart' /\ LoggedAsMeant'
  <2>1. logCall[c].op # "none"
    BY <1>1
  <2>2. ~ logCall[c].blurred /\ "none" # "unknown" => logged'[logCall[c].key].status = "none"
    BY <1>3
  <2>3. \A k \in LogKeys : k # logCall[c].key => logged'[k] = logged[k]
    BY <1>3
  <2> QED
    BY <1>1, <1>3, <2>1, <2>2, <2>3, EndOfWrite
<1> QED
  BY <1>1, <1>3, <1>4 DEF LogInv, LogTypeOK

\* The queries of /stats: what each finds is bounded by what the first found and
\* what was written since.
LEMMA StatsKeep ==
    ASSUME LogInv, CountTotal \/ CountOnTime \/ ReadStreak
    PROVE  LogInv'
<1>1. /\ UNCHANGED <<logged, logCall, lastLogId, meantLog>> /\ logCalls' \in Nat
  BY DEF CountTotal, CountOnTime, ReadStreak, LogInv, LogTypeOK
<1>2. /\ Cardinality(Prayed) \in Nat /\ Cardinality(OnTime) \in Nat /\ Cardinality(OnTime) <= Cardinality(Prayed)
      /\ PrayerStreak(DaysOfKeys(Prayed), LogToday) \in Nat
      /\ PrayerStreak(DaysOfKeys(Prayed), LogToday) <= Cardinality(Prayed)
  BY PrayedIs DEF LogInv
<1>3. /\ Prayed' = Prayed /\ OnTime' = OnTime
  BY <1>1 DEF Prayed, OnTime, WithStatus
<1>4. stats \in StatsRow
  BY DEF LogInv, LogTypeOK
<1>5. ASSUME CountTotal PROVE stats' \in StatsRow /\ StatsBounded'
  <2>1. stats' = [NoStats EXCEPT !.phase = "onTime", !.total = Cardinality(Prayed)]
    BY <1>5 DEF CountTotal, Prayed
  <2>2. stats'.phase = "onTime" /\ stats'.total = Cardinality(Prayed) /\ stats'.writes = 0 /\ stats' \in StatsRow
    BY <1>2, <2>1 DEF NoStats, StatsRow
  <2> QED
    BY <1>2, <1>3, <2>2 DEF StatsBounded
<1>6. ASSUME CountOnTime PROVE stats' \in StatsRow /\ StatsBounded'
  <2>1. stats' = [stats EXCEPT !.phase = "streak", !.onTime = Cardinality(OnTime)] /\ stats.phase = "onTime"
    BY <1>6 DEF CountOnTime, OnTime
  <2>2. /\ stats'.phase = "streak" /\ stats'.total = stats.total /\ stats'.onTime = Cardinality(OnTime)
        /\ stats'.writes = stats.writes /\ stats' \in StatsRow /\ stats.total \in Nat /\ stats.writes \in Nat
    BY <1>2, <1>4, <2>1 DEF StatsRow
  <2>3. /\ Cardinality(Prayed) <= stats.total + stats.writes
        /\ stats.writes = 0 => stats.total = Cardinality(Prayed)
    BY <2>1 DEF LogInv, StatsBounded
  <2>4. Cardinality(OnTime) <= stats.total + stats.writes
    BY <1>2, <2>2, <2>3
  <2> QED
    BY <1>3, <2>2, <2>3, <2>4 DEF StatsBounded
<1>7. ASSUME ReadStreak PROVE stats' \in StatsRow /\ StatsBounded'
  <2>1. /\ stats' = [stats EXCEPT !.phase = "done", !.streak = PrayerStreak(DaysOfKeys(Prayed), LogToday)]
        /\ stats.phase = "streak"
    BY <1>7 DEF ReadStreak, Prayed, DaysOfKeys
  <2>2. /\ stats'.phase = "done" /\ stats'.total = stats.total /\ stats'.onTime = stats.onTime
        /\ stats'.streak = PrayerStreak(DaysOfKeys(Prayed), LogToday)
        /\ stats'.writes = stats.writes /\ stats' \in StatsRow /\ stats.total \in Nat /\ stats.writes \in Nat
    BY <1>2, <1>4, <2>1 DEF StatsRow
  <2>3. /\ Cardinality(Prayed) <= stats.total + stats.writes /\ stats.onTime <= stats.total + stats.writes
        /\ stats.writes = 0 => stats.total = Cardinality(Prayed) /\ stats.onTime = Cardinality(OnTime)
    BY <2>1 DEF LogInv, StatsBounded
  <2>4. PrayerStreak(DaysOfKeys(Prayed), LogToday) <= stats.total + stats.writes
    BY <1>2, <2>2, <2>3
  <2>5. DaysOfKeys(Prayed)' = DaysOfKeys(Prayed)
    BY <1>3 DEF DaysOfKeys
  <2> QED
    BY <1>3, <2>2, <2>3, <2>4, <2>5 DEF StatsBounded
<1>8. stats' \in StatsRow /\ StatsBounded'
  BY <1>5, <1>6, <1>7
<1> QED
  BY <1>1, <1>8 DEF LogInv, LogTypeOK, WritesApart, LoggedAsMeant, KnownLog

LEMMA LogInvNext == LogInv /\ [LogNext]_logVars => LogInv'
<1> SUFFICES ASSUME LogInv, [LogNext]_logVars PROVE LogInv'
  OBVIOUS
<1>1. ASSUME NEW c \in LogCalls, NEW key \in LogKeys, NEW said \in Statuses, AskLog(c, key, said)
      PROVE  LogInv'
  BY <1>1, BeginWriteKeeps DEF AskLog
<1>2. ASSUME NEW c \in LogCalls, NEW key \in LogKeys, AskDelete(c, key) PROVE LogInv'
  <2>1. logged[key] \in LogRow /\ logged[key].id \in Nat
    BY StatusOf DEF LogInv, LogTypeOK
  <2> QED
    BY <1>2, <2>1, BeginWriteKeeps DEF AskDelete
<1>3. CASE UNCHANGED logVars
  BY <1>3, RestKeeps DEF logVars, LogInv, LogTypeOK, WritesApart, LoggedAsMeant, KnownLog
<1> QED
  BY <1>1, <1>2, <1>3, LogPrayerKeeps, FindLogKeeps, DeleteLogKeeps, StatsKeep DEF LogNext

-----------------------------------------------------------------------------
(* PracticeStreaks on the days of StreakLedger                              *)

LEMMA StreaksAreLive == DaysOK => StreaksAgree
<1> SUFFICES ASSUME DaysOK PROVE StreaksAgree
  OBVIOUS
<1>1. /\ today \in Nat /\ today \in Int /\ 0 \in Int
      /\ met \in SUBSET Nat /\ met \in SUBSET Int /\ met \in SUBSET (0 .. today)
  BY DEF DaysOK
<1>2. ASSUME NEW day \in {d \in {today - 1, today} : d >= 0}
      PROVE  /\ PrayerStreak(met, day) = LiveRun(met, day, MaxChunks * ChunkDays)
             /\ day \in met => PujaCurrent(met, day) = LiveRun(met, day, YearDays)
  <2>1. day \in Int
    BY <1>1
  <2> QED
    BY <1>1, <2>1, PrayerIsLive, PujaIsLive
<1>3. /\ DhikrCurrent(met, today) = LiveRun(met, today, today + 1)
      /\ JapaCurrent(met, today) = LiveRun(met, today, YearDays)
  BY <1>1, DhikrIsLive, JapaIsLive
<1>4. DhikrLongest(met) = LongestRun(met) /\ ScanLongest(met) = LongestRun(met)
  BY <1>1, DhikrIsLongest, ScanIsLongest
<1> QED
  BY <1>2, <1>3, <1>4 DEF StreaksAgree

-----------------------------------------------------------------------------
(* The parts together                                                       *)

\* A step of any part is one of these, or leaves them alone.
LEMMA PartsStep ==
    [PartNext]_partVars =>
        /\ [RecordNext]_recordVars /\ [DeviceNext]_deviceVars /\ [AccessNext]_accessVars
        /\ [TallyNext]_tallyVars /\ [LogNext]_logVars /\ [Next]_vars
        /\ [FavouriteNext]_favouriteVars /\ [ReaderNext]_readerVars /\ [JuzNext]_juzVars
        /\ [GateNext]_gateVars /\ [FeelingsNext]_feelingsVars /\ [NumberNext]_numberVars /\ [VerseNext]_verseVars
        /\ [HijriNext]_hijriVars /\ [PanchangNext]_panchangVars
<1>1. UNCHANGED partVars =>
        /\ UNCHANGED recordVars /\ UNCHANGED deviceVars /\ UNCHANGED accessVars
        /\ UNCHANGED tallyVars /\ UNCHANGED logVars /\ UNCHANGED vars
        /\ UNCHANGED favouriteVars /\ UNCHANGED readerVars /\ UNCHANGED juzVars
        /\ UNCHANGED gateVars /\ UNCHANGED feelingsVars /\ UNCHANGED numberVars /\ UNCHANGED verseVars
        /\ UNCHANGED hijriVars /\ UNCHANGED panchangVars
  BY DEF partVars, libraryVars
<1>2. \A this : OnlyPart(this) =>
        /\ this = "records" \/ UNCHANGED recordVars
        /\ this = "devices" \/ UNCHANGED deviceVars
        /\ this = "roles" \/ UNCHANGED accessVars
        /\ this = "tallies" \/ UNCHANGED tallyVars
        /\ this = "prayers" \/ UNCHANGED logVars
        /\ this = "streaks" \/ UNCHANGED vars
        /\ this = "favourites" \/ UNCHANGED favouriteVars
        /\ this = "readers" \/ UNCHANGED readerVars
        /\ this = "juz" \/ UNCHANGED juzVars
        /\ this = "citations" \/ UNCHANGED gateVars
        /\ this = "feelings" \/ UNCHANGED feelingsVars
        /\ this = "numbers" \/ UNCHANGED numberVars
        /\ this = "verses" \/ UNCHANGED verseVars
        /\ this = "hijri" \/ UNCHANGED hijriVars
        /\ this = "panchang" \/ UNCHANGED panchangVars
  BY Zenon DEF OnlyPart, LibraryRests
<1>3. PartNext =>
        /\ RecordNext \/ UNCHANGED recordVars
        /\ DeviceNext \/ UNCHANGED deviceVars
        /\ AccessNext \/ UNCHANGED accessVars
        /\ TallyNext \/ UNCHANGED tallyVars
        /\ LogNext \/ UNCHANGED logVars
        /\ Next \/ UNCHANGED vars
        /\ FavouriteNext \/ UNCHANGED favouriteVars
        /\ ReaderNext \/ UNCHANGED readerVars
        /\ JuzNext \/ UNCHANGED juzVars
        /\ GateNext \/ UNCHANGED gateVars
        /\ FeelingsNext \/ UNCHANGED feelingsVars
        /\ NumberNext \/ UNCHANGED numberVars
        /\ VerseNext \/ UNCHANGED verseVars
        /\ HijriNext \/ UNCHANGED hijriVars
        /\ PanchangNext \/ UNCHANGED panchangVars
  BY <1>2 DEF PartNext
<1> QED
  BY <1>1, <1>3

\* Whatever requests overlap and die, for any switches, phones, roles and
\* permissions: the settings are those set last, up to a switch that an overlapping
\* merge may have put back (preferences.service.ts:86); pushes go where their owner
\* wants them (device-token.service.ts); a token opens what its owner held within
\* its life, and a role has the permissions of one assignment (roles.service.ts).
THEOREM AccountsHold == PartSpec => []AccountHolds
<1> DEFINE AccountInv == RecordInv /\ DeviceInv /\ AccessInv
<1>1. PartInit => AccountInv
  BY RecordInvInit, DeviceInvInit, AccessInvInit DEF PartInit
<1>2. AccountInv /\ [PartNext]_partVars => AccountInv'
  BY PartsStep, RecordInvNext, DeviceInvNext, AccessInvNext
<1>3. AccountInv => AccountHolds
  BY DeviceInvPushes, AccessInvFollows DEF RecordInv, AccountHolds
<1> QED
  BY <1>1, <1>2, <1>3, PTL DEF PartSpec

\* Whatever taps overlap, are sent again and die, a counter is the sum of its
\* history but for what setting it added (dhikr.service.ts, japa-counter.service.ts);
\* the numbers of /stats agree but for what was written while it read, and the log
\* is what its user said last (prayers.service.ts:95-247), for any days, windows of
\* two days or more, prayers and requests.
THEOREM PracticesCounted == PartSpec => []PracticesAddUp
<1> DEFINE PracticeInv == TallyInv /\ LogInv
<1>1. PartInit => PracticeInv
  BY TallyInvInit, LogInvInit DEF PartInit
<1>2. PracticeInv /\ [PartNext]_partVars => PracticeInv'
  BY PartsStep, TallyInvNext, LogInvNext
<1>3. PracticeInv => PracticesAddUp
  BY TallyInvAddsUp, LogInvCounted DEF PracticesAddUp
<1> QED
  BY <1>1, <1>2, <1>3, PTL DEF PartSpec

\* Whatever days were met, in whatever order: the streaks that prayers, dhikr,
\* japa and puja each compute in their own way are one and the same, as far as
\* each looks back; puja's is none on a day without a log
\* (prayers.service.ts:205-247, dhikr.service.ts:257-297,
\* japa-history.service.ts:34-66, puja-log.service.ts:58-90).
THEOREM StreaksAreOne == PartSpec => []StreaksAgree
<1>1. PartInit => LedgerInv
  BY LedgerInvInit DEF PartInit
<1>2. LedgerInv /\ [PartNext]_partVars => LedgerInv'
  BY PartsStep, LedgerInvNext
<1>3. LedgerInv => StreaksAgree
  BY StreaksAreLive DEF LedgerInv
<1> QED
  BY <1>1, <1>2, <1>3, PTL DEF PartSpec

\* Whatever is seeded, paged, marked and taken back at once, in any order, for any
\* books, scripts, page sizes and tables of favourites: `next' of a verse leads on
\* and `prev' leads back; pages show each row of a book once and nothing that has
\* to be paid for; the hadith of the day is there while a row is; and a mark is what
\* its user wished last (quran.service.ts, hadiths.service.ts and the services of
\* the favourites).
THEOREM LibraryIsServed == PartSpec => []LibraryServes
<1> DEFINE LibraryInv == ReadersInv /\ HeartInv
<1>1. PartInit => LibraryInv
  BY ReadersInvInit, HeartInvInit DEF PartInit, LibraryInit
<1>2. LibraryInv /\ [PartNext]_partVars => LibraryInv'
  BY PartsStep, ReadersInvNext, HeartInvNext
<1>3. LibraryInv => LibraryServes
  BY ReadersInvServes, HeartInvServes DEF LibraryServes
<1> QED
  BY <1>1, <1>2, <1>3, PTL DEF PartSpec

\* Whatever is seeded and cached meanwhile, for any mushaf, any division of it and any
\* page size: with all verses there and counted, the pages of a juz show each verse of
\* it once, in order, as many as are announced; and each verse is of one juz
\* (juz.service.ts).
THEOREM JuzIsWhole == PartSpec => []JuzWhole
<1>1. PartInit => JuzInv
  BY JuzInvInit DEF PartInit
<1>2. JuzInv /\ [PartNext]_partVars => JuzInv'
  BY PartsStep, JuzInvNext
<1> QED
  BY <1>1, <1>2, JuzInvWhole, PTL DEF PartSpec

\* Whatever is seeded, migrated and killed while the scripts that keep the content
\* run, for any edition, fixtures, remedies, items and verses: a collection that its
\* gate passes is whole and cited from what there is, a remedy that passes says what
\* its source says and one that fails is past its source's end
\* (verify-collection-citations.ts, verify-feelings-citations.ts); a book has the
\* numbers of all its hadiths or of none that it had before, and the gate's fixtures
\* are served under their numbers (backfill-hadith-numbers.ts,
\* verify-hadith-content.ts); and the index of the verses is there only without
\* duplicates, and after a survey that found none (prepare-verse-index.ts).
THEOREM GatesAreSound == PartSpec => []GatesSound
<1> DEFINE GatesInv == CitationInv /\ FeelingsInv /\ NumbersInv /\ VerseInv
<1>1. PartInit => GatesInv
  BY CitationInvInit, FeelingsInvInit, NumbersInvInit, VerseInvInit DEF PartInit, LibraryInit
<1>2. GatesInv /\ [PartNext]_partVars => GatesInv'
  BY PartsStep, CitationInvNext, FeelingsInvNext, NumbersInvNext, VerseInvNext
<1>3. GatesInv => GatesSound
  BY CitationInvSound, FeelingsInvSound, NumbersInvWhole DEF GatesSound, VerseInv
<1> QED
  BY <1>1, <1>2, <1>3, PTL DEF PartSpec

\* Whatever the Hijri calendar is asked, in whatever order of requests and ticks, for
\* any zones, adjustments, table of months and lives of the cache: an answer has the
\* days of the request's own adjustment, all those of a month, and none older than a
\* cached answer may be, and on the fallback civil days and Hijri dates follow one
\* another from any first date (calendar.service.ts).  And for any lunar months and any
\* sky over them: a festival is kept in one stretch of days, of its rule's tithi, and
\* one date, its month and the days to come tell the same festivals; and on a day
\* longer than two hours one sandhya at most is due (panchang.service.ts,
\* festival-rule.service.ts, puja-times.service.ts).
THEOREM CalendarsAreOne == PartSpec => []CalendarsAgree
<1> DEFINE CalendarInv == HijriInv /\ SkyInv
<1>1. PartInit => CalendarInv
  BY HijriInvInit, SkyInvInit DEF PartInit, LibraryInit
<1>2. CalendarInv /\ [PartNext]_partVars => CalendarInv'
  BY PartsStep, HijriInvNext, SkyInvNext
<1>3. CalendarInv => CalendarsAgree
  BY FallbackIsConsecutive, PanchangDoes DEF CalendarsAgree, HijriInv
<1> QED
  BY <1>1, <1>2, <1>3, PTL DEF PartSpec
=============================================================================
