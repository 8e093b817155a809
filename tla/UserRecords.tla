----------------------------- MODULE UserRecords -----------------------------
(***************************************************************************)
(* What a user stores about herself: the name (users), the bio              *)
(* (user_profiles), the language and the notification switches, one JSON    *)
(* object (user_preferences): profile.service.ts and preferences.service.ts.*)
(* A job is a request, one action per statement; jobs overlap and die.      *)
(* Below, the devices that her notifications go to, device-token.service.ts:*)
(* the two share no state.                                                  *)
(***************************************************************************)
EXTENDS Naturals, FiniteSets

CONSTANTS
    Jobs,           \* requests that can be under way at once
    Switches,       \* keys of notificationPreferences
    MaxJobs         \* bound: requests; the k-th writes the value k

ASSUME RecordAssumption == MaxJobs \in Nat

VARIABLES
    name,           \* users: firstName
    profile,        \* user_profiles: the row, and its bio
    language, push, \* user_preferences: language, notificationPreferences
    job, started,
    \* ghosts: the value of the request that wrote the bio, and each switch, last;
    \* switches an overlapping request may have put back
    meant, putBack

recordVars == <<name, profile, language, push, job, started, meant, putBack>>

NoJob == [op |-> "none", phase |-> "idle", value |-> 0, of |-> {}, read |-> <<>>]

\* register has written the preferences; there is no profile yet.  0 is what
\* register, or a default, has left.
RecordInit ==
    /\ name = 0 /\ profile = [exists |-> FALSE, bio |-> 0]
    /\ language = 0 /\ push = [k \in Switches |-> 0]
    /\ job = [j \in Jobs |-> NoJob] /\ started = 0
    /\ meant = [bio |-> 0, push |-> [k \in Switches |-> 0]]
    /\ putBack = {}

Is(j, op, phase) == job[j].op = op /\ job[j].phase = phase
OnTo(j, phase) == job' = [job EXCEPT ![j].phase = phase]
Done(j) == job' = [job EXCEPT ![j] = NoJob]

\* A request that sets the fields `of' to a value of its own.
Ask(j, op, phase, of) ==
    /\ job[j].phase = "idle" /\ started < MaxJobs
    /\ started' = started + 1
    /\ job' = [job EXCEPT ![j] = [NoJob EXCEPT !.op = op, !.phase = phase,
                                               !.value = started + 1, !.of = of]]

-----------------------------------------------------------------------------
(* The profile                                                              *)

\* getProfile, updateProfile and createProfile look for the row first.
ReadProfile(j) ==
    /\ \/ \E of \in SUBSET {"bio", "name"} :
            Ask(j, "put_profile", IF profile.exists THEN "update" ELSE "create", of)
       \/ ~ profile.exists /\ Ask(j, "post_profile", "name", {"bio", "name"})
       \/ ~ profile.exists /\ Ask(j, "get_profile", "create", {})
    /\ UNCHANGED <<name, profile, language, push, meant, putBack>>

\* Faulty variant: the row is written over, as an upsert would.
CreateProfile_Overwrites(j) ==
    /\ job[j].phase = "create"
    /\ profile' = [exists |-> TRUE, bio |-> IF "bio" \in job[j].of THEN job[j].value ELSE 0]
    /\ meant' = [meant EXCEPT !.bio = IF "bio" \in job[j].of THEN job[j].value ELSE @]
    /\ IF job[j].op = "put_profile" /\ "name" \in job[j].of THEN OnTo(j, "name") ELSE Done(j)
    /\ UNCHANGED <<name, language, push, started, putBack>>

\* A create that meets a row throws, userId being unique.
CreateProfile(j) ==
    /\ job[j].phase = "create"
    /\ IF profile.exists
       THEN Done(j) /\ UNCHANGED <<profile, meant>>
       ELSE /\ profile' = [exists |-> TRUE, bio |-> IF "bio" \in job[j].of THEN job[j].value ELSE 0]
            /\ meant' = [meant EXCEPT !.bio = IF "bio" \in job[j].of THEN job[j].value ELSE @]
            /\ IF job[j].op = "put_profile" /\ "name" \in job[j].of THEN OnTo(j, "name") ELSE Done(j)
    /\ UNCHANGED <<name, language, push, started, putBack>>

UpdateProfile(j) ==
    /\ Is(j, "put_profile", "update")
    /\ profile' = [profile EXCEPT !.bio = IF "bio" \in job[j].of THEN job[j].value ELSE @]
    /\ meant' = [meant EXCEPT !.bio = IF "bio" \in job[j].of THEN job[j].value ELSE @]
    /\ IF "name" \in job[j].of THEN OnTo(j, "name") ELSE Done(j)
    /\ UNCHANGED <<name, language, push, started, putBack>>

\* The users row, after the profile on a PUT, before it on a POST.
UpdateName(j) ==
    /\ job[j].phase = "name"
    /\ name' = job[j].value
    /\ IF job[j].op = "post_profile" THEN OnTo(j, "create") ELSE Done(j)
    /\ UNCHANGED <<profile, language, push, started, meant, putBack>>

-----------------------------------------------------------------------------
(* The preferences                                                          *)

ReadPreferences(j) ==
    /\ \/ Ask(j, "put_preferences", "language", {"language"})
       \/ \E k \in Switches :
            /\ job[j].phase = "idle" /\ started < MaxJobs
            /\ started' = started + 1
            /\ job' = [job EXCEPT ![j] = [NoJob EXCEPT !.op = "put_preferences", !.phase = "push",
                            !.value = started + 1, !.of = {k}, !.read = push]]
    /\ UNCHANGED <<name, profile, language, push, meant, putBack>>

UpdateLanguage(j) ==
    /\ job[j].phase = "language"
    /\ language' = job[j].value
    /\ Done(j)
    /\ UNCHANGED <<name, profile, push, started, meant, putBack>>

Merged(j) == [k \in Switches |-> IF k \in job[j].of THEN job[j].value ELSE job[j].read[k]]

\* Faulty variant: the object of the request, without the switches it leaves out.
UpdatePush_Replaces(j) ==
    /\ job[j].phase = "push"
    /\ push' = [k \in Switches |-> IF k \in job[j].of THEN job[j].value ELSE 0]
    /\ meant' = [meant EXCEPT !.push =
                    [k \in Switches |-> IF k \in job[j].of THEN job[j].value ELSE @[k]]]
    /\ putBack' = (putBack \union {k \in Switches : push[k] # job[j].read[k]}) \ job[j].of
    /\ Done(j)
    /\ UNCHANGED <<name, profile, language, started>>

\* The whole object: what was read, and the switches of the request over it.
UpdatePush(j) ==
    /\ job[j].phase = "push"
    /\ push' = Merged(j)
    /\ meant' = [meant EXCEPT !.push =
                    [k \in Switches |-> IF k \in job[j].of THEN job[j].value ELSE @[k]]]
    /\ putBack' = (putBack \union {k \in Switches : push[k] # job[j].read[k]}) \ job[j].of
    /\ Done(j)
    /\ UNCHANGED <<name, profile, language, started>>

-----------------------------------------------------------------------------
JobDies(j) ==
    /\ job[j].phase # "idle"
    /\ Done(j)
    /\ UNCHANGED <<name, profile, language, push, started, meant, putBack>>

RecordNext ==
    \E j \in Jobs :
        \/ ReadProfile(j) \/ CreateProfile(j) \/ UpdateProfile(j) \/ UpdateName(j)
        \/ ReadPreferences(j) \/ UpdateLanguage(j) \/ UpdatePush(j)
        \/ JobDies(j)

RecordSpec == RecordInit /\ [][RecordNext]_recordVars

-----------------------------------------------------------------------------
\* What a request set stays until another request sets it: a default profile
\* that a slow read creates never replaces one written meanwhile (getProfile,
\* profile.service.ts:49), and a switch is put back only by a request for another
\* switch that had read the object before (updatePreferences,
\* preferences.service.ts:86).
SettingsKept ==
    /\ profile.bio = meant.bio
    /\ \A k \in Switches \ putBack : push[k] = meant.push[k]

-----------------------------------------------------------------------------
(* The devices.  Two people may use one phone, each with a row of his own   *)
(* for its token.  Requests overlap; a removal first looks for its row and   *)
(* then writes it.                                                          *)

CONSTANTS
    Owners, Phones,     \* users; FCM or APNS tokens
    PhoneCalls,         \* requests in flight
    MaxPhoneCalls       \* bound: requests

ASSUME DeviceAssumption == MaxPhoneCalls \in Nat

VARIABLES
    deviceRow,          \* device_tokens, unique (userId, token): [exists, isActive]
    phoneCall,          \* request -> what it does
    phoneCalls,
    wanted              \* what the user's last request about a phone left, if he knows

deviceVars == <<deviceRow, phoneCall, phoneCalls, wanted>>

NoPhoneCall == [op |-> "none", owner |-> "none", row |-> <<>>, about |-> {}, blurred |-> FALSE]

Concerns(c, owner, about) ==
    /\ phoneCall[c].op # "none" /\ phoneCall[c].owner = owner
    /\ phoneCall[c].about \intersect about # {}

\* A user knows nothing of a phone about which two of his requests overlapped.
BeginCall(c, op, owner, row, about) ==
    /\ phoneCall[c].op = "none" /\ phoneCalls < MaxPhoneCalls /\ phoneCalls' = phoneCalls + 1
    /\ phoneCall' = [d \in PhoneCalls |->
        IF d = c
        THEN [op |-> op, owner |-> owner, row |-> row, about |-> about,
              blurred |-> \E e \in PhoneCalls : Concerns(e, owner, about)]
        ELSE [phoneCall[d] EXCEPT !.blurred = @ \/ Concerns(d, owner, about)]]
    /\ UNCHANGED <<deviceRow, wanted>>

EndCall(c, left) ==
    /\ phoneCall' = [phoneCall EXCEPT ![c] = NoPhoneCall]
    /\ wanted' = [w \in Owners \X Phones |->
        IF w[1] = phoneCall[c].owner /\ w[2] \in phoneCall[c].about
        THEN IF phoneCall[c].blurred THEN "unknown" ELSE left
        ELSE wanted[w]]

-----------------------------------------------------------------------------
\* A platform and a name that the app does not send are made up from its user
\* agent; the platform is always one of the three that pushes go to.
AskRegister(c, owner, phone) == BeginCall(c, "register", owner, <<owner, phone>>, {phone})

\* Faulty variant: a row that is there is left as it is.
Register_Once(c) ==
    /\ phoneCall[c].op = "register"
    /\ deviceRow' = [deviceRow EXCEPT ![phoneCall[c].row] =
                        IF @.exists THEN @ ELSE [exists |-> TRUE, isActive |-> TRUE]]
    /\ EndCall(c, "on")
    /\ UNCHANGED phoneCalls

\* An upsert on the unique key: a row that was switched off is on again.
Register(c) ==
    /\ phoneCall[c].op = "register"
    /\ deviceRow' = [deviceRow EXCEPT ![phoneCall[c].row] = [exists |-> TRUE, isActive |-> TRUE]]
    /\ EndCall(c, "on")
    /\ UNCHANGED phoneCalls

\* The id of a row, which may be another user's.
AskRemove(c, owner, row) ==
    /\ deviceRow[row].exists
    /\ BeginCall(c, "find", owner, row, IF row[1] = owner THEN {row[2]} ELSE {})

\* Faulty variant: the row is looked for by its id alone.
FindDevice_AnyOwner(c) ==
    /\ phoneCall[c].op = "find"
    /\ phoneCall' = [phoneCall EXCEPT ![c].op = "switch off"]
    /\ UNCHANGED <<deviceRow, phoneCalls, wanted>>

\* The row of another user is answered with 404.
FindDevice(c) ==
    /\ phoneCall[c].op = "find"
    /\ phoneCall' = [phoneCall EXCEPT ![c] =
            IF @.row[1] = @.owner THEN [@ EXCEPT !.op = "switch off"] ELSE NoPhoneCall]
    /\ UNCHANGED <<deviceRow, phoneCalls, wanted>>

SwitchOff(c) ==
    /\ phoneCall[c].op = "switch off"
    /\ deviceRow' = [deviceRow EXCEPT ![phoneCall[c].row].isActive = FALSE]
    /\ EndCall(c, "off")
    /\ UNCHANGED phoneCalls

AskRemoveAll(c, owner) == BeginCall(c, "all", owner, <<>>, Phones)

RemoveAll(c) ==
    /\ phoneCall[c].op = "all"
    /\ deviceRow' = [r \in Owners \X Phones |->
            IF r[1] = phoneCall[c].owner THEN [deviceRow[r] EXCEPT !.isActive = FALSE] ELSE deviceRow[r]]
    /\ EndCall(c, "off")
    /\ UNCHANGED phoneCalls

\* getUserDeviceTokens and getActiveFcmTokens.
ActiveTokens(owner) == {p \in Phones : deviceRow[<<owner, p>>].isActive}

DeviceInit ==
    /\ deviceRow = [r \in Owners \X Phones |-> [exists |-> FALSE, isActive |-> FALSE]]
    /\ phoneCall = [c \in PhoneCalls |-> NoPhoneCall] /\ phoneCalls = 0
    /\ wanted = [w \in Owners \X Phones |-> "off"]

DeviceNext ==
    \E c \in PhoneCalls :
        \/ \E owner \in Owners :
            \/ \E phone \in Phones : AskRegister(c, owner, phone)
            \/ \E row \in Owners \X Phones : AskRemove(c, owner, row)
            \/ AskRemoveAll(c, owner)
        \/ Register(c) \/ FindDevice(c) \/ SwitchOff(c) \/ RemoveAll(c)

-----------------------------------------------------------------------------
\* A user's notifications go to the phones that he registered last and not to
\* those that he removed last, whatever others do with the same phone, unless
\* two of his own requests about it overlapped (device-token.service.ts:31-51,
\* 109-135, 140-154).
PushesFollowWishes ==
    \A owner \in Owners, p \in Phones :
        wanted[<<owner, p>>] # "unknown" /\ (\A c \in PhoneCalls : ~ Concerns(c, owner, {p})) =>
            (p \in ActiveTokens(owner) <=> wanted[<<owner, p>>] = "on")
=============================================================================
