------------------------------ MODULE OtpCodes ------------------------------
(***************************************************************************)
(* One-time codes of one e-mail address: otp.service.ts.  Codes are numbered *)
(* in the order their rows were created.  A call is a request for a code or  *)
(* a verification, one action per statement on the database; calls overlap.  *)
(* Time passes in units of a code's lifetime (OTP_EXPIRES_IN, five minutes). *)
(***************************************************************************)
EXTENDS Naturals, FiniteSets, Sequences

CONSTANTS
    Calls,          \* calls that can be under way at once
    MaxAttempts,    \* OTP_MAX_ATTEMPTS
    RateLimit,      \* OTP_RATE_LIMIT_REQUESTS
    RateWindow,     \* OTP_RATE_LIMIT_WINDOW, in lifetimes
    MaxClock        \* bound of the run

ASSUME OtpAssumption ==
    /\ IsFiniteSet(Calls)
    /\ MaxAttempts \in Nat \ {0} /\ RateLimit \in Nat \ {0}
    /\ RateWindow \in Nat \ {0} /\ MaxClock \in Nat

VARIABLES
    clock,
    codes,      \* otp_codes, by createdAt: used, attempts; wrong guesses compared (ghost)
    call,
    clashed     \* ghost: a row was created while another request was about to create one

otpVars == <<clock, codes, call, clashed>>

NoCode == 0
NoCall == [phase |-> "idle", code |-> NoCode]

OtpInit ==
    /\ clock = 0 /\ codes = <<>> /\ clashed = FALSE
    /\ call = [c \in Calls |-> NoCall]

\* isUsed: false, expiresAt later than now: a code lives one unit.
ActiveCodes == {i \in DOMAIN codes : ~ codes[i].used /\ codes[i].created = clock}
InWindow == {i \in DOMAIN codes : codes[i].created + RateWindow >= clock}
Newest(ids) == CHOOSE i \in ids : \A j \in ids : j <= i

OtpGoTo(c, phase) == call' = [call EXCEPT ![c].phase = phase]
Return(c) == call' = [call EXCEPT ![c] = NoCall]

-----------------------------------------------------------------------------
(* requestOtp                                                               *)

CheckRateLimit(c) ==
    /\ call[c].phase = "idle"
    /\ Cardinality(InWindow) < RateLimit       \* else 429
    /\ OtpGoTo(c, "invalidate")
    /\ UNCHANGED <<clock, codes, clashed>>

\* Faulty variant: the codes that are still good stay good.
Invalidate_Nothing(c) ==
    /\ call[c].phase = "invalidate"
    /\ OtpGoTo(c, "create")
    /\ UNCHANGED <<clock, codes, clashed>>

Invalidate(c) ==
    /\ call[c].phase = "invalidate"
    /\ codes' = [i \in DOMAIN codes |->
                    IF i \in ActiveCodes THEN [codes[i] EXCEPT !.used = TRUE] ELSE codes[i]]
    /\ OtpGoTo(c, "create")
    /\ UNCHANGED <<clock, clashed>>

\* The row, then the mail; a mail that fails leaves the row.
CreateCode(c) ==
    /\ call[c].phase = "create"
    /\ codes' = Append(codes, [created |-> clock, used |-> FALSE, attempts |-> 0, wrong |-> 0])
    /\ clashed' = (clashed \/ \E other \in Calls \ {c} : call[other].phase = "create")
    /\ Return(c)
    /\ UNCHANGED clock

-----------------------------------------------------------------------------
(* verifyOtp                                                                *)

\* The newest active row, with its attempts as they are now (without one, 400),
\* and what the person typed: its code, or that of another mail, or nonsense.
FindCode(c) ==
    /\ call[c].phase = "idle" /\ ActiveCodes # {}
    /\ LET code == Newest(ActiveCodes)
       IN  \E answer \in {"accept", "miss"} :
            call' = [call EXCEPT ![c] = [code |-> code,
                phase |-> IF codes[code].attempts >= MaxAttempts THEN "exhausted" ELSE answer]]
    /\ UNCHANGED <<clock, codes, clashed>>

\* Attempts exceeded, or the code is the right one: either way it is used up.
UseUp(c) ==
    /\ call[c].phase \in {"exhausted", "accept"}
    /\ codes' = [codes EXCEPT ![call[c].code].used = TRUE]
    /\ Return(c)
    /\ UNCHANGED <<clock, clashed>>

\* Faulty variant: wrong guesses are counted only while there is one to spare.
Miss_LastForgotten(c) ==
    /\ call[c].phase = "miss"
    /\ codes' = [codes EXCEPT ![call[c].code].wrong = @ + 1,
                              ![call[c].code].attempts = IF @ + 1 < MaxAttempts THEN @ + 1 ELSE @]
    /\ Return(c)
    /\ UNCHANGED <<clock, clashed>>

\* attempts: { increment: 1 }, in the database.
Miss(c) ==
    /\ call[c].phase = "miss"
    /\ codes' = [codes EXCEPT ![call[c].code].attempts = @ + 1, ![call[c].code].wrong = @ + 1]
    /\ Return(c)
    /\ UNCHANGED <<clock, clashed>>

-----------------------------------------------------------------------------
\* The function is killed.
OtpDie(c) ==
    /\ call[c].phase # "idle"
    /\ Return(c)
    /\ UNCHANGED <<clock, codes, clashed>>

OtpTick ==
    /\ clock < MaxClock
    /\ clock' = clock + 1
    /\ UNCHANGED <<codes, call, clashed>>

OtpStep(c) ==
    \/ CheckRateLimit(c) \/ Invalidate(c) \/ CreateCode(c)
    \/ FindCode(c) \/ UseUp(c) \/ Miss(c) \/ OtpDie(c)

OtpNext == OtpTick \/ \E c \in Calls : OtpStep(c)

OtpSpec == OtpInit /\ [][OtpNext]_otpVars

-----------------------------------------------------------------------------
(* Properties                                                               *)

OtpTypeOK ==
    /\ clock \in 0 .. MaxClock
    /\ codes \in Seq([created : 0 .. MaxClock, used : BOOLEAN, attempts : Nat, wrong : Nat])
    /\ call \in [Calls -> [phase : {"idle", "invalidate", "create", "exhausted", "accept", "miss"},
                           code : Nat]]
    /\ \A c \in Calls : call[c].phase \in {"exhausted", "accept", "miss"} =>
            call[c].code \in DOMAIN codes
    /\ clashed \in BOOLEAN

\* "Invalidate previous OTPs for this email" (otp.service.ts:42): at most one
\* code is good at a time, whichever calls died on the way, unless two requests
\* overlapped between invalidating the old codes and creating their own.  And
\* the limits on wrong guesses per code (line 108) and on codes per window (line
\* 156), checks before a later write, are exceeded by overlapping calls by as
\* many as had passed the check and by no more.
CodesLimited ==
    /\ ~ clashed => Cardinality(ActiveCodes) <= 1
    /\ \A i \in DOMAIN codes : codes[i].wrong < MaxAttempts + Cardinality(Calls)
    /\ Cardinality(InWindow) < RateLimit + Cardinality(Calls)
=============================================================================
