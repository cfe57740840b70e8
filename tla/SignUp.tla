------------------------------- MODULE SignUp -------------------------------
(***************************************************************************)
(* Signing up by e-mail on the server (internal/auth): the account's row,  *)
(* the codes that confirm its address, and the counter of attempts in      *)
(* Redis, under requests that overlap and stop between two statements.     *)
(*                                                                         *)
(* One address is followed.  Passwords and tokens change nothing here.     *)
(***************************************************************************)
EXTENDS Naturals

CONSTANTS
    Calls,      \* requests about the address at once
    MaxCodes,   \* bound: codes made for it
    MaxTries,   \* maxAttempts of the limiter
    MaxBreaks   \* bound: statements that fail, processes that stop

ASSUME SignUpAssumption ==
    MaxCodes \in Nat /\ MaxTries \in Nat \ {0} /\ MaxBreaks \in Nat

VARIABLES
    account,  \* the row of users
    issued,   \* codes are numbered in the order of their rows
    fate,     \* what became of each code; only a live one is accepted
    mailed,   \* the codes that were sent
    newest,   \* the one sent last, 0 if none was
    tries,    \* the counter; every count above the limit is MaxTries + 1
    ticking,  \* does it have a TTL?
    calls,    \* requests under way
    broken,   \* history: did a request stop between dropping the codes and its mail?
    halfway,  \* history: did one stop between using a code and confirming?
    stuck,    \* history: was the counter left without a TTL?
    breaks

signUpVars == <<account, issued, fate, mailed, newest, tries, ticking, calls, broken,
                halfway, stuck, breaks>>

Codes == 1 .. MaxCodes
Wrong == 0  \* what the customer enters when it is none of them
Fates == {"none", "live", "entered", "expired",
          "replaced",  \* invalidated by a later request after it was sent
          "crossed"}   \* invalidated by another request before it was sent
SendingSteps == {"creating", "clearing", "storing", "mailing"}
EnteringSteps == {"timing", "looking", "marking", "confirming", "resetting"}
NoCall == [st |-> "idle", code |-> Wrong]
Call == [st : SendingSteps \cup EnteringSteps \cup {"idle"}, code : Codes \cup {Wrong}]

SignUpTypeOK ==
    /\ account \in {"none", "new", "verified"}
    /\ issued \in 0 .. MaxCodes
    /\ fate \in [Codes -> Fates] /\ \A c \in Codes : fate[c] = "none" <=> c > issued
    /\ mailed \subseteq 1 .. issued
    /\ newest \in mailed \cup {Wrong}
    /\ tries \in 0 .. MaxTries + 1
    /\ ticking \in BOOLEAN /\ (ticking => tries > 0)
    /\ calls \in [Calls -> Call]
    /\ broken \in BOOLEAN /\ halfway \in BOOLEAN /\ stuck \in BOOLEAN
    /\ breaks \in 0 .. MaxBreaks

SignUpInit ==
    /\ account = "none"
    /\ issued = 0 /\ fate = [c \in Codes |-> "none"]
    /\ mailed = {} /\ newest = Wrong
    /\ tries = 0 /\ ticking = FALSE
    /\ calls = [r \in Calls |-> NoCall]
    /\ broken = FALSE /\ halfway = FALSE /\ stuck = FALSE
    /\ breaks = 0

GoesTo(r, step) == calls' = [calls EXCEPT ![r].st = step]
Ends(r) == calls' = [calls EXCEPT ![r] = NoCall]
Breaks == breaks < MaxBreaks /\ breaks' = breaks + 1

rowVars == <<account, halfway>>
codeVars == <<issued, fate, mailed, newest, broken>>
triesVars == <<tries, ticking, stuck>>

-----------------------------------------------------------------------------
(* POST /auth/register: a row if there is none, and a code. *)

\* A confirmed address is refused, another one is sent a code again.
RegisterWithEmail(r) ==
    /\ calls[r].st = "idle"
    /\ account # "verified"
    /\ GoesTo(r, IF account = "none" THEN "creating" ELSE "clearing")
    /\ UNCHANGED <<rowVars, codeVars, triesVars, breaks>>

\* The unique index on users.email refuses the second of two rows.
CreateUser(r) ==
    /\ calls[r].st = "creating"
    /\ IF account = "none" THEN account' = "new" /\ GoesTo(r, "clearing")
       ELSE Ends(r) /\ UNCHANGED account
    /\ UNCHANGED <<halfway, codeVars, triesVars, breaks>>

Invalidated ==
    [c \in Codes |-> IF fate[c] # "live" THEN fate[c]
                     ELSE IF c \in mailed THEN "replaced" ELSE "crossed"]

\* Its error is ignored: the older codes stay live beside the new one.
InvalidateCodes(r) ==
    /\ calls[r].st = "clearing"
    /\ \/ fate' = Invalidated /\ UNCHANGED breaks
       \/ Breaks /\ UNCHANGED fate
    /\ GoesTo(r, "storing")
    /\ UNCHANGED <<rowVars, issued, mailed, newest, broken, triesVars>>

CreateAuthCode(r) ==
    /\ calls[r].st = "storing"
    /\ issued < MaxCodes
    /\ issued' = issued + 1
    /\ fate' = [fate EXCEPT ![issued + 1] = "live"]
    /\ calls' = [calls EXCEPT ![r] = [st |-> "mailing", code |-> issued + 1]]
    /\ UNCHANGED <<rowVars, mailed, newest, broken, triesVars, breaks>>

SendOTP(r) ==
    /\ calls[r].st = "mailing"
    /\ newest' = calls[r].code
    /\ mailed' = mailed \cup {calls[r].code}
    /\ broken' = FALSE
    /\ Ends(r)
    /\ UNCHANGED <<rowVars, issued, fate, triesVars, breaks>>

-----------------------------------------------------------------------------
(* POST /auth/verify-email: an attempt is counted, then the code looked at. *)

\* Fault: the TTL is set when the key is seen for the second time.
SecondTry(n) == n = 2

FirstTry(n) == n = 1

Counted == IF tries > MaxTries THEN tries ELSE tries + 1

\* INCR.  When Redis does not answer, whether or not it has counted, nobody is refused.
CheckAndIncrement(r, c) ==
    /\ calls[r].st = "idle"
    /\ c \in mailed \cup {Wrong}
    /\ \/ /\ tries' = Counted
          /\ calls' = [calls EXCEPT ![r] =
                         IF FirstTry(tries') THEN [st |-> "timing", code |-> c]
                         ELSE IF tries' > MaxTries THEN NoCall
                         ELSE [st |-> "looking", code |-> c]]
          /\ UNCHANGED <<stuck, breaks>>
       \/ /\ Breaks
          /\ tries' \in {tries, Counted}
          /\ calls' = [calls EXCEPT ![r] = [st |-> "looking", code |-> c]]
          /\ stuck' = (stuck \/ (tries' > 0 /\ ~ticking))
    /\ UNCHANGED <<rowVars, codeVars, ticking>>

\* EXPIRE, which does nothing to a key that is gone; when it fails the key is
\* deleted, if Redis answers that.
SetTTL(r) ==
    /\ calls[r].st = "timing"
    /\ \/ ticking' = (tries > 0) /\ stuck' = FALSE /\ UNCHANGED <<tries, breaks>>
       \/ Breaks /\ tries' = 0 /\ ticking' = FALSE /\ stuck' = FALSE
       \/ Breaks /\ stuck' = (tries > 0 /\ ~ticking) /\ UNCHANGED <<tries, ticking>>
    /\ GoesTo(r, "looking")
    /\ UNCHANGED <<rowVars, codeVars>>

\* Codes are there for an account only, so it is looked up together with them.
GetAuthCode(r) ==
    /\ calls[r].st = "looking"
    /\ IF calls[r].code # Wrong /\ fate[calls[r].code] = "live"
       THEN GoesTo(r, "marking") ELSE Ends(r)
    /\ UNCHANGED <<rowVars, codeVars, triesVars, breaks>>

\* By its id only, whatever has happened to the code since.
MarkAuthCodeAsUsed(r) ==
    /\ calls[r].st = "marking"
    /\ fate' = [fate EXCEPT ![calls[r].code] = IF @ = "live" THEN "entered" ELSE @]
    /\ GoesTo(r, "confirming")
    /\ UNCHANGED <<rowVars, issued, mailed, newest, broken, triesVars, breaks>>

UpdateEmailVerified(r) ==
    /\ calls[r].st = "confirming"
    /\ account' = "verified" /\ halfway' = FALSE
    /\ GoesTo(r, "resetting")
    /\ UNCHANGED <<codeVars, triesVars, breaks>>

Reset(r) ==
    /\ calls[r].st = "resetting"
    /\ tries' = 0 /\ ticking' = FALSE /\ stuck' = FALSE
    /\ Ends(r)
    /\ UNCHANGED <<rowVars, codeVars, breaks>>

-----------------------------------------------------------------------------
(* Time and failure. *)

\* A statement or the mail fails, the client goes away with the request's
\* context, or the process stops.
CallStops(r) ==
    /\ calls[r].st # "idle"
    /\ Breaks
    /\ Ends(r)
    /\ broken' = (broken \/ calls[r].st \in {"storing", "mailing"})
    /\ halfway' = (halfway \/ calls[r].st = "confirming")
    /\ stuck' = (stuck \/ (calls[r].st = "timing" /\ tries > 0 /\ ~ticking))
    /\ UNCHANGED <<account, issued, fate, mailed, newest, tries, ticking>>

CodeExpires(c) ==
    /\ fate[c] = "live"
    /\ fate' = [fate EXCEPT ![c] = "expired"]
    /\ UNCHANGED <<rowVars, issued, mailed, newest, broken, triesVars, calls, breaks>>

TriesExpire ==
    /\ ticking
    /\ tries' = 0 /\ ticking' = FALSE
    /\ UNCHANGED <<rowVars, codeVars, stuck, calls, breaks>>

SignUpNext ==
    \/ \E r \in Calls :
         \/ RegisterWithEmail(r) \/ CreateUser(r) \/ InvalidateCodes(r) \/ CreateAuthCode(r)
         \/ SendOTP(r)
         \/ \E c \in mailed \cup {Wrong} : CheckAndIncrement(r, c)
         \/ SetTTL(r) \/ GetAuthCode(r) \/ MarkAuthCodeAsUsed(r) \/ UpdateEmailVerified(r)
         \/ Reset(r) \/ CallStops(r)
    \/ \E c \in Codes : CodeExpires(c)
    \/ TriesExpire

SignUpSpec == SignUpInit /\ [][SignUpNext]_signUpVars

-----------------------------------------------------------------------------
(* Correctness. *)

At(steps) == \E r \in Calls : calls[r].st \in steps

\* Of all the codes a customer has been sent the newest one works until it is
\* entered or expires, however often he asks for one.  It may fail for a reason
\* by name: another request is about to send a newer one, has stopped before it
\* could, or has dropped this one just before it was sent.
NewestCodeWorks ==
    \/ newest = Wrong
    \/ fate[newest] \in {"live", "entered", "expired", "crossed"}
    \/ fate[newest] = "replaced" /\ (broken \/ At({"storing", "mailing"}))

\* A code is not spent for nothing: once one was used the address is confirmed,
\* unless the request that used it has stopped before its last statement.
EnteredIsVerified ==
    (\E c \in Codes : fate[c] = "entered") =>
      account = "verified" \/ halfway \/ At({"confirming"})

\* The counter is forgotten in time: it has a TTL or a request is about to set
\* one, unless that request has stopped between INCR and EXPIRE or Redis has not
\* answered it.  Without a TTL a counter above the limit would refuse for good.
AttemptsExpire == tries > 0 => ticking \/ stuck \/ At({"timing"})

\* Whoever signs up gets in.
SignUpSucceeds == NewestCodeWorks /\ EnteredIsVerified /\ AttemptsExpire
=============================================================================
