------------------------------ MODULE Passwords ------------------------------
(* The change of a password with a one-time password sent by mail, for one user    *)
(* (src/src/users/): issue, verification and use of the OTP, and the history that  *)
(* keeps old passwords from coming back.  A handler is a sequence of steps, one    *)
(* per database call.                                                              *)
EXTENDS Integers, FiniteSets, Sequences

CONSTANTS
    Words,      \* passwords
    Reqs,       \* slots for handlers under way at the same time
    MaxOtps,    \* bound: one-time passwords ever issued
    MaxAborts,  \* bound: handlers that fail halfway
    Kept        \* old passwords remembered: 5 in the code

Assumptions ==
    /\ Kept \in Nat \ {0}
    /\ {MaxOtps, MaxAborts} \subseteq Nat

VARIABLES
    user,     \* what the user document holds of this
    req,      \* the handlers in flight
    issued,   \* the number of OTPs generated
    mailed,   \* OTPs the user has received
    aborts,   \* handlers that failed halfway
    past,     \* for the properties: the passwords that were in force, oldest first
    proved,   \* OTPs the user has entered for verification, and that matched
    spent,    \* how many changes were made with each OTP
    crossed,  \* OTPs issued while the verification of another was under way
    raced     \* two changes overlapped

vars == <<user, req, issued, mailed, aborts, past, proved, spent, crossed, raced>>

histories == <<past, proved, spent, crossed, raced>>

-----------------------------------------------------------------------------
Otps == 1..MaxOtps

\* otp: passwordChangeOTP, 0 when there is none; expired: passwordChangeOTPExpiry is over.
User == [password: Words, passwordHistory: Seq(Words), otp: Otps \cup {0},
         expired: BOOLEAN, verified: BOOLEAN]

Step == {"idle", "send_mail", "verify_save", "change_save"}

Request == [at: Step, otp: Otps \cup {0}, word: Words, read: Words]

Idle == [at |-> "idle", otp |-> 0, word |-> CHOOSE w \in Words : TRUE,
         read |-> CHOOSE w \in Words : TRUE]

Begin(r, q) == req[r].at = "idle" /\ req' = [req EXCEPT ![r] = q]
Finish(r) == req' = [req EXCEPT ![r] = Idle]
At(step) == {r \in Reqs : req[r].at = step}

Init ==
    /\ \E w \in Words : /\ user = [password |-> w, passwordHistory |-> << >>, otp |-> 0,
                                   expired |-> FALSE, verified |-> FALSE]
                        /\ w = Idle.word
    /\ req = [r \in Reqs |-> Idle]
    /\ issued = 0
    /\ mailed = {}
    /\ aborts = 0
    /\ past = << >>
    /\ proved = {}
    /\ spent = [o \in Otps |-> 0]
    /\ crossed = {}
    /\ raced = FALSE

-----------------------------------------------------------------------------
(* sendPasswordChangeOTP *)

\* Regression: the verification of the earlier OTP stands.
SendUnreset(r) ==
    /\ issued < MaxOtps
    /\ issued' = issued + 1
    /\ user' = [user EXCEPT !.otp = issued + 1, !.expired = FALSE]
    /\ Begin(r, [Idle EXCEPT !.at = "send_mail", !.otp = issued + 1])
    /\ crossed' = IF At("verify_save") = {} THEN crossed ELSE crossed \cup {issued + 1}
    /\ UNCHANGED <<mailed, aborts, past, proved, spent, raced>>

\* The OTP is stored before it is mailed.
SendSave(r) ==
    /\ issued < MaxOtps
    /\ issued' = issued + 1
    /\ user' = [user EXCEPT !.otp = issued + 1, !.expired = FALSE, !.verified = FALSE]
    /\ Begin(r, [Idle EXCEPT !.at = "send_mail", !.otp = issued + 1])
    /\ crossed' = IF At("verify_save") = {} THEN crossed ELSE crossed \cup {issued + 1}
    /\ UNCHANGED <<mailed, aborts, past, proved, spent, raced>>

SendMail(r) ==
    /\ req[r].at = "send_mail"
    /\ mailed' = mailed \cup {req[r].otp}
    /\ Finish(r)
    /\ UNCHANGED <<user, issued, aborts, histories>>

-----------------------------------------------------------------------------
(* verifyPasswordChangeOTP *)

Verify(r, otp) ==
    /\ otp \in mailed
    /\ user.otp = otp /\ ~user.expired
    /\ Begin(r, [Idle EXCEPT !.at = "verify_save", !.otp = otp])
    /\ proved' = proved \cup {otp}
    /\ UNCHANGED <<user, issued, mailed, aborts, past, spent, crossed, raced>>

\* Whatever OTP is there by now, none included, counts as verified.
VerifySave(r) ==
    /\ req[r].at = "verify_save"
    /\ user' = [user EXCEPT !.verified = TRUE]
    /\ Finish(r)
    /\ UNCHANGED <<issued, mailed, aborts, histories>>

-----------------------------------------------------------------------------
(* changePasswordWithOTP *)

InHistory(word) == \E i \in DOMAIN user.passwordHistory : user.passwordHistory[i] = word

\* Regression: the current password is looked at, the history is not.
ChangeFindCurrent(r, otp, word) ==
    /\ otp \in mailed
    /\ user.verified /\ user.otp = otp /\ ~user.expired
    /\ word # user.password
    /\ Begin(r, [Idle EXCEPT !.at = "change_save", !.otp = otp, !.word = word,
                             !.read = user.password])
    /\ raced' = (raced \/ At("change_save") # {})
    /\ UNCHANGED <<user, issued, mailed, aborts, past, proved, spent, crossed>>

ChangeFind(r, otp, word) ==
    /\ otp \in mailed
    /\ user.verified /\ user.otp = otp /\ ~user.expired
    /\ word # user.password /\ ~InHistory(word)
    /\ Begin(r, [Idle EXCEPT !.at = "change_save", !.otp = otp, !.word = word,
                             !.read = user.password])
    /\ raced' = (raced \/ At("change_save") # {})
    /\ UNCHANGED <<user, issued, mailed, aborts, past, proved, spent, crossed>>

\* { $each: [...], $slice: -5 }
Remember(words, w) ==
    LET longer == Append(words, w)
    IN  IF Len(longer) <= Kept THEN longer
        ELSE SubSeq(longer, Len(longer) - Kept + 1, Len(longer))

\* Regression: the OTP can be used again.
ChangeSaveKeepingOtp(r) ==
    /\ req[r].at = "change_save"
    /\ user' = [user EXCEPT !.password = req[r].word,
                            !.passwordHistory = Remember(@, req[r].read)]
    /\ past' = Append(past, user.password)
    /\ spent' = [spent EXCEPT ![req[r].otp] = @ + 1]
    /\ Finish(r)
    /\ UNCHANGED <<issued, mailed, aborts, proved, crossed, raced>>

\* What was read as the current password goes into the history, and the OTP that is
\* there by now is cleared.
ChangeSave(r) ==
    /\ req[r].at = "change_save"
    /\ user' = [password |-> req[r].word,
                passwordHistory |-> Remember(user.passwordHistory, req[r].read),
                otp |-> 0, expired |-> FALSE, verified |-> FALSE]
    /\ past' = Append(past, user.password)
    /\ spent' = [spent EXCEPT ![req[r].otp] = @ + 1]
    /\ Finish(r)
    /\ UNCHANGED <<issued, mailed, aborts, proved, crossed, raced>>

-----------------------------------------------------------------------------
\* The five minutes of an OTP are over.
OtpExpires ==
    /\ user.otp # 0 /\ ~user.expired
    /\ user' = [user EXCEPT !.expired = TRUE]
    /\ UNCHANGED <<req, issued, mailed, aborts, histories>>

\* The mail or a database call fails, or the process dies: what was done stays.
Abort(r) ==
    /\ req[r].at # "idle"
    /\ aborts < MaxAborts
    /\ aborts' = aborts + 1
    /\ Finish(r)
    /\ UNCHANGED <<user, issued, mailed, histories>>

Asked(r) ==
    \/ SendSave(r)
    \/ \E otp \in Otps : Verify(r, otp) \/ \E word \in Words : ChangeFind(r, otp, word)

HandlerStep(r) == SendMail(r) \/ VerifySave(r) \/ ChangeSave(r)

Next == OtpExpires \/ \E r \in Reqs : Asked(r) \/ HandlerStep(r) \/ Abort(r)

Spec == Init /\ [][Next]_vars

-----------------------------------------------------------------------------
(* Properties *)

\* Every variable stays within its type.
TypeOK ==
    /\ user \in [password: Words, passwordHistory: UNION {[1..n -> Words] : n \in 0..Kept},
                 otp: Otps \cup {0}, expired: BOOLEAN, verified: BOOLEAN]
    /\ req \in [Reqs -> Request]
    /\ issued \in 0..MaxOtps
    /\ mailed \cup proved \cup crossed \subseteq Otps
    /\ aborts \in 0..MaxAborts
    /\ \A i \in DOMAIN past : past[i] \in Words
    /\ spent \in [Otps -> Nat]
    /\ raced \in BOOLEAN

\* An OTP that counts as verified, and one that changed the password, was entered by
\* the user for verification, unless it was issued while another was being verified
\* (sendPasswordChangeOTP, verifyPasswordChangeOTP).
VerifiedWasProved ==
    \A o \in Otps \ crossed :
        (user.otp = o /\ user.verified) \/ spent[o] > 0 => o \in proved

\* An OTP changes the password once, unless two changes overlapped
\* (changePasswordWithOTP).
OtpSpentOnce == raced \/ \A o \in Otps : spent[o] <= 1

Latest(words) == {words[i] : i \in {j \in DOMAIN words : j > Len(words) - Kept}}

\* No password comes back while it is among the last ones that were in force, and the
\* history holds just those, unless two changes overlapped: the later one then records
\* the password both of them read (changePasswordWithOTP).
NoReuse ==
    raced \/ /\ user.password \notin Latest(past)
             /\ Latest(past) = {user.passwordHistory[i] : i \in DOMAIN user.passwordHistory}

\* The password changes only with an OTP that the user received and entered, and once
\* with each (sendPasswordChangeOTP, verifyPasswordChangeOTP, changePasswordWithOTP).
OtpGuardsChange == VerifiedWasProved /\ OtpSpentOnce
=============================================================================
