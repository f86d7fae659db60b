------------------------------ MODULE OtpLogin ------------------------------
(***************************************************************************)
(* One-time codes and accounts of one phone number: sendOtp and verifyOtp  *)
(* (auth.service.ts) and the messenger's contact sharing, which resolves   *)
(* the account of the same number.  Phone numbers do not interact.         *)
(*                                                                         *)
(* Each action is one database call of a request; at[p] names the next one *)
(* and of[p] the row it is about.  There is no transaction and no unique   *)
(* key on otp_codes or users.phone.                                        *)
(***************************************************************************)
EXTENDS Naturals, FiniteSets, Sequences

CONSTANTS
  OtpRequests,   \* requests about this phone that may be in flight
  MaxCodes,      \* bound: codes ever sent
  MaxAttempts,   \* env.otpMaxAttempts
  MaxGuesses,    \* bound: wrong codes ever entered
  MaxOtpAborts   \* bound: requests that die between two calls

ASSUME OtpAssumption ==
  /\ IsFiniteSet(OtpRequests) /\ OtpRequests # {}
  /\ MaxCodes \in Nat /\ MaxAttempts \in Nat /\ MaxGuesses \in Nat /\ MaxOtpAborts \in Nat

VARIABLES
  codes,      \* otp_codes rows, oldest first
  accounts,   \* users rows with this phone, oldest first: phoneVerifiedAt is set
  otpAt,      \* next call of each request
  otpOf,      \* code or account the request holds
  misses,     \* history: wrong codes compared with each row
  otpAborts   \* history: requests that have died

otpVars == <<codes, accounts, otpAt, otpOf, misses, otpAborts>>

OtpInit ==
  /\ codes = <<>>
  /\ accounts = <<>>
  /\ otpAt = [p \in OtpRequests |-> "idle"]
  /\ otpOf = [p \in OtpRequests |-> 0]
  /\ misses = <<>>
  /\ otpAborts = 0

-----------------------------------------------------------------------------
ActiveCodes == {i \in DOMAIN codes : ~codes[i].consumed /\ ~codes[i].expired}

\* findLatestActiveOtpCode: the newest active row.
IsLatestActive(i) == i \in ActiveCodes /\ \A j \in ActiveCodes : j <= i

OtpGoto(p, stage, row) ==
  /\ otpAt' = [otpAt EXCEPT ![p] = stage]
  /\ otpOf' = [otpOf EXCEPT ![p] = row]

OtpLeave(p) == OtpGoto(p, "idle", 0)

Sending == {p \in OtpRequests : otpAt[p] = "create_code"}

-----------------------------------------------------------------------------
(* sendOtp, after its rate limit *)

\* Fault: a code nobody has tried yet is left alone.
SendConsumeGuessed(p) ==
  /\ otpAt[p] = "idle"
  /\ Len(codes) + Cardinality(Sending) < MaxCodes
  /\ codes' = [i \in DOMAIN codes |->
                 IF codes[i].attempts > 0
                 THEN [codes[i] EXCEPT !.consumed = TRUE] ELSE codes[i]]
  /\ OtpGoto(p, "create_code", 0)
  /\ UNCHANGED <<accounts, misses, otpAborts>>

\* consumeActiveOtpCodesForPhone: every row that is not consumed.
SendConsume(p) ==
  /\ otpAt[p] = "idle"
  /\ Len(codes) + Cardinality(Sending) < MaxCodes
  /\ codes' = [i \in DOMAIN codes |-> [codes[i] EXCEPT !.consumed = TRUE]]
  /\ OtpGoto(p, "create_code", 0)
  /\ UNCHANGED <<accounts, misses, otpAborts>>

SendCreate(p) ==
  /\ otpAt[p] = "create_code"
  /\ codes' = Append(codes, [consumed |-> FALSE, expired |-> FALSE, attempts |-> 0])
  /\ misses' = Append(misses, 0)
  /\ OtpLeave(p)
  /\ UNCHANGED <<accounts, otpAborts>>

\* otp_codes.expires_at passes.
CodeExpires(i) ==
  /\ i \in ActiveCodes
  /\ codes' = [codes EXCEPT ![i].expired = TRUE]
  /\ UNCHANGED <<accounts, otpAt, otpOf, misses, otpAborts>>

-----------------------------------------------------------------------------
(* verifyOtp *)

\* Fault: one comparison too many.
MayCompareOnceMore(i) == codes[i].attempts <= MaxAttempts

\* The attempts of the row as read here decide; the comparison needs no call.
MayCompare(i) == codes[i].attempts < MaxAttempts

GuessesLeft == \A i \in DOMAIN misses : misses[i] < MaxGuesses

VerifyWrong(p) ==
  /\ otpAt[p] = "idle"
  /\ \E i \in DOMAIN codes :
       /\ IsLatestActive(i)
       /\ MayCompare(i)
       /\ GuessesLeft
       /\ misses' = [misses EXCEPT ![i] = @ + 1]
       /\ OtpGoto(p, "increment", i)
  /\ UNCHANGED <<codes, accounts, otpAborts>>

VerifyRight(p) ==
  /\ otpAt[p] = "idle"
  /\ \E i \in DOMAIN codes :
       /\ IsLatestActive(i)
       /\ MayCompare(i)
       /\ OtpGoto(p, "consume", i)
  /\ UNCHANGED <<codes, accounts, misses, otpAborts>>

\* incrementOtpAttempts: an atomic increment, then 401.
VerifyIncrement(p) ==
  /\ otpAt[p] = "increment"
  /\ codes' = [codes EXCEPT ![otpOf[p]].attempts = @ + 1]
  /\ OtpLeave(p)
  /\ UNCHANGED <<accounts, misses, otpAborts>>

\* consumeOtpCode: by id, whether or not it has been consumed meanwhile.
VerifyConsume(p) ==
  /\ otpAt[p] = "consume"
  /\ codes' = [codes EXCEPT ![otpOf[p]].consumed = TRUE]
  /\ OtpGoto(p, "find_account", 0)
  /\ UNCHANGED <<accounts, misses, otpAborts>>

-----------------------------------------------------------------------------
(* The account of the number: the end of verifyOtp, and the whole of       *)
(* resolveUserFromContactPhone, which a chat enters from idle.             *)

\* Fault: an account that was never verified is not found.
FindVerifiedAccount(p) ==
  /\ otpAt[p] \in {"idle", "find_account"}
  /\ IF \E u \in DOMAIN accounts : accounts[u]
     THEN OtpLeave(p) ELSE OtpGoto(p, "create_account", 0)
  /\ UNCHANGED <<codes, accounts, misses, otpAborts>>

FindAccount(p) ==
  /\ otpAt[p] \in {"idle", "find_account"}
  /\ LET latest == Len(accounts)
     IN CASE latest = 0        -> OtpGoto(p, "create_account", 0)
          [] latest > 0 /\ ~accounts[latest] -> OtpGoto(p, "mark_account", latest)
          [] OTHER             -> OtpLeave(p)
  /\ UNCHANGED <<codes, accounts, misses, otpAborts>>

CreateAccount(p) ==
  /\ otpAt[p] = "create_account"
  /\ accounts' = Append(accounts, FALSE)
  /\ OtpGoto(p, "mark_account", Len(accounts) + 1)
  /\ UNCHANGED <<codes, misses, otpAborts>>

\* markPhoneVerified; verifyOtp then calls hookPhoneVerified (SmsFunnel).
MarkAccount(p) ==
  /\ otpAt[p] = "mark_account"
  /\ accounts' = [accounts EXCEPT ![otpOf[p]] = TRUE]
  /\ OtpLeave(p)
  /\ UNCHANGED <<codes, misses, otpAborts>>

-----------------------------------------------------------------------------
\* A call throws or the process stops: the calls made so far stay.
OtpAbort(p) ==
  /\ otpAt[p] # "idle"
  /\ otpAborts < MaxOtpAborts
  /\ otpAborts' = otpAborts + 1
  /\ OtpLeave(p)
  /\ UNCHANGED <<codes, accounts, misses>>

OtpRequestStep(p) ==
  \/ SendConsume(p) \/ SendCreate(p)
  \/ VerifyWrong(p) \/ VerifyRight(p) \/ VerifyIncrement(p) \/ VerifyConsume(p)
  \/ FindAccount(p) \/ CreateAccount(p) \/ MarkAccount(p)
  \/ OtpAbort(p)

OtpNext ==
  \/ \E p \in OtpRequests : OtpRequestStep(p)
  \/ \E i \in DOMAIN codes : CodeExpires(i)

OtpSpec == OtpInit /\ [][OtpNext]_otpVars

-----------------------------------------------------------------------------
(* Properties *)

\* verifyOtp checks the attempts on a row it read and counts a miss later, so
\* overlapping wrong guesses pass the limit together, and a request that dies
\* in between guesses for free.  A code is never compared more often than the
\* limit, the other requests in flight and the deaths account for.
GuessesBounded ==
  \A i \in DOMAIN misses :
    misses[i] <= MaxAttempts + (Cardinality(OtpRequests) - 1) + otpAborts

\* Finding and creating the account are two calls without a unique key: only
\* requests that overlapped the first creation add a second account, so a phone
\* never has more accounts than requests were in flight.
AccountsBounded == Len(accounts) <= Cardinality(OtpRequests)

\* Consuming the active codes and creating the new one are two calls: a code
\* that is superseded stays usable only while its sender overlapped another.
ActiveCodesBounded == Cardinality(ActiveCodes) <= Cardinality(OtpRequests)
=============================================================================
