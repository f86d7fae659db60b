---------------------------- MODULE Services_proofs ----------------------------
(***************************************************************************)
(* Proofs about the small services that MCServices checks together, each   *)
(* for any number of requests and any limits: OtpLogin and the limiters    *)
(* its requests pass first, StaffAccounts, and ReminderDigest, which       *)
(* extends it.                                                             *)
(*                                                                         *)
(* OtpLogin.  Each bound counts the requests that still carry the right to *)
(* break it: a request that has compared a wrong code and not yet counted  *)
(* it, one that is about to create an account, one that is about to create *)
(* a code.  A step turns one of them into what it creates, so the sum      *)
(* keeps its bound.                                                        *)
(*                                                                         *)
(* RateLimit.  A pass that still counts is a member of the set that every  *)
(* later hit counts, however late that hit is and whatever was pruned; so  *)
(* a hit that finds room finds it for the whole window.  And the hint of a *)
(* denial is not before the oldest member of a full bag leaves.            *)
(*                                                                         *)
(* StaffAccounts.  A deactivation is decided on a count and written by id. *)
(* What bridges the two is that it is alone: while no other is in flight,  *)
(* the admin who made the count larger than one is active at the write.    *)
(*                                                                         *)
(* ReminderDigest.  What makes OneDigestPerDay true is that a call that    *)
(* may still send holds the only claim (OneHolder), that whoever is        *)
(* claimed for and still to be served has had no digest                    *)
(* (HolderIsUnserved), and that a claim given back means the same          *)
(* (UnclaimedIsUnserved).                                                  *)
(***************************************************************************)
EXTENDS OtpLogin, RateLimit, ReminderDigest, FiniteSetTheorems, SequenceTheorems,
        WellFoundedInduction, TLAPS

-----------------------------------------------------------------------------
(* Login *)

CodeRecords == [consumed : BOOLEAN, expired : BOOLEAN, attempts : Nat]
OtpStages == {"idle", "create_code", "increment", "consume",
              "find_account", "create_account", "mark_account"}

OtpTypeOK ==
  /\ codes \in Seq(CodeRecords)
  /\ accounts \in Seq(BOOLEAN)
  /\ misses \in Seq(Nat) /\ Len(misses) = Len(codes)
  /\ otpAt \in [OtpRequests -> OtpStages]
  /\ otpOf \in [OtpRequests -> Nat]
  /\ otpAborts \in Nat
  /\ \A p \in OtpRequests :
       /\ otpAt[p] \in {"increment", "consume"} => otpOf[p] \in DOMAIN codes
       /\ otpAt[p] = "mark_account" => otpOf[p] \in DOMAIN accounts

\* Requests that have compared code i and not yet counted the miss.
Counting(i) == {p \in OtpRequests : otpAt[p] = "increment" /\ otpOf[p] = i}
Creating == {p \in OtpRequests : otpAt[p] = "create_account"}

\* Every miss has been counted, is being counted, or died uncounted.
MissesAreCounted ==
  \A i \in DOMAIN codes : misses[i] <= codes[i].attempts + Cardinality(Counting(i)) + otpAborts

AccountsAreBacked == Len(accounts) + Cardinality(Creating) <= Cardinality(OtpRequests)
CodesAreBacked == Cardinality(ActiveCodes) + Cardinality(Sending) <= Cardinality(OtpRequests)

OtpInv ==
  /\ OtpTypeOK
  /\ MissesAreCounted
  /\ GuessesBounded
  /\ AccountsAreBacked
  /\ CodesAreBacked

-----------------------------------------------------------------------------
(* Counting requests and codes *)

LEMMA RequestsCount ==
  ASSUME NEW S \in SUBSET OtpRequests
  PROVE  /\ IsFiniteSet(S)
         /\ Cardinality(S) \in Nat
         /\ Cardinality(OtpRequests) \in Nat \ {0}
         /\ Cardinality(S) <= Cardinality(OtpRequests)
<1>1. IsFiniteSet(OtpRequests) /\ OtpRequests # {}
  BY OtpAssumption
<1>2. IsFiniteSet(S) /\ Cardinality(S) <= Cardinality(OtpRequests)
  BY <1>1, FS_Subset
<1>3. Cardinality(S) \in Nat /\ Cardinality(OtpRequests) \in Nat
  BY <1>1, <1>2, FS_CardinalityType
<1>4. Cardinality(OtpRequests) # 0
  BY <1>1, FS_EmptySet
<1> QED
  BY <1>2, <1>3, <1>4

LEMMA CodesCount ==
  ASSUME OtpTypeOK, NEW S \in SUBSET DOMAIN codes
  PROVE  IsFiniteSet(S) /\ Cardinality(S) \in Nat
<1>1. DOMAIN codes = 1 .. Len(codes) /\ Len(codes) \in Nat
  BY DEF OtpTypeOK
<1>2. IsFiniteSet(1 .. Len(codes))
  BY <1>1, FS_Interval
<1> QED
  BY <1>1, <1>2, FS_Subset, FS_CardinalityType

\* A smaller set counts no more, one with a further member one more.
LEMMA FewerCount ==
  ASSUME NEW S, NEW T \in SUBSET S, IsFiniteSet(S)
  PROVE  Cardinality(T) <= Cardinality(S)
BY FS_Subset

LEMMA OneLessCount ==
  ASSUME NEW S, NEW x \in S, IsFiniteSet(S), NEW T \in SUBSET (S \ {x})
  PROVE  Cardinality(T) <= Cardinality(S) - 1
<1>1. IsFiniteSet(S \ {x}) /\ Cardinality(S \ {x}) = Cardinality(S) - 1
  BY FS_RemoveElement
<1> QED
  BY <1>1, FS_Subset

LEMMA OneMoreCount ==
  ASSUME NEW S, NEW x, IsFiniteSet(S), NEW T \in SUBSET (S \cup {x})
  PROVE  Cardinality(T) <= Cardinality(S) + 1
<1>1. IsFiniteSet(S \cup {x}) /\ Cardinality(S \cup {x}) <= Cardinality(S) + 1
  <2>1. Cardinality(S) \in Nat
    BY FS_CardinalityType
  <2> QED
    BY <2>1, FS_AddElement
<1>2. Cardinality(T) <= Cardinality(S \cup {x})
  BY <1>1, FS_Subset
<1>3. Cardinality(T) \in Nat /\ Cardinality(S \cup {x}) \in Nat /\ Cardinality(S) \in Nat
  BY <1>1, FS_Subset, FS_CardinalityType
<1> QED
  BY <1>1, <1>2, <1>3

-----------------------------------------------------------------------------
(* Types *)

\* Rows are changed in place or appended, never removed.
LEMMA CodesRewritten ==
  ASSUME OtpTypeOK, codes' \in [DOMAIN codes -> CodeRecords]
  PROVE  codes' \in Seq(CodeRecords) /\ Len(codes') = Len(codes) /\ DOMAIN codes' = DOMAIN codes
<1>1. Len(codes) \in Nat /\ DOMAIN codes = 1 .. Len(codes)
  BY LenProperties DEF OtpTypeOK
<1>2. codes' \in Seq(CodeRecords)
  BY <1>1, SeqDef
<1>3. Len(codes') \in Nat /\ DOMAIN codes' = 1 .. Len(codes')
  BY <1>2, LenProperties
<1> QED
  BY <1>1, <1>2, <1>3

\* A request that leaves is at rest, one that goes on holds a row that exists.
LEMMA GotoKeepsTypes ==
  ASSUME OtpTypeOK, NEW p \in OtpRequests, NEW stage \in OtpStages, NEW row \in Nat,
         OtpGoto(p, stage, row),
         codes' \in Seq(CodeRecords), accounts' \in Seq(BOOLEAN),
         misses' \in Seq(Nat), Len(misses') = Len(codes'), otpAborts' \in Nat,
         DOMAIN codes \subseteq DOMAIN codes', DOMAIN accounts \subseteq DOMAIN accounts',
         stage \in {"increment", "consume"} => row \in DOMAIN codes',
         stage = "mark_account" => row \in DOMAIN accounts'
  PROVE  OtpTypeOK'
<1>1. otpAt' = [otpAt EXCEPT ![p] = stage] /\ otpOf' = [otpOf EXCEPT ![p] = row]
  BY DEF OtpGoto
<1>2. otpAt' \in [OtpRequests -> OtpStages] /\ otpOf' \in [OtpRequests -> Nat]
  BY <1>1 DEF OtpTypeOK
<1>3. \A q \in OtpRequests :
        /\ otpAt'[q] \in {"increment", "consume"} => otpOf'[q] \in DOMAIN codes'
        /\ otpAt'[q] = "mark_account" => otpOf'[q] \in DOMAIN accounts'
  BY <1>1 DEF OtpTypeOK
<1> QED
  BY <1>2, <1>3 DEF OtpTypeOK

LEMMA Rows ==
  ASSUME OtpTypeOK
  PROVE  /\ Len(codes) \in Nat /\ DOMAIN codes = 1 .. Len(codes)
         /\ Len(accounts) \in Nat /\ DOMAIN accounts = 1 .. Len(accounts)
         /\ DOMAIN misses = DOMAIN codes
         /\ \A i \in DOMAIN codes : codes[i] \in CodeRecords /\ misses[i] \in Nat
         /\ \A u \in DOMAIN accounts : accounts[u] \in BOOLEAN
BY LenProperties, ElementOfSeq DEF OtpTypeOK

LEMMA OtpTypeStep ==
  ASSUME OtpTypeOK, [OtpNext]_otpVars
  PROVE  OtpTypeOK'
<1> USE DEF OtpLeave
<1>0. /\ DOMAIN codes = 1 .. Len(codes) /\ Len(codes) \in Nat
      /\ DOMAIN accounts = 1 .. Len(accounts) /\ Len(accounts) \in Nat
      /\ DOMAIN misses = DOMAIN codes
      /\ codes \in [DOMAIN codes -> CodeRecords]
      /\ \A i \in DOMAIN codes : misses[i] \in Nat
  BY Rows, LenProperties DEF OtpTypeOK
<1>1. CASE UNCHANGED otpVars
  BY <1>1 DEF otpVars, OtpTypeOK
<1>2. ASSUME NEW p \in OtpRequests, SendConsume(p)
      PROVE  OtpTypeOK'
  <2>1. codes' \in [DOMAIN codes -> CodeRecords]
    BY <1>0, <1>2 DEF SendConsume, CodeRecords
  <2>2. codes' \in Seq(CodeRecords) /\ Len(codes') = Len(codes) /\ DOMAIN codes' = DOMAIN codes
    BY <2>1, CodesRewritten
  <2>3. "create_code" \in OtpStages /\ OtpGoto(p, "create_code", 0)
    BY <1>2 DEF SendConsume, OtpStages
  <2>4. UNCHANGED <<accounts, misses, otpAborts>>
    BY <1>2 DEF SendConsume
  <2> QED
    BY <2>2, <2>3, <2>4, GotoKeepsTypes DEF OtpTypeOK
<1>3. ASSUME NEW p \in OtpRequests, SendCreate(p)
      PROVE  OtpTypeOK'
  <2>1. codes' = Append(codes, [consumed |-> FALSE, expired |-> FALSE, attempts |-> 0])
    BY <1>3 DEF SendCreate
  <2>2. codes' \in Seq(CodeRecords) /\ Len(codes') = Len(codes) + 1
    BY <2>1 DEF OtpTypeOK, CodeRecords
  <2>3. misses' \in Seq(Nat) /\ Len(misses') = Len(codes')
    BY <1>3, <2>2 DEF SendCreate, OtpTypeOK
  <2>4. DOMAIN codes \subseteq DOMAIN codes'
    BY <1>0, <2>2, LenProperties
  <2>5. "idle" \in OtpStages /\ OtpGoto(p, "idle", 0)
    BY <1>3 DEF SendCreate, OtpStages
  <2>6. UNCHANGED <<accounts, otpAborts>>
    BY <1>3 DEF SendCreate
  <2> QED
    BY <2>2, <2>3, <2>4, <2>5, <2>6, GotoKeepsTypes DEF OtpTypeOK
<1>4. ASSUME NEW p \in OtpRequests, VerifyWrong(p)
      PROVE  OtpTypeOK'
  <2>1. PICK i \in DOMAIN codes : misses' = [misses EXCEPT ![i] = @ + 1] /\ OtpGoto(p, "increment", i)
    BY <1>4 DEF VerifyWrong
  <2>2. misses' \in Seq(Nat) /\ Len(misses') = Len(misses)
    BY <1>0, <2>1, ExceptSeq DEF OtpTypeOK
  <2>3. "increment" \in OtpStages /\ i \in Nat
    BY <1>0 DEF OtpStages
  <2>4. UNCHANGED <<codes, accounts, otpAborts>>
    BY <1>4 DEF VerifyWrong
  <2>5. /\ codes' \in Seq(CodeRecords) /\ accounts' \in Seq(BOOLEAN) /\ otpAborts' \in Nat
        /\ Len(misses') = Len(codes') /\ i \in DOMAIN codes'
    BY <2>1, <2>2, <2>4 DEF OtpTypeOK
  <2> QED
    BY <2>1, <2>2, <2>3, <2>4, <2>5, GotoKeepsTypes
<1>5. ASSUME NEW p \in OtpRequests, VerifyRight(p)
      PROVE  OtpTypeOK'
  <2>1. PICK i \in DOMAIN codes : OtpGoto(p, "consume", i)
    BY <1>5 DEF VerifyRight
  <2>2. "consume" \in OtpStages /\ i \in Nat
    BY <1>0 DEF OtpStages
  <2> QED
    BY <1>5, <2>1, <2>2, GotoKeepsTypes DEF VerifyRight, OtpTypeOK
<1>6. ASSUME NEW p \in OtpRequests, VerifyIncrement(p)
      PROVE  OtpTypeOK'
  <2>1. otpOf[p] \in DOMAIN codes
    BY <1>6 DEF VerifyIncrement, OtpTypeOK
  <2>2. codes' \in [DOMAIN codes -> CodeRecords]
    BY <1>0, <1>6, <2>1 DEF VerifyIncrement, CodeRecords
  <2>3. codes' \in Seq(CodeRecords) /\ Len(codes') = Len(codes) /\ DOMAIN codes' = DOMAIN codes
    BY <2>2, CodesRewritten
  <2>4. "idle" \in OtpStages /\ OtpGoto(p, "idle", 0)
    BY <1>6 DEF VerifyIncrement, OtpStages
  <2> QED
    BY <1>6, <2>3, <2>4, GotoKeepsTypes DEF VerifyIncrement, OtpTypeOK
<1>7. ASSUME NEW p \in OtpRequests, VerifyConsume(p)
      PROVE  OtpTypeOK'
  <2>1. codes' \in [DOMAIN codes -> CodeRecords]
    BY <1>0, <1>7 DEF VerifyConsume, CodeRecords
  <2>2. codes' \in Seq(CodeRecords) /\ Len(codes') = Len(codes) /\ DOMAIN codes' = DOMAIN codes
    BY <2>1, CodesRewritten
  <2>3. "find_account" \in OtpStages /\ OtpGoto(p, "find_account", 0)
    BY <1>7 DEF VerifyConsume, OtpStages
  <2> QED
    BY <1>7, <2>2, <2>3, GotoKeepsTypes DEF VerifyConsume, OtpTypeOK
<1>8. ASSUME NEW p \in OtpRequests, FindAccount(p)
      PROVE  OtpTypeOK'
  <2>1. \/ OtpGoto(p, "create_account", 0)
        \/ OtpGoto(p, "mark_account", Len(accounts)) /\ Len(accounts) > 0
        \/ OtpGoto(p, "idle", 0)
    BY <1>0, <1>8 DEF FindAccount
  <2>2. {"create_account", "mark_account", "idle"} \subseteq OtpStages
    BY DEF OtpStages
  <2>3. Len(accounts) > 0 => Len(accounts) \in DOMAIN accounts
    BY <1>0
  <2>4. UNCHANGED <<codes, accounts, misses, otpAborts>>
    BY <1>8 DEF FindAccount
  <2> QED
    BY <1>0, <2>1, <2>2, <2>3, <2>4, GotoKeepsTypes DEF OtpTypeOK
<1>9. ASSUME NEW p \in OtpRequests, CreateAccount(p)
      PROVE  OtpTypeOK'
  <2>1. accounts' \in Seq(BOOLEAN) /\ Len(accounts') = Len(accounts) + 1
    BY <1>9 DEF CreateAccount, OtpTypeOK
  <2>2. DOMAIN accounts \subseteq DOMAIN accounts' /\ Len(accounts) + 1 \in DOMAIN accounts'
    BY <1>0, <2>1, LenProperties
  <2>3. "mark_account" \in OtpStages /\ OtpGoto(p, "mark_account", Len(accounts) + 1)
    BY <1>9 DEF CreateAccount, OtpStages
  <2>4. UNCHANGED <<codes, misses, otpAborts>>
    BY <1>9 DEF CreateAccount
  <2>5. /\ codes' \in Seq(CodeRecords) /\ misses' \in Seq(Nat) /\ Len(misses') = Len(codes')
        /\ otpAborts' \in Nat
        /\ DOMAIN codes \subseteq DOMAIN codes'
        /\ Len(accounts) + 1 \in Nat
    BY <1>0, <2>4 DEF OtpTypeOK
  <2> QED
    BY <2>1, <2>2, <2>3, <2>5, GotoKeepsTypes
<1>10. ASSUME NEW p \in OtpRequests, MarkAccount(p)
       PROVE  OtpTypeOK'
  <2>1. otpOf[p] \in DOMAIN accounts
    BY <1>10 DEF MarkAccount, OtpTypeOK
  <2>2. accounts' \in Seq(BOOLEAN) /\ Len(accounts') = Len(accounts)
    BY <1>0, <1>10, <2>1, ExceptSeq DEF MarkAccount, OtpTypeOK
  <2>3. DOMAIN accounts' = DOMAIN accounts
    BY <1>0, <2>2, LenProperties
  <2>4. "idle" \in OtpStages /\ OtpGoto(p, "idle", 0)
    BY <1>10 DEF MarkAccount, OtpStages
  <2> QED
    BY <1>10, <2>2, <2>3, <2>4, GotoKeepsTypes DEF MarkAccount, OtpTypeOK
<1>11. ASSUME NEW p \in OtpRequests, OtpAbort(p)
       PROVE  OtpTypeOK'
  <2>1. "idle" \in OtpStages /\ OtpGoto(p, "idle", 0)
    BY <1>11 DEF OtpAbort, OtpStages
  <2>2. otpAborts' \in Nat
    BY <1>11 DEF OtpAbort, OtpTypeOK
  <2> QED
    BY <1>11, <2>1, <2>2, GotoKeepsTypes DEF OtpAbort, OtpTypeOK
<1>12. ASSUME NEW i \in DOMAIN codes, CodeExpires(i)
       PROVE  OtpTypeOK'
  <2>1. codes' \in [DOMAIN codes -> CodeRecords]
    BY <1>0, <1>12 DEF CodeExpires, CodeRecords
  <2>2. codes' \in Seq(CodeRecords) /\ Len(codes') = Len(codes) /\ DOMAIN codes' = DOMAIN codes
    BY <2>1, CodesRewritten
  <2> QED
    BY <1>12, <2>2 DEF CodeExpires, OtpTypeOK
<1> QED
  BY <1>1, <1>2, <1>3, <1>4, <1>5, <1>6, <1>7, <1>8, <1>9, <1>10, <1>11, <1>12
     DEF OtpNext, OtpRequestStep

-----------------------------------------------------------------------------
(* What a request's move does to the sets that are counted *)

LEMMA GotoMoves ==
  ASSUME OtpTypeOK, NEW p \in OtpRequests, NEW stage, NEW row, OtpGoto(p, stage, row)
  PROVE  /\ \A i : otpAt[p] # "increment" \/ otpOf[p] # i => Counting(i) \subseteq Counting(i)'
         /\ \A i : Counting(i) \ {p} \subseteq Counting(i)'
         /\ stage # "create_account" => Creating' \subseteq Creating \ {p}
         /\ stage # "create_code" => Sending' \subseteq Sending \ {p}
<1>1. /\ otpAt'[p] = stage /\ otpOf'[p] = row
      /\ \A q \in OtpRequests \ {p} : otpAt'[q] = otpAt[q] /\ otpOf'[q] = otpOf[q]
  BY DEF OtpGoto, OtpTypeOK
<1>2. \A i : /\ otpAt[p] # "increment" \/ otpOf[p] # i => Counting(i) \subseteq Counting(i)'
             /\ Counting(i) \ {p} \subseteq Counting(i)'
  BY <1>1 DEF Counting
<1>3. stage # "create_account" => Creating' \subseteq Creating \ {p}
  BY <1>1 DEF Creating
<1>4. stage # "create_code" => Sending' \subseteq Sending \ {p}
  BY <1>1 DEF Sending
<1> QED
  BY <1>2, <1>3, <1>4

LEMMA CountingCount ==
  ASSUME NEW i
  PROVE  /\ IsFiniteSet(Counting(i)) /\ Cardinality(Counting(i)) \in Nat
         /\ IsFiniteSet(Counting(i)') /\ Cardinality(Counting(i)') \in Nat
<1>1. Counting(i) \in SUBSET OtpRequests /\ Counting(i)' \in SUBSET OtpRequests
  BY DEF Counting
<1> QED
  BY <1>1, RequestsCount

-----------------------------------------------------------------------------
(* Wrong guesses *)

LEMMA QuietForGuesses ==
  ASSUME OtpInv, UNCHANGED <<misses, otpAborts>>, DOMAIN codes' = DOMAIN codes,
         \A i \in DOMAIN codes : codes'[i].attempts = codes[i].attempts,
         \A i \in DOMAIN codes : Counting(i) \subseteq Counting(i)'
  PROVE  MissesAreCounted' /\ GuessesBounded'
<1>1. GuessesBounded'
  BY DEF OtpInv, GuessesBounded
<1>2. ASSUME NEW i \in DOMAIN codes
      PROVE  misses'[i] <= codes'[i].attempts + Cardinality(Counting(i)') + otpAborts'
  <2>1. Cardinality(Counting(i)) <= Cardinality(Counting(i)')
    BY CountingCount, FewerCount
  <2>2. misses[i] \in Nat /\ codes[i].attempts \in Nat /\ otpAborts \in Nat
    BY Rows DEF OtpInv, OtpTypeOK, CodeRecords
  <2>3. misses[i] <= codes[i].attempts + Cardinality(Counting(i)) + otpAborts
    BY DEF OtpInv, MissesAreCounted
  <2> QED
    BY <2>1, <2>2, <2>3, CountingCount
<1> QED
  BY <1>1, <1>2 DEF MissesAreCounted

LEMMA GuessesStep ==
  ASSUME OtpInv, [OtpNext]_otpVars
  PROVE  MissesAreCounted' /\ GuessesBounded'
<1>0. /\ OtpTypeOK
      /\ DOMAIN codes = 1 .. Len(codes) /\ Len(codes) \in Nat
      /\ codes \in [DOMAIN codes -> CodeRecords]
      /\ DOMAIN misses = DOMAIN codes
      /\ \A i \in DOMAIN codes : misses[i] \in Nat /\ codes[i].attempts \in Nat
      /\ otpAborts \in Nat
      /\ MaxAttempts \in Nat
      /\ Cardinality(OtpRequests) \in Nat \ {0}
  <2>1. Cardinality(OtpRequests) \in Nat \ {0}
    BY RequestsCount
  <2>2. codes \in [DOMAIN codes -> CodeRecords]
    BY LenProperties DEF OtpInv, OtpTypeOK
  <2> QED
    BY <2>1, <2>2, Rows, OtpAssumption DEF OtpInv, OtpTypeOK, CodeRecords
<1>n. /\ \A i \in DOMAIN codes : misses[i] \in Nat /\ codes[i].attempts \in Nat
      /\ otpAborts \in Nat /\ MaxAttempts \in Nat /\ Cardinality(OtpRequests) \in Nat
  BY <1>0
<1>1. CASE UNCHANGED otpVars
  <2>1. \A i : Counting(i)' = Counting(i)
    BY <1>1 DEF otpVars, Counting
  <2> QED
    BY <1>1, <2>1, QuietForGuesses DEF otpVars
<1>2. ASSUME NEW p \in OtpRequests,
             \/ SendConsume(p) \/ VerifyRight(p) \/ VerifyConsume(p)
             \/ FindAccount(p) \/ CreateAccount(p) \/ MarkAccount(p)
      PROVE  MissesAreCounted' /\ GuessesBounded'
  <2>1. /\ UNCHANGED <<misses, otpAborts>>
        /\ DOMAIN codes' = DOMAIN codes
        /\ \A i \in DOMAIN codes : codes'[i].attempts = codes[i].attempts
    <3>1. CASE SendConsume(p)
      BY <1>0, <3>1 DEF SendConsume, OtpTypeOK, CodeRecords
    <3>2. CASE VerifyConsume(p)
      BY <1>0, <3>2 DEF VerifyConsume, OtpTypeOK, CodeRecords
    <3> QED
      BY <1>2, <3>1, <3>2 DEF VerifyRight, FindAccount, CreateAccount, MarkAccount
  <2>2. otpAt[p] # "increment" /\ \E stage, row : OtpGoto(p, stage, row)
    BY <1>2 DEF SendConsume, VerifyRight, VerifyConsume, FindAccount, CreateAccount, MarkAccount, OtpLeave
  <2>3. \A i : Counting(i) \subseteq Counting(i)'
    BY <1>0, <2>2, GotoMoves
  <2> QED
    BY <2>1, <2>3, QuietForGuesses
<1>3. ASSUME NEW p \in OtpRequests, SendCreate(p)
      PROVE  MissesAreCounted' /\ GuessesBounded'
  <2>1. /\ codes' = Append(codes, [consumed |-> FALSE, expired |-> FALSE, attempts |-> 0])
        /\ misses' = Append(misses, 0) /\ otpAborts' = otpAborts
    BY <1>3 DEF SendCreate
  <2>2. DOMAIN codes' = 1 .. Len(codes) + 1 /\ DOMAIN misses' = 1 .. Len(codes) + 1
    BY <1>0, <2>1 DEF OtpTypeOK
  <2>3. \A i \in 1 .. Len(codes) : codes'[i] = codes[i] /\ misses'[i] = misses[i]
    BY <1>0, <2>1 DEF OtpTypeOK
  <2>4. misses'[Len(codes) + 1] = 0 /\ codes'[Len(codes) + 1].attempts = 0
    BY <1>0, <2>1 DEF OtpTypeOK
  <2>5. \A i : Counting(i) \subseteq Counting(i)'
    BY <1>0, <1>3, GotoMoves DEF SendCreate, OtpLeave
  <2>6. ASSUME NEW i \in DOMAIN codes'
        PROVE  /\ misses'[i] <= codes'[i].attempts + Cardinality(Counting(i)') + otpAborts'
               /\ misses'[i] <= MaxAttempts + (Cardinality(OtpRequests) - 1) + otpAborts'
    <3>1. CASE i = Len(codes) + 1
      BY <1>0, <2>1, <2>4, <3>1, CountingCount
    <3>2. CASE i \in DOMAIN codes
      <4>1. Cardinality(Counting(i)) <= Cardinality(Counting(i)')
        BY <2>5, CountingCount, FewerCount
      <4>2. /\ misses[i] <= codes[i].attempts + Cardinality(Counting(i)) + otpAborts
            /\ misses[i] <= MaxAttempts + (Cardinality(OtpRequests) - 1) + otpAborts
        BY <1>0, <3>2 DEF OtpInv, MissesAreCounted, GuessesBounded
      <4>3. Cardinality(Counting(i)) \in Nat /\ Cardinality(Counting(i)') \in Nat
        BY CountingCount
      <4>4. codes'[i] = codes[i] /\ misses'[i] = misses[i] /\ otpAborts' = otpAborts
        BY <1>0, <2>1, <2>3, <3>2
      <4> QED
        BY <1>n, <3>2, <4>1, <4>2, <4>3, <4>4
    <3> QED
      BY <1>0, <2>2, <3>1, <3>2
  <2> QED
    BY <2>2, <2>6 DEF MissesAreCounted, GuessesBounded
\* The comparison itself: p was at rest, so at most all the others are counting.
<1>4. ASSUME NEW p \in OtpRequests, VerifyWrong(p)
      PROVE  MissesAreCounted' /\ GuessesBounded'
  <2>1. PICK i \in DOMAIN codes :
          /\ MayCompare(i)
          /\ misses' = [misses EXCEPT ![i] = @ + 1]
          /\ OtpGoto(p, "increment", i)
    BY <1>4 DEF VerifyWrong
  <2>2. UNCHANGED <<codes, otpAborts>> /\ otpAt[p] = "idle"
    BY <1>4 DEF VerifyWrong
  <2>3. /\ DOMAIN misses' = DOMAIN codes /\ misses'[i] = misses[i] + 1
        /\ \A j \in DOMAIN codes \ {i} : misses'[j] = misses[j]
    BY <1>0, <2>1 DEF OtpTypeOK
  <2>4. \A j : Counting(j) \subseteq Counting(j)'
    BY <1>0, <2>1, <2>2, GotoMoves
  <2>5. p \in Counting(i)' /\ Counting(i) \in SUBSET (Counting(i)' \ {p})
    BY <1>0, <2>1, <2>2, <2>4 DEF OtpGoto, Counting, OtpTypeOK
  <2>6. Cardinality(Counting(i)) <= Cardinality(Counting(i)') - 1
    BY <2>5, CountingCount, OneLessCount
  <2>7. Cardinality(Counting(i)) <= Cardinality(OtpRequests) - 1
    <3>1. Counting(i) \in SUBSET (OtpRequests \ {p})
      BY <2>2 DEF Counting
    <3> QED
      BY <3>1, OtpAssumption, OneLessCount
  <2>8. codes[i].attempts + 1 <= MaxAttempts
    BY <1>0, <2>1 DEF MayCompare
  <2>9. \A j \in DOMAIN codes :
          /\ misses[j] <= codes[j].attempts + Cardinality(Counting(j)) + otpAborts
          /\ misses[j] <= MaxAttempts + (Cardinality(OtpRequests) - 1) + otpAborts
    BY <1>0 DEF OtpInv, MissesAreCounted, GuessesBounded
  <2>10. ASSUME NEW j \in DOMAIN codes
         PROVE  /\ misses'[j] <= codes[j].attempts + Cardinality(Counting(j)') + otpAborts
                /\ misses'[j] <= MaxAttempts + (Cardinality(OtpRequests) - 1) + otpAborts
    <3>1. CASE j = i
      <4>1. Cardinality(Counting(i)) \in Nat /\ Cardinality(Counting(i)') \in Nat
        BY CountingCount
      <4>2. misses[i] <= codes[i].attempts + Cardinality(Counting(i)) + otpAborts
        BY <2>9
      <4>3. misses'[i] = misses[i] + 1
        BY <2>3
      <4>4. misses'[i] <= codes[i].attempts + Cardinality(Counting(i)') + otpAborts
        BY <1>n, <2>6, <4>1, <4>2, <4>3
      <4>5. misses'[i] <= MaxAttempts + (Cardinality(OtpRequests) - 1) + otpAborts
        BY <1>n, <2>7, <2>8, <4>1, <4>2, <4>3
      <4> QED
        BY <3>1, <4>4, <4>5
    <3>2. CASE j # i
      <4>1. Cardinality(Counting(j)) <= Cardinality(Counting(j)')
        BY <2>4, CountingCount, FewerCount
      <4>2. Cardinality(Counting(j)) \in Nat /\ Cardinality(Counting(j)') \in Nat
        BY CountingCount
      <4>3. misses'[j] = misses[j]
        BY <2>3, <3>2
      <4> QED
        BY <1>n, <2>9, <4>1, <4>2, <4>3
    <3> QED
      BY <3>1, <3>2
  <2> QED
    BY <2>2, <2>3, <2>10 DEF MissesAreCounted, GuessesBounded
<1>5. ASSUME NEW p \in OtpRequests, VerifyIncrement(p)
      PROVE  MissesAreCounted' /\ GuessesBounded'
  <2>1. PICK i \in DOMAIN codes : i = otpOf[p]
    BY <1>0, <1>5 DEF VerifyIncrement, OtpTypeOK
  <2>2. /\ codes' = [codes EXCEPT ![i].attempts = @ + 1]
        /\ UNCHANGED <<misses, otpAborts>> /\ OtpGoto(p, "idle", 0)
    BY <1>5, <2>1 DEF VerifyIncrement, OtpLeave
  <2>3. /\ DOMAIN codes' = DOMAIN codes
        /\ codes'[i].attempts = codes[i].attempts + 1
        /\ \A j \in DOMAIN codes \ {i} : codes'[j] = codes[j]
    BY <1>0, <2>2 DEF OtpTypeOK, CodeRecords
  <2>4. ASSUME NEW j \in DOMAIN codes
        PROVE  misses[j] <= codes'[j].attempts + Cardinality(Counting(j)') + otpAborts
    <3>1. misses[j] <= codes[j].attempts + Cardinality(Counting(j)) + otpAborts
      BY <1>0 DEF OtpInv, MissesAreCounted
    <3>2. CASE j = i
      <4>1. Counting(i) \in SUBSET (Counting(i)' \cup {p})
        BY <1>0, <2>2, GotoMoves
      <4>2. Cardinality(Counting(i)) <= Cardinality(Counting(i)') + 1
        BY <4>1, CountingCount, OneMoreCount
      <4>3. Cardinality(Counting(i)) \in Nat /\ Cardinality(Counting(i)') \in Nat
        BY CountingCount
      <4>4. codes'[i].attempts = codes[i].attempts + 1
        BY <2>3
      <4> QED
        BY <1>n, <3>1, <3>2, <4>2, <4>3, <4>4
    <3>3. CASE j # i
      <4>1. Counting(j) \in SUBSET Counting(j)'
        BY <1>0, <2>1, <2>2, <3>3, GotoMoves
      <4>2. Cardinality(Counting(j)) <= Cardinality(Counting(j)')
        BY <4>1, CountingCount, FewerCount
      <4>3. Cardinality(Counting(j)) \in Nat /\ Cardinality(Counting(j)') \in Nat
        BY CountingCount
      <4>4. codes'[j].attempts = codes[j].attempts
        BY <2>3, <3>3
      <4> QED
        BY <1>n, <3>1, <4>2, <4>3, <4>4
    <3> QED
      BY <3>2, <3>3
  <2>5. MissesAreCounted'
    BY <2>2, <2>3, <2>4 DEF MissesAreCounted
  <2>6. GuessesBounded'
    BY <2>2 DEF OtpInv, GuessesBounded
  <2> QED
    BY <2>5, <2>6
\* A death leaves one guess uncounted.
<1>6. ASSUME NEW p \in OtpRequests, OtpAbort(p)
      PROVE  MissesAreCounted' /\ GuessesBounded'
  <2>1. /\ UNCHANGED <<codes, misses>> /\ otpAborts' = otpAborts + 1
        /\ OtpGoto(p, "idle", 0)
    BY <1>6 DEF OtpAbort, OtpLeave
  <2>2. ASSUME NEW j \in DOMAIN codes
        PROVE  /\ misses[j] <= codes[j].attempts + Cardinality(Counting(j)') + otpAborts'
               /\ misses[j] <= MaxAttempts + (Cardinality(OtpRequests) - 1) + otpAborts'
    <3>1. Counting(j) \in SUBSET (Counting(j)' \cup {p})
      BY <1>0, <2>1, GotoMoves
    <3>2. Cardinality(Counting(j)) <= Cardinality(Counting(j)') + 1
      BY <3>1, CountingCount, OneMoreCount
    <3>3. /\ misses[j] <= codes[j].attempts + Cardinality(Counting(j)) + otpAborts
          /\ misses[j] <= MaxAttempts + (Cardinality(OtpRequests) - 1) + otpAborts
      BY <1>0 DEF OtpInv, MissesAreCounted, GuessesBounded
    <3>4. Cardinality(Counting(j)) \in Nat /\ Cardinality(Counting(j)') \in Nat
      BY CountingCount
    <3>5. otpAborts' = otpAborts + 1
      BY <2>1
    <3> QED
      BY <1>n, <3>2, <3>3, <3>4, <3>5
  <2> QED
    BY <1>0, <2>1, <2>2 DEF MissesAreCounted, GuessesBounded
<1>7. ASSUME NEW i \in DOMAIN codes, CodeExpires(i)
      PROVE  MissesAreCounted' /\ GuessesBounded'
  <2>1. /\ UNCHANGED <<misses, otpAborts, otpAt, otpOf>>
        /\ DOMAIN codes' = DOMAIN codes
        /\ \A j \in DOMAIN codes : codes'[j].attempts = codes[j].attempts
    BY <1>0, <1>7 DEF CodeExpires, OtpTypeOK, CodeRecords
  <2>2. \A j : Counting(j)' = Counting(j)
    BY <2>1 DEF Counting
  <2> QED
    BY <2>1, <2>2, QuietForGuesses
<1> QED
  BY <1>1, <1>2, <1>3, <1>4, <1>5, <1>6, <1>7 DEF OtpNext, OtpRequestStep

-----------------------------------------------------------------------------
(* Accounts *)

LEMMA AccountsStep ==
  ASSUME OtpInv, [OtpNext]_otpVars
  PROVE  AccountsAreBacked'
<1>0. /\ OtpTypeOK
      /\ Len(accounts) \in Nat
      /\ Len(accounts) + Cardinality(Creating) <= Cardinality(OtpRequests)
      /\ IsFiniteSet(Creating) /\ Cardinality(Creating) \in Nat
      /\ IsFiniteSet(Creating') /\ Cardinality(Creating') \in Nat
      /\ Cardinality(OtpRequests) \in Nat
      /\ Cardinality(Creating') <= Cardinality(OtpRequests)
  <2>1. Creating \in SUBSET OtpRequests /\ Creating' \in SUBSET OtpRequests
    BY DEF Creating
  <2> QED
    BY <2>1, Rows, RequestsCount DEF OtpInv, AccountsAreBacked
<1>1. ASSUME Creating' \subseteq Creating, Len(accounts') = Len(accounts)
      PROVE  AccountsAreBacked'
  <2>1. Cardinality(Creating') <= Cardinality(Creating)
    BY <1>0, <1>1, FewerCount
  <2> QED
    BY <1>0, <1>1, <2>1 DEF AccountsAreBacked
<1>2. CASE UNCHANGED otpVars
  BY <1>1, <1>2 DEF otpVars, Creating
<1>3. ASSUME NEW p \in OtpRequests,
             \/ SendConsume(p) \/ SendCreate(p)
             \/ VerifyWrong(p) \/ VerifyRight(p) \/ VerifyIncrement(p) \/ VerifyConsume(p)
             \/ OtpAbort(p)
      PROVE  AccountsAreBacked'
  <2>1. UNCHANGED accounts
    BY <1>3 DEF SendConsume, SendCreate, VerifyWrong, VerifyRight, VerifyIncrement, VerifyConsume, OtpAbort
  <2>2. \E stage, row : stage # "create_account" /\ OtpGoto(p, stage, row)
    <3>1. \A row : \A stage \in {"idle", "create_code", "increment", "consume", "find_account"} :
            stage # "create_account"
      OBVIOUS
    <3> QED
      BY <1>3, <3>1
         DEF SendConsume, SendCreate, VerifyWrong, VerifyRight, VerifyIncrement, VerifyConsume, OtpAbort, OtpLeave
  <2> QED
    BY <1>0, <1>1, <2>1, <2>2, GotoMoves
<1>4. ASSUME NEW p \in OtpRequests, FindAccount(p)
      PROVE  AccountsAreBacked'
  <2>1. UNCHANGED accounts
    BY <1>4 DEF FindAccount
  <2>2. CASE Len(accounts) = 0
    BY <1>0, <2>1, <2>2 DEF AccountsAreBacked
  <2>3. CASE Len(accounts) # 0
    <3>1. OtpGoto(p, "mark_account", Len(accounts)) \/ OtpGoto(p, "idle", 0)
      BY <1>0, <1>4, <2>3 DEF FindAccount, OtpLeave
    <3> QED
      BY <1>0, <1>1, <2>1, <3>1, GotoMoves
  <2> QED
    BY <2>2, <2>3
<1>5. ASSUME NEW p \in OtpRequests, CreateAccount(p)
      PROVE  AccountsAreBacked'
  <2>1. Len(accounts') = Len(accounts) + 1
    BY <1>0, <1>5 DEF CreateAccount, OtpTypeOK
  <2>2. Creating' \in SUBSET (Creating \ {p}) /\ p \in Creating
    BY <1>0, <1>5, GotoMoves DEF CreateAccount, Creating
  <2>3. Cardinality(Creating') <= Cardinality(Creating) - 1
    BY <1>0, <2>2, OneLessCount
  <2> QED
    BY <1>0, <2>1, <2>3 DEF AccountsAreBacked
<1>6. ASSUME NEW p \in OtpRequests, MarkAccount(p)
      PROVE  AccountsAreBacked'
  <2>1. Len(accounts') = Len(accounts)
    BY <1>0, <1>6, ExceptSeq DEF MarkAccount, OtpTypeOK
  <2>2. Creating' \subseteq Creating
    BY <1>0, <1>6, GotoMoves DEF MarkAccount, OtpLeave
  <2> QED
    BY <1>1, <2>1, <2>2
<1>7. ASSUME NEW i \in DOMAIN codes, CodeExpires(i)
      PROVE  AccountsAreBacked'
  BY <1>1, <1>7 DEF CodeExpires, Creating
<1> QED
  BY <1>2, <1>3, <1>4, <1>5, <1>6, <1>7 DEF OtpNext, OtpRequestStep

-----------------------------------------------------------------------------
(* Active codes *)

LEMMA CodesStep ==
  ASSUME OtpInv, OtpTypeOK', [OtpNext]_otpVars
  PROVE  CodesAreBacked'
<1>0. /\ OtpTypeOK
      /\ Len(codes) \in Nat /\ DOMAIN codes = 1 .. Len(codes)
      /\ codes \in [DOMAIN codes -> CodeRecords]
      /\ Cardinality(ActiveCodes) + Cardinality(Sending) <= Cardinality(OtpRequests)
      /\ IsFiniteSet(Sending) /\ Cardinality(Sending) \in Nat
      /\ IsFiniteSet(Sending') /\ Cardinality(Sending') \in Nat
      /\ Cardinality(OtpRequests) \in Nat
      /\ Cardinality(Sending') <= Cardinality(OtpRequests)
  <2>1. Sending \in SUBSET OtpRequests /\ Sending' \in SUBSET OtpRequests
    BY DEF Sending
  <2>2. /\ IsFiniteSet(Sending) /\ Cardinality(Sending) \in Nat
        /\ IsFiniteSet(Sending') /\ Cardinality(Sending') \in Nat
        /\ Cardinality(OtpRequests) \in Nat
        /\ Cardinality(Sending') <= Cardinality(OtpRequests)
    BY <2>1, RequestsCount
  <2>3. codes \in [DOMAIN codes -> CodeRecords]
    BY LenProperties DEF OtpInv, OtpTypeOK
  <2> QED
    BY <2>2, <2>3, Rows DEF OtpInv, CodesAreBacked
<1>1. IsFiniteSet(ActiveCodes) /\ Cardinality(ActiveCodes) \in Nat
  <2>1. ActiveCodes \in SUBSET DOMAIN codes
    BY DEF ActiveCodes
  <2> QED
    BY <1>0, <2>1, CodesCount
<1>2. ASSUME ActiveCodes' \subseteq ActiveCodes, Sending' \subseteq Sending
      PROVE  CodesAreBacked'
  <2>1. Cardinality(ActiveCodes') <= Cardinality(ActiveCodes) /\ Cardinality(ActiveCodes') \in Nat
    BY <1>1, <1>2, FS_Subset, FS_CardinalityType
  <2>2. Cardinality(Sending') <= Cardinality(Sending)
    BY <1>0, <1>2, FewerCount
  <2> QED
    BY <1>0, <1>1, <2>1, <2>2 DEF CodesAreBacked
<1>3. CASE UNCHANGED otpVars
  BY <1>2, <1>3 DEF otpVars, ActiveCodes, Sending
\* Whatever was active is consumed.
<1>4. ASSUME NEW p \in OtpRequests, SendConsume(p)
      PROVE  CodesAreBacked'
  <2>1. ActiveCodes' = {}
    BY <1>0, <1>4 DEF SendConsume, ActiveCodes, CodeRecords
  <2> QED
    BY <1>0, <2>1, FS_EmptySet DEF CodesAreBacked
<1>5. ASSUME NEW p \in OtpRequests, SendCreate(p)
      PROVE  CodesAreBacked'
  <2>1. codes' = Append(codes, [consumed |-> FALSE, expired |-> FALSE, attempts |-> 0])
    BY <1>5 DEF SendCreate
  <2>2. /\ DOMAIN codes' = 1 .. Len(codes) + 1
        /\ \A i \in DOMAIN codes : codes'[i] = codes[i]
    BY <1>0, <2>1 DEF OtpTypeOK
  <2>3. ActiveCodes' \in SUBSET (ActiveCodes \cup {Len(codes) + 1})
    BY <1>0, <2>2 DEF ActiveCodes
  <2>4. Cardinality(ActiveCodes') <= Cardinality(ActiveCodes) + 1 /\ Cardinality(ActiveCodes') \in Nat
    <3>1. IsFiniteSet(ActiveCodes \cup {Len(codes) + 1})
      BY <1>1, FS_AddElement
    <3> QED
      BY <1>1, <2>3, <3>1, OneMoreCount, FS_Subset, FS_CardinalityType
  <2>5. Sending' \in SUBSET (Sending \ {p}) /\ p \in Sending
    BY <1>0, <1>5, GotoMoves DEF SendCreate, OtpLeave, Sending
  <2>6. Cardinality(Sending') <= Cardinality(Sending) - 1
    BY <1>0, <2>5, OneLessCount
  <2> QED
    BY <1>0, <1>1, <2>4, <2>6 DEF CodesAreBacked
<1>6. ASSUME NEW p \in OtpRequests,
             \/ VerifyWrong(p) \/ VerifyRight(p) \/ VerifyIncrement(p) \/ VerifyConsume(p)
             \/ FindAccount(p) \/ CreateAccount(p) \/ MarkAccount(p) \/ OtpAbort(p)
      PROVE  CodesAreBacked'
  <2>1. ActiveCodes' \subseteq ActiveCodes
    <3>1. CASE VerifyIncrement(p)
      <4>1. otpOf[p] \in DOMAIN codes
        BY <1>0, <3>1 DEF VerifyIncrement, OtpTypeOK
      <4> QED
        BY <1>0, <3>1, <4>1 DEF VerifyIncrement, ActiveCodes, CodeRecords
    <3>2. CASE VerifyConsume(p)
      <4>1. otpOf[p] \in DOMAIN codes
        BY <1>0, <3>2 DEF VerifyConsume, OtpTypeOK
      <4> QED
        BY <1>0, <3>2, <4>1 DEF VerifyConsume, ActiveCodes, CodeRecords
    <3> QED
      BY <1>6, <3>1, <3>2
         DEF VerifyWrong, VerifyRight, FindAccount, CreateAccount, MarkAccount, OtpAbort, ActiveCodes
  <2>2. \E stage, row : stage # "create_code" /\ OtpGoto(p, stage, row)
    <3>1. CASE FindAccount(p)
      BY <1>0, <3>1 DEF FindAccount, OtpLeave
    <3>2. CASE VerifyWrong(p) \/ VerifyRight(p)
      BY <3>2 DEF VerifyWrong, VerifyRight
    <3> QED
      BY <1>6, <3>1, <3>2 DEF VerifyIncrement, VerifyConsume, CreateAccount, MarkAccount, OtpAbort, OtpLeave
  <2> QED
    BY <1>0, <1>2, <2>1, <2>2, GotoMoves
<1>7. ASSUME NEW i \in DOMAIN codes, CodeExpires(i)
      PROVE  CodesAreBacked'
  <2>1. ActiveCodes' \subseteq ActiveCodes
    BY <1>0, <1>7 DEF CodeExpires, ActiveCodes, CodeRecords
  <2>2. Sending' \subseteq Sending
    BY <1>7 DEF CodeExpires, Sending
  <2> QED
    BY <1>2, <2>1, <2>2
<1> QED
  BY <1>3, <1>4, <1>5, <1>6, <1>7 DEF OtpNext, OtpRequestStep

-----------------------------------------------------------------------------
(* Theorems *)

LEMMA OtpInitInv ==
  ASSUME OtpInit
  PROVE  OtpInv
<1>1. OtpTypeOK
  BY DEF OtpInit, OtpTypeOK, OtpStages
<1>2. DOMAIN codes = {} /\ DOMAIN misses = {} /\ Len(accounts) = 0
  BY DEF OtpInit
<1>3. Creating = {} /\ Sending = {} /\ ActiveCodes = {}
  BY <1>2 DEF OtpInit, Creating, Sending, ActiveCodes
<1>4. Cardinality({}) = 0 /\ Cardinality(OtpRequests) \in Nat
  BY FS_EmptySet, RequestsCount
<1> QED
  BY <1>1, <1>2, <1>3, <1>4
     DEF OtpInv, MissesAreCounted, GuessesBounded, AccountsAreBacked, CodesAreBacked

\* sendOtp, verifyOtp and the contact sharing: the counts behind the three bounds
\* hold in every behaviour.
THEOREM OtpInvariance == OtpSpec => []OtpInv
<1>1. OtpInit => OtpInv
  BY OtpInitInv
<1>2. OtpInv /\ [OtpNext]_otpVars => OtpInv'
  <2>1. SUFFICES ASSUME OtpInv, [OtpNext]_otpVars
        PROVE  OtpInv'
    OBVIOUS
  <2>2. OtpTypeOK'
    BY <2>1, OtpTypeStep DEF OtpInv
  <2> QED
    BY <2>1, <2>2, GuessesStep, AccountsStep, CodesStep DEF OtpInv
<1> QED
  BY <1>1, <1>2, PTL DEF OtpSpec

\* verifyOtp: a code is compared no more often than the limit, the other
\* requests in flight and the deaths account for.
THEOREM GuessesAreBounded == OtpSpec => []GuessesBounded
<1>1. OtpInv => GuessesBounded
  BY DEF OtpInv
<1> QED
  BY <1>1, OtpInvariance, PTL

\* findUserByPhone, createUser: never more accounts than requests in flight.
THEOREM AccountsAreBounded == OtpSpec => []AccountsBounded
<1>1. OtpInv => AccountsBounded
  <2>1. SUFFICES ASSUME OtpInv
        PROVE  AccountsBounded
    OBVIOUS
  <2>2. Creating \in SUBSET OtpRequests
    BY DEF Creating
  <2>3. Cardinality(Creating) \in Nat /\ Cardinality(OtpRequests) \in Nat
    BY <2>2, RequestsCount
  <2>4. Len(accounts) \in Nat
    BY Rows DEF OtpInv
  <2> QED
    BY <2>1, <2>3, <2>4 DEF OtpInv, AccountsAreBacked, AccountsBounded
<1> QED
  BY <1>1, OtpInvariance, PTL

\* consumeActiveOtpCodesForPhone, createOtpCode: never more usable codes than
\* requests in flight.
THEOREM ActiveCodesAreBounded == OtpSpec => []ActiveCodesBounded
<1>1. OtpInv => ActiveCodesBounded
  <2>1. SUFFICES ASSUME OtpInv
        PROVE  ActiveCodesBounded
    OBVIOUS
  <2>2. Sending \in SUBSET OtpRequests /\ ActiveCodes \in SUBSET DOMAIN codes
    BY DEF Sending, ActiveCodes
  <2>3. Cardinality(Sending) \in Nat /\ Cardinality(OtpRequests) \in Nat
    BY <2>2, RequestsCount
  <2>4. Cardinality(ActiveCodes) \in Nat
    BY <2>1, <2>2, CodesCount DEF OtpInv
  <2> QED
    BY <2>1, <2>3, <2>4 DEF OtpInv, CodesAreBacked, ActiveCodesBounded
<1> QED
  BY <1>1, OtpInvariance, PTL

-----------------------------------------------------------------------------
(* The limiter *)

RateTypeOK ==
  /\ tick \in Ticks
  /\ members \subseteq Ticks \X (1..Limit)
  /\ passed \subseteq Ticks \X (1..Limit)
  /\ stamps \in [RateRequests -> Nat]
  /\ \A r \in RateRequests : stamps[r] <= tick \/ stamps[r] = Never
  /\ expires \in Nat
  /\ hint \in Nat
  /\ rateFaults \in Nat

\* A member leaves no later than the key, and a pass stays as long as it counts.
KeyOutlives ==
  \A m \in members : m[1] <= tick /\ m[1] + WindowTicks <= expires
PassesAreKept ==
  \A p \in passed : p[1] + WindowTicks > tick => p \in members

AtMostLimit == Cardinality(members) <= Limit

PassedIn(first) == {p \in passed : first <= p[1] /\ p[1] < first + WindowTicks}
EveryWindow == \A first \in Nat : Cardinality(PassedIn(first)) <= Limit

\* Of the members now there, fewer than Limit will be there at the hint.
StaysBeyond(t) == {m \in members : m[1] + WindowTicks > t}
HintIsEnough == hint <= LastTick => Cardinality(StaysBeyond(hint)) < Limit

RateInv ==
  /\ RateTypeOK /\ KeyOutlives /\ PassesAreKept
  /\ AtMostLimit /\ EveryWindow /\ HintIsEnough

LEMMA RateNumbers ==
  /\ Limit \in Nat \ {0} /\ SecondTicks \in Nat \ {0} /\ LastTick \in Nat
  /\ WindowTicks \in Nat
  /\ Never \in Nat /\ Never > LastTick
  /\ Ticks \subseteq Nat /\ \A t \in Ticks : t < Never
BY RateAssumption DEF Never, Ticks, WindowTicks

\* The clock and the suffixes are finite, so a bag can be counted.
LEMMA BagsFinite ==
  ASSUME NEW S, S \subseteq Ticks \X (1..Limit)
  PROVE  IsFiniteSet(S) /\ Cardinality(S) \in Nat
<1>1. IsFiniteSet(Ticks) /\ IsFiniteSet(1..Limit)
  BY RateNumbers, FS_Interval DEF Ticks
<1>2. IsFiniteSet(Ticks \X (1..Limit))
  BY <1>1, FS_Product
<1>3. IsFiniteSet(S)
  BY <1>2, FS_Subset
<1>. QED BY <1>3, FS_CardinalityType

LEMMA BagsCompare ==
  ASSUME NEW T, T \subseteq Ticks \X (1..Limit), NEW S, S \subseteq T
  PROVE  Cardinality(S) <= Cardinality(T) /\ (S # T => Cardinality(S) < Cardinality(T))
BY BagsFinite, FS_Subset

\* A bag that is not full has a name free for every stamp.
LEMMA NewMemberIsNew ==
  ASSUME NEW bag, bag \subseteq Ticks \X (1..Limit), Cardinality(bag) < Limit,
         NEW stamp \in Ticks
  PROVE  /\ NewMember(bag, stamp) \in Ticks \X (1..Limit)
         /\ NewMember(bag, stamp) \notin bag
         /\ NewMember(bag, stamp)[1] = stamp
<1> DEFINE named == [suffix \in 1..Limit |-> <<stamp, suffix>>]
<1>1. ASSUME \A suffix \in 1..Limit : <<stamp, suffix>> \in bag
      PROVE  FALSE
  <2>1. named \in Injection(1..Limit, bag)
    BY <1>1 DEF Injection, IsInjective
  <2>2. IsFiniteSet(bag) /\ Cardinality(bag) \in Nat
    BY BagsFinite
  <2>3. Cardinality(1..Limit) <= Cardinality(bag)
    BY <2>1, <2>2, FS_Injection
  <2>4. Cardinality(1..Limit) = Limit
    BY RateNumbers, FS_Interval
  <2>. QED BY <2>2, <2>3, <2>4, RateNumbers
<1>2. \E suffix \in 1..Limit : <<stamp, suffix>> \notin bag
  BY <1>1
<1>. QED BY <1>2 DEF NewMember

\* Naturals have a least element, as the set the hit looks for its oldest in.
LEMMA MinOfNaturals ==
  ASSUME NEW T, T \subseteq Nat, T # {}
  PROVE  Min(T) \in T /\ \A u \in T : Min(T) <= u
<1> DEFINE Upto == {0..n : n \in T}
<1>1. Upto \subseteq FiniteSubsetsOf(Nat) /\ Upto # {}
  <2>1. \A n \in T : 0..n \in SUBSET Nat /\ IsFiniteSet(0..n)
    BY FS_Interval
  <2>. QED BY <2>1 DEF FiniteSubsetsOf
<1>2. PICK U \in Upto : \A V \in Upto : ~(<<V, U>> \in StrictSubsetOrdering(Nat))
  BY <1>1, WFMin, FS_StrictSubsetOrderingWellFounded
<1>3. PICK n \in T : U = 0..n
  OBVIOUS
<1>4. ASSUME NEW u \in T PROVE n <= u
  <2>1. SUFFICES ASSUME u < n PROVE FALSE
    OBVIOUS
  <2>2. 0..u \subseteq 0..n /\ n \in 0..n /\ n \notin 0..u
    BY <2>1
  <2>3. 0..u \in SUBSET Nat /\ 0..n \in SUBSET Nat /\ 0..u # 0..n
    BY <2>2
  <2>4. <<0..u, 0..n>> \in StrictSubsetOrdering(Nat)
    BY <2>2, <2>3 DEF StrictSubsetOrdering
  <2>5. 0..u \in Upto
    OBVIOUS
  <2>. QED BY <1>2, <1>3, <2>4, <2>5
<1>. QED BY <1>4 DEF Min

\* Rounding up does not shorten the wait.
LEMMA RoundedUp ==
  ASSUME NEW a \in Nat, NEW s \in Nat \ {0}
  PROVE  /\ (a + s - 1) \div s \in Nat
         /\ ((a + s - 1) \div s) * s >= a
<1> DEFINE x == a + s - 1
           q == x \div s
           r == x % s
<1>1. x \in Nat
  OBVIOUS
<1>2. q \in Nat /\ r \in Nat /\ r < s /\ x = s * q + r
  BY <1>1, Z3
<1>. QED BY <1>2

-----------------------------------------------------------------------------
(* RateLimit: the steps *)

LEMMA PrunedIs ==
  ASSUME RateTypeOK, NEW stamp
  PROVE  /\ Pruned(stamp) \subseteq members
         /\ Pruned(stamp) \subseteq Ticks \X (1..Limit)
BY DEF RateTypeOK, Pruned

LEMMA EvaluatedIs ==
  ASSUME RateTypeOK, NEW r \in RateRequests, Evaluated(r)
  PROVE  /\ stamps[r] \in Ticks /\ stamps[r] <= tick
         /\ stamps' \in [RateRequests -> Nat]
         /\ \A q \in RateRequests : stamps'[q] <= tick \/ stamps'[q] = Never
         /\ rateFaults' \in Nat
BY RateNumbers DEF RateTypeOK, Evaluated, OnTime, Ticks

\* A request that is let in: its bag had room, and what a window had let in
\* before is in the bag.
LEMMA AllowStep ==
  ASSUME RateInv, NEW r \in RateRequests, Allow(r)
  PROVE  RateInv'
<1> DEFINE stamp == stamps[r]
           bag == Pruned(stamp)
           new == NewMember(bag, stamp)
<1>1. RateTypeOK
  BY DEF RateInv
<1>2. Evaluated(r)
  BY DEF Allow
<1>3. stamp \in Ticks /\ stamp <= tick
  BY <1>1, <1>2, EvaluatedIs
<1>4. bag \subseteq members /\ bag \subseteq Ticks \X (1..Limit)
  BY <1>1, PrunedIs
<1>5. Cardinality(bag) < Limit /\ members' = bag \cup {new} /\ expires' = tick + WindowTicks
      /\ hint' = Never /\ tick' = tick
  BY DEF Allow
<1>6. new \in Ticks \X (1..Limit) /\ new \notin bag /\ new[1] = stamp
  BY <1>3, <1>4, <1>5, NewMemberIsNew
<1>7. passed' = passed \/ (stamp = tick /\ passed' = passed \cup {new})
  BY DEF Allow, OnTime
<1>8. IsFiniteSet(bag) /\ Cardinality(bag) \in Nat
  BY <1>4, BagsFinite
<1>9. tick \in Nat /\ WindowTicks \in Nat /\ Limit \in Nat /\ tick < Never /\ Never \in Nat
  BY <1>1, RateNumbers DEF RateTypeOK
<1>10. \A m \in members : m \in Ticks \X (1..Limit) /\ m[1] \in Nat /\ m[1] <= tick
  BY <1>1, RateNumbers DEF RateInv, RateTypeOK, KeyOutlives
<1>11. \A p \in passed : p \in Ticks \X (1..Limit) /\ p[1] \in Nat
  BY <1>1, RateNumbers DEF RateTypeOK
<1>12. \A p \in passed : p[1] + WindowTicks > tick => p \in bag
  <2>1. stamp \in Nat
    BY <1>3, RateNumbers
  <2>2. ASSUME NEW p \in passed, p[1] + WindowTicks > tick
        PROVE  p \in members /\ p[1] + WindowTicks > stamp
    BY <1>3, <1>9, <1>11, <2>1, <2>2 DEF RateInv, PassesAreKept
  <2>. QED BY <2>2 DEF Pruned
<1> HIDE DEF stamp, bag, new
<1>13. RateTypeOK'
  <2>1. stamps' \in [RateRequests -> Nat] /\ rateFaults' \in Nat
        /\ \A q \in RateRequests : stamps'[q] <= tick' \/ stamps'[q] = Never
    BY <1>1, <1>2, <1>5, EvaluatedIs
  <2>2. tick' \in Ticks /\ passed \subseteq Ticks \X (1..Limit)
    BY <1>1, <1>5 DEF RateTypeOK
  <2>3. expires' \in Nat /\ hint' \in Nat
    BY <1>5, <1>9
  <2>4. members' \subseteq Ticks \X (1..Limit) /\ passed' \subseteq Ticks \X (1..Limit)
    BY <1>4, <1>5, <1>6, <1>7, <2>2
  <2>. QED BY <2>1, <2>2, <2>3, <2>4 DEF RateTypeOK
<1>14. KeyOutlives'
  <2>1. \A m \in members' : m[1] \in Nat /\ m[1] <= tick
    BY <1>3, <1>4, <1>5, <1>6, <1>10, RateNumbers
  <2>2. WindowTicks' = WindowTicks
    OBVIOUS
  <2>. QED BY <2>1, <2>2, <1>5, <1>9 DEF KeyOutlives
<1>15. PassesAreKept'
  BY <1>5, <1>7, <1>12 DEF PassesAreKept
<1>16. AtMostLimit'
  <2>1. Cardinality(bag \cup {new}) = Cardinality(bag) + 1
    BY <1>6, <1>8, FS_AddElement
  <2>. QED BY <2>1, <1>5, <1>8, <1>9 DEF AtMostLimit
<1>17. EveryWindow'
  <2>1. SUFFICES ASSUME NEW first \in Nat
                 PROVE  Cardinality(PassedIn(first)') <= Limit
    BY DEF EveryWindow
  <2>2. Cardinality(PassedIn(first)) <= Limit
    BY DEF RateInv, EveryWindow
  <2>3. CASE PassedIn(first)' = PassedIn(first)
    BY <2>2, <2>3
  <2>4. CASE PassedIn(first)' # PassedIn(first)
    <3>1. stamp = tick /\ passed' = passed \cup {new}
      BY <1>7, <2>4 DEF PassedIn
    <3>2. first <= tick /\ tick < first + WindowTicks
      BY <1>6, <2>4, <3>1 DEF PassedIn
    <3>3. PassedIn(first)' \subseteq bag \cup {new}
      BY <1>9, <1>11, <1>12, <3>1, <3>2 DEF PassedIn
    <3>4. bag \cup {new} \subseteq Ticks \X (1..Limit)
      BY <1>4, <1>6
    <3>5. Cardinality(PassedIn(first)') <= Cardinality(bag \cup {new})
      BY <3>3, <3>4, BagsCompare
    <3>6. Cardinality(bag \cup {new}) = Cardinality(bag) + 1
      BY <1>6, <1>8, FS_AddElement
    <3>7. PassedIn(first)' \subseteq Ticks \X (1..Limit)
      BY <3>3, <3>4
    <3>8. Cardinality(PassedIn(first)') \in Nat
      BY <3>7, BagsFinite
    <3>. QED BY <1>5, <1>8, <1>9, <3>5, <3>6, <3>8
  <2>. QED BY <2>3, <2>4
<1>18. HintIsEnough'
  BY <1>5, RateNumbers DEF HintIsEnough
<1>. QED BY <1>13, <1>14, <1>15, <1>16, <1>17, <1>18 DEF RateInv

\* A request that is denied: when the hint comes, the oldest of a full bag has
\* left.
LEMMA DenyStep ==
  ASSUME RateInv, NEW r \in RateRequests, Deny(r)
  PROVE  RateInv'
<1> DEFINE stamp == stamps[r]
           bag == Pruned(stamp)
           scores == {m[1] : m \in bag}
           wait == Min(scores) + WindowTicks - stamp
           seconds == (wait + SecondTicks - 1) \div SecondTicks
           told == Max({1, seconds})
<1>1. RateTypeOK
  BY DEF RateInv
<1>2. Evaluated(r)
  BY DEF Deny
<1>3. stamp \in Ticks /\ stamp <= tick
  BY <1>1, <1>2, EvaluatedIs
<1>4. bag \subseteq members /\ bag \subseteq Ticks \X (1..Limit)
  BY <1>1, PrunedIs
<1>5. Cardinality(bag) >= Limit /\ members' = bag /\ tick' = tick /\ expires' = expires
      /\ passed' = passed
  BY DEF Deny
<1>6. hint' = tick + told * SecondTicks
  BY DEF Deny, RetryAfter, Wait
<1>7. tick \in Nat /\ WindowTicks \in Nat /\ Limit \in Nat \ {0} /\ SecondTicks \in Nat \ {0}
  BY <1>1, RateNumbers DEF RateTypeOK
<1>8. \A m \in bag : m[1] \in Nat /\ m[1] + WindowTicks > stamp
  BY <1>4, RateNumbers DEF Pruned
<1>9. bag # {}
  BY <1>5, <1>7, FS_EmptySet
<1>10. stamp \in Nat
  BY <1>3, RateNumbers
<1>11. Min(scores) \in scores
  <2>1. scores \subseteq Nat /\ scores # {}
    BY <1>8, <1>9
  <2>. QED BY <2>1, MinOfNaturals
<1>12. PICK oldest \in bag : oldest[1] = Min(scores)
  BY <1>11
<1> HIDE DEF bag, scores
<1>13. wait \in Nat /\ wait = oldest[1] + WindowTicks - stamp
  BY <1>7, <1>8, <1>10, <1>12
<1> HIDE DEF wait, stamp
<1>14. seconds \in Nat /\ seconds * SecondTicks >= wait
  BY <1>7, <1>13, RoundedUp
<1> HIDE DEF seconds
<1>15. told \in Nat /\ told >= seconds
  BY <1>14 DEF Max
<1> HIDE DEF told
<1>16. told * SecondTicks \in Nat /\ told * SecondTicks >= seconds * SecondTicks
  BY <1>7, <1>14, <1>15
<1>17. seconds * SecondTicks \in Nat
  BY <1>7, <1>14
<1>18. hint' \in Nat /\ oldest[1] + WindowTicks <= hint'
  BY <1>3, <1>6, <1>7, <1>8, <1>10, <1>12, <1>13, <1>14, <1>16, <1>17
<1>19. RateTypeOK'
  <2>1. stamps' \in [RateRequests -> Nat] /\ rateFaults' \in Nat
        /\ \A q \in RateRequests : stamps'[q] <= tick' \/ stamps'[q] = Never
    BY <1>1, <1>2, <1>5, EvaluatedIs
  <2>. QED BY <1>1, <1>4, <1>5, <1>18, <2>1 DEF RateTypeOK
<1>20. KeyOutlives' /\ EveryWindow'
  BY <1>4, <1>5 DEF RateInv, KeyOutlives, EveryWindow, PassedIn
<1>21. PassesAreKept'
  <2>1. \A p \in passed : p[1] \in Nat
    BY <1>1, RateNumbers DEF RateTypeOK
  <2>2. \A p \in passed : p[1] + WindowTicks > tick => p \in members /\ p[1] + WindowTicks > stamp
    BY <2>1, <1>3, <1>7, <1>10 DEF RateInv, PassesAreKept
  <2>. QED BY <1>5, <2>2 DEF PassesAreKept, bag, stamp, Pruned
<1>22. IsFiniteSet(members) /\ Cardinality(members) \in Nat /\ Cardinality(bag) \in Nat
  BY <1>1, <1>4, BagsFinite DEF RateTypeOK
<1>23. Cardinality(bag) = Limit /\ AtMostLimit'
  <2>1. Cardinality(bag) <= Cardinality(members) /\ Cardinality(members) <= Limit
    BY <1>1, <1>4, BagsCompare DEF RateTypeOK, RateInv, AtMostLimit
  <2>. QED BY <1>5, <1>7, <1>22, <2>1 DEF AtMostLimit
<1>24. HintIsEnough'
  <2>1. StaysBeyond(hint)' \subseteq bag /\ oldest \notin StaysBeyond(hint)'
    BY <1>5, <1>7, <1>8, <1>12, <1>18 DEF StaysBeyond
  <2>2. Cardinality(StaysBeyond(hint)') < Cardinality(bag)
    BY <1>4, <1>12, <2>1, BagsCompare
  <2>. QED BY <1>23, <2>2 DEF HintIsEnough
<1>. QED BY <1>19, <1>20, <1>21, <1>23, <1>24 DEF RateInv

LEMMA OtherRateSteps ==
  ASSUME RateInv,
         \/ \E r \in RateRequests : RequestStarts(r) \/ HitFails(r)
         \/ KeyExpires \/ ClockTicks
         \/ UNCHANGED rateVars
  PROVE  RateInv'
<1>1. RateTypeOK
  BY DEF RateInv
<1>2. tick \in Nat /\ WindowTicks \in Nat /\ Limit \in Nat /\ tick < Never /\ Never \in Nat
  BY <1>1, RateNumbers DEF RateTypeOK
<1>3. CASE \E r \in RateRequests : RequestStarts(r) \/ HitFails(r)
  <2>1. UNCHANGED <<tick, members, expires, passed, hint>>
    BY <1>3 DEF RequestStarts, HitFails
  <2>2. RateTypeOK'
    BY <1>1, <1>2, <1>3, <2>1 DEF RateTypeOK, RequestStarts, HitFails
  <2>. QED BY <2>1, <2>2 DEF RateInv, KeyOutlives, PassesAreKept, AtMostLimit, EveryWindow,
                 PassedIn, HintIsEnough, StaysBeyond
<1>4. CASE KeyExpires
  <2>1. expires <= tick /\ members' = {} /\ expires' = Never
        /\ UNCHANGED <<tick, stamps, passed, hint, rateFaults>>
    BY <1>4 DEF KeyExpires
  <2>2. RateTypeOK'
    BY <1>1, <1>2, <2>1 DEF RateTypeOK
  <2>3. PassesAreKept'
    <3>1. \A m \in members : m[1] \in Nat
      BY <1>1, RateNumbers DEF RateTypeOK
    <3>2. \A m \in members : ~(m[1] + WindowTicks > tick)
      BY <1>1, <1>2, <2>1, <3>1 DEF RateInv, RateTypeOK, KeyOutlives
    <3>. QED BY <2>1, <3>2 DEF RateInv, PassesAreKept
  <2>4. AtMostLimit' /\ HintIsEnough'
    BY <2>1, FS_EmptySet, RateNumbers DEF AtMostLimit, HintIsEnough, StaysBeyond
  <2>5. KeyOutlives' /\ EveryWindow'
    BY <2>1 DEF RateInv, KeyOutlives, EveryWindow, PassedIn
  <2>. QED BY <2>2, <2>3, <2>4, <2>5 DEF RateInv
<1>5. CASE ClockTicks
  <2>1. tick < LastTick /\ tick' = tick + 1
        /\ UNCHANGED <<members, expires, stamps, passed, hint, rateFaults>>
    BY <1>5 DEF ClockTicks
  <2>2. tick' \in Ticks /\ tick < tick'
    BY <1>2, <2>1, RateNumbers DEF Ticks
  <2>3. RateTypeOK'
    BY <1>1, <1>2, <2>1, <2>2 DEF RateTypeOK
  <2>4. \A m \in members \cup passed : m[1] \in Nat
    BY <1>1, RateNumbers DEF RateTypeOK
  <2>5. KeyOutlives' /\ PassesAreKept'
    BY <1>2, <2>1, <2>2, <2>4 DEF RateInv, KeyOutlives, PassesAreKept
  <2>6. AtMostLimit' /\ EveryWindow' /\ HintIsEnough'
    BY <2>1 DEF RateInv, AtMostLimit, EveryWindow, PassedIn, HintIsEnough, StaysBeyond
  <2>. QED BY <2>3, <2>5, <2>6 DEF RateInv
<1>6. CASE UNCHANGED rateVars
  BY <1>6 DEF RateInv, RateTypeOK, KeyOutlives, PassesAreKept, AtMostLimit, EveryWindow,
     PassedIn, HintIsEnough, StaysBeyond, rateVars
<1>. QED BY <1>3, <1>4, <1>5, <1>6

LEMMA InitRateInv == RateInit => RateInv
<1> SUFFICES ASSUME RateInit PROVE RateInv
  OBVIOUS
<1>1. tick = 0 /\ members = {} /\ passed = {} /\ expires = Never /\ hint = Never
      /\ rateFaults = 0 /\ stamps = [r \in RateRequests |-> Never]
  BY DEF RateInit
<1>2. RateTypeOK
  BY <1>1, RateNumbers DEF RateTypeOK, Ticks
<1>3. KeyOutlives /\ PassesAreKept
  BY <1>1 DEF KeyOutlives, PassesAreKept
<1>4. \A first \in Nat : PassedIn(first) = {}
  BY <1>1 DEF PassedIn
<1>5. AtMostLimit /\ EveryWindow
  BY <1>1, <1>4, FS_EmptySet, RateNumbers DEF AtMostLimit, EveryWindow
<1>6. HintIsEnough
  BY <1>1, RateNumbers DEF HintIsEnough
<1>. QED BY <1>2, <1>3, <1>5, <1>6 DEF RateInv

LEMMA RateInvStep == RateInv /\ [RateNext]_rateVars => RateInv'
BY AllowStep, DenyStep, OtherRateSteps DEF RateNext

LEMMA RateInvHolds == RateSpec => []RateInv
BY InitRateInv, RateInvStep, PTL DEF RateSpec

\* No window of the limiter lets in more requests on time than its limit: late
\* hits with old stamps, the pruning of other hits and the expiry of the key
\* take nothing away that still counts (hit, allowed and pruned in one script).
THEOREM AllowsWithinLimit == RateSpec => []WithinLimit
<1>1. RateInv => WithinLimit
  <2>1. SUFFICES ASSUME RateInv, NEW m \in passed
                 PROVE  Cardinality(PassedIn(m[1])) <= Limit
    BY DEF WithinLimit, PassedIn
  <2>2. m[1] \in Nat
    BY <2>1, RateNumbers DEF RateInv, RateTypeOK
  <2>. QED BY <2>1, <2>2 DEF RateInv, EveryWindow
<1>. QED BY <1>1, RateInvHolds, PTL

\* A caller that waits for the Retry-After it was given finds room, unless
\* someone was let in meanwhile (the rounding up of rate-limit-store.ts).
THEOREM RetryAfterKeepsItsWord == RateSpec => []RetryAfterIsTruthful
<1>1. RateInv => RetryAfterIsTruthful
  <2>1. SUFFICES ASSUME RateInv, hint <= tick
                 PROVE  Cardinality(Pruned(tick)) < Limit
    BY DEF RetryAfterIsTruthful
  <2>2. hint \in Nat /\ tick \in Nat /\ tick <= LastTick /\ WindowTicks \in Nat
        /\ LastTick \in Nat /\ Limit \in Nat
    BY <2>1, RateNumbers DEF RateInv, RateTypeOK, Ticks
  <2>3. Cardinality(StaysBeyond(hint)) < Limit
    BY <2>1, <2>2 DEF RateInv, HintIsEnough
  <2>4. members \subseteq Ticks \X (1..Limit) /\ \A m \in members : m[1] \in Nat
    BY <2>1, RateNumbers DEF RateInv, RateTypeOK
  <2>5. Pruned(tick) \subseteq StaysBeyond(hint)
    BY <2>1, <2>2, <2>4 DEF Pruned, StaysBeyond
  <2>6. StaysBeyond(hint) \subseteq Ticks \X (1..Limit)
    BY <2>4 DEF StaysBeyond
  <2>7. Cardinality(Pruned(tick)) <= Cardinality(StaysBeyond(hint))
    BY <2>5, <2>6, BagsCompare
  <2>8. Cardinality(Pruned(tick)) \in Nat /\ Cardinality(StaysBeyond(hint)) \in Nat
    BY <2>5, <2>6, BagsFinite
  <2>. QED BY <2>2, <2>3, <2>7, <2>8
<1>. QED BY <1>1, RateInvHolds, PTL

-----------------------------------------------------------------------------
(* Staff accounts *)

Desk == [at : DeskStages, who : Staff \cup {Nobody},
         active : {"keep", "on", "off"}, pause : {"keep", "on", "off"}]

StaffTypeOK ==
  /\ account \in [Staff -> {"absent", "active", "inactive"}]
  /\ desk \in [Desks -> Desk]
  /\ staffRace \in BOOLEAN

\* A request that will write has a row and a value for it.
WritesAreGiven ==
  \A d \in Desks :
    /\ desk[d].at = "count_active" => desk[d].active = "off"
    /\ desk[d].at = "write_active" => desk[d].active # "keep"
    /\ desk[d].at \in {"insert", "count_active", "write_active"} => desk[d].who \in Staff

\* Without a race one deactivation of an admin is in flight at most ...
OneDeactivation == ~staffRace => \A d, e \in OffDesks : d = e

\* ... and when it is about to write, another admin is active.
AnotherIsActive ==
  ~staffRace =>
    \A d \in OffDesks : desk[d].at = "write_active" => \E a \in ActiveAdmins : a # desk[d].who

StaffInv ==
  /\ StaffTypeOK
  /\ WritesAreGiven
  /\ OneDeactivation
  /\ AnotherIsActive
  /\ AnAdminRemains

-----------------------------------------------------------------------------
\* countActiveAdmins above one: whoever is to go, somebody stays.
LEMMA CountLeavesAnother ==
  ASSUME NEW s, ~(Cardinality(ActiveAdmins) <= 1)
  PROVE  \E a \in ActiveAdmins : a # s
<1> SUFFICES ASSUME ActiveAdmins \subseteq {s}
             PROVE  FALSE
  OBVIOUS
<1>1. IsFiniteSet({s}) /\ Cardinality({s}) = 1
  BY FS_Singleton
<1>2. Cardinality(ActiveAdmins) <= Cardinality({s})
  BY <1>1, FS_Subset
<1> QED
  BY <1>1, <1>2

LEMMA StaffInitInv == StaffInit => StaffInv
<1> SUFFICES ASSUME StaffInit PROVE StaffInv
  OBVIOUS
<1> USE DEF StaffInit, NoDesk
<1>1. StaffTypeOK
  BY DEF StaffTypeOK, Desk, DeskStages
<1>2. WritesAreGiven
  BY DEF WritesAreGiven
<1>3. OffDesks = {} /\ AdminRows = {}
  BY DEF OffDesks, AdminRows, Staff
<1> QED
  BY <1>1, <1>2, <1>3 DEF StaffInv, OneDeactivation, AnotherIsActive, AnAdminRemains

-----------------------------------------------------------------------------
\* Steps that write no account and deactivate nobody.
LEMMA QuietStep ==
  ASSUME StaffInv, StaffTypeOK', WritesAreGiven', UNCHANGED <<account, staffRace>>,
         OffDesks' \subseteq OffDesks,
         \A e \in OffDesks' : /\ desk'[e].who = desk[e].who
                              /\ desk'[e].at = "write_active" =>
                                   \/ desk[e].at = "write_active"
                                   \/ \E a \in ActiveAdmins : a # desk[e].who
  PROVE  StaffInv'
<1>1. ActiveAdmins' = ActiveAdmins /\ AdminRows' = AdminRows
  BY DEF ActiveAdmins, AdminRows
<1>2. OneDeactivation'
  BY DEF StaffInv, OneDeactivation
<1>3. AnotherIsActive'
  BY <1>1 DEF StaffInv, AnotherIsActive
<1>4. AnAdminRemains'
  BY <1>1 DEF StaffInv, AnAdminRemains
<1> QED
  BY <1>2, <1>3, <1>4 DEF StaffInv

\* A request that ends or moves on keeps its types.
LEMMA DeskKeepsType ==
  ASSUME StaffTypeOK, NEW d \in Desks, NEW x \in Desk,
         desk' = [desk EXCEPT ![d] = x]
  PROVE  /\ desk' \in [Desks -> Desk]
         /\ desk'[d] = x
         /\ \A e \in Desks \ {d} : desk'[e] = desk[e]
BY DEF StaffTypeOK

LEMMA DeskMoves ==
  ASSUME StaffTypeOK, NEW d \in Desks, NEW stage \in DeskStages, DeskGoto(d, stage)
  PROVE  /\ desk' = [desk EXCEPT ![d] = [desk[d] EXCEPT !.at = stage]]
         /\ [desk[d] EXCEPT !.at = stage] \in Desk
         /\ desk'[d].at = stage
         /\ desk'[d].who = desk[d].who
         /\ desk'[d].active = desk[d].active
BY DEF DeskGoto, StaffTypeOK, Desk

LEMMA NoDeskType == NoDesk \in Desk /\ NoDesk.active = "keep" /\ NoDesk.at = "idle"
BY DEF NoDesk, Desk, DeskStages

\* A request that leaves: nothing else moves.
LEMMA LeaveStep ==
  ASSUME StaffInv, NEW d \in Desks, DeskLeave(d), UNCHANGED <<account, staffRace>>
  PROVE  StaffInv'
<1>1. /\ desk' \in [Desks -> Desk]
      /\ desk'[d] = NoDesk
      /\ \A e \in Desks \ {d} : desk'[e] = desk[e]
  BY DeskKeepsType, NoDeskType DEF StaffInv, DeskLeave
<1>2. StaffTypeOK'
  BY <1>1 DEF StaffInv, StaffTypeOK
<1>3. WritesAreGiven'
  BY <1>1, NoDeskType DEF StaffInv, WritesAreGiven
<1>4. \A e \in OffDesks' : e \in OffDesks /\ desk'[e] = desk[e]
  BY <1>1, NoDeskType DEF OffDesks
<1> QED
  BY <1>2, <1>3, <1>4, QuietStep

-----------------------------------------------------------------------------
\* Creating and letting an account in only adds active admins.
LEMMA MoreAdmins ==
  ASSUME StaffInv, NEW d \in Desks, desk' \in [Desks -> Desk],
         NEW s \in Staff, account' = [account EXCEPT ![s] = "active"],
         UNCHANGED staffRace,
         \A e \in OffDesks' : e \in OffDesks /\ desk'[e] = desk[e],
         WritesAreGiven'
  PROVE  StaffInv'
<1>1. StaffTypeOK'
  BY DEF StaffInv, StaffTypeOK
<1>2. \A a \in ActiveAdmins : a \in ActiveAdmins'
  BY DEF StaffInv, StaffTypeOK, ActiveAdmins, Staff
<1>3. s \in Admins => s \in ActiveAdmins'
  BY DEF StaffInv, StaffTypeOK, ActiveAdmins
<1>4. s \notin Admins => AdminRows' = AdminRows
  BY DEF StaffInv, StaffTypeOK, AdminRows, Staff
<1>5. OneDeactivation'
  BY DEF StaffInv, OneDeactivation
<1>6. AnotherIsActive'
  BY <1>2 DEF StaffInv, AnotherIsActive
<1>7. AnAdminRemains'
  BY <1>2, <1>3, <1>4 DEF StaffInv, AnAdminRemains
<1> QED
  BY <1>1, <1>5, <1>6, <1>7 DEF StaffInv

LEMMA CreateInsertInv ==
  ASSUME StaffInv, NEW d \in Desks, CreateInsert(d)
  PROVE  StaffInv'
<1> DEFINE s == desk[d].who
<1>1. DeskLeave(d) /\ UNCHANGED staffRace /\ s \in Staff
  BY DEF CreateInsert, StaffInv, WritesAreGiven
<1>2. CASE account[s] # "absent"
  BY <1>1, <1>2, LeaveStep DEF CreateInsert
<1>3. CASE account[s] = "absent"
  <2>1. account' = [account EXCEPT ![s] = "active"]
    BY <1>3 DEF CreateInsert
  <2>2. /\ desk' \in [Desks -> Desk]
        /\ desk'[d] = NoDesk
        /\ \A e \in Desks \ {d} : desk'[e] = desk[e]
    BY <1>1, DeskKeepsType, NoDeskType DEF StaffInv, DeskLeave
  <2>3. \A e \in OffDesks' : e \in OffDesks /\ desk'[e] = desk[e]
    BY <2>2, NoDeskType DEF OffDesks
  <2>4. WritesAreGiven'
    BY <2>2, NoDeskType DEF StaffInv, WritesAreGiven
  <2> QED
    BY <1>1, <2>1, <2>2, <2>3, <2>4, MoreAdmins
<1> QED
  BY <1>2, <1>3

LEMMA CreateFindInv ==
  ASSUME StaffInv, NEW d \in Desks, NEW s \in Staff, CreateFind(d, s)
  PROVE  StaffInv'
<1> DEFINE x == [NoDesk EXCEPT !.at = "insert", !.who = s]
<1>1. x \in Desk /\ x.at = "insert" /\ x.who = s /\ x.active = "keep"
  BY DEF NoDesk, Desk, DeskStages
<1> HIDE DEF x
<1>2. desk' = [desk EXCEPT ![d] = x] /\ UNCHANGED <<account, staffRace>>
  BY DEF CreateFind, x
<1>3. /\ desk' \in [Desks -> Desk]
      /\ desk'[d] = x
      /\ \A e \in Desks \ {d} : desk'[e] = desk[e]
  BY <1>1, <1>2, DeskKeepsType DEF StaffInv
<1>4. StaffTypeOK'
  BY <1>2, <1>3 DEF StaffInv, StaffTypeOK
<1>5. WritesAreGiven'
  BY <1>1, <1>3 DEF StaffInv, WritesAreGiven
<1>6. \A e \in OffDesks' : e \in OffDesks /\ desk'[e] = desk[e]
  BY <1>1, <1>3 DEF OffDesks
<1> QED
  BY <1>2, <1>4, <1>5, <1>6, QuietStep

LEMMA BootstrapFindInv ==
  ASSUME StaffInv, NEW d \in Desks, BootstrapFind(d)
  PROVE  StaffInv'
<1> DEFINE x == [desk[d] EXCEPT !.at = "count_role"]
<1>1. x \in Desk /\ x.at = "count_role" /\ x.who = desk[d].who /\ x.active = desk[d].active
  BY DEF Desk, DeskStages, StaffInv, StaffTypeOK
<1> HIDE DEF x
<1>2. desk' = [desk EXCEPT ![d] = x] /\ UNCHANGED <<account, staffRace>>
  BY DeskMoves DEF BootstrapFind, x, DeskStages, StaffInv
<1>3. /\ desk' \in [Desks -> Desk]
      /\ desk'[d] = x
      /\ \A e \in Desks \ {d} : desk'[e] = desk[e]
  BY <1>1, <1>2, DeskKeepsType DEF StaffInv
<1>4. StaffTypeOK'
  BY <1>2, <1>3 DEF StaffInv, StaffTypeOK
<1>5. WritesAreGiven'
  BY <1>1, <1>3 DEF StaffInv, WritesAreGiven
<1>6. \A e \in OffDesks' : /\ e \in OffDesks
                           /\ desk'[e].who = desk[e].who
                           /\ desk'[e].at = "write_active" => desk[e].at = "write_active"
  BY <1>1, <1>3 DEF OffDesks
<1> QED
  BY <1>2, <1>4, <1>5, <1>6, QuietStep

-----------------------------------------------------------------------------
(* The patch *)

\* An admin who is not active is deactivated without a count: the invariant
\* says that some other is active.
LEMMA PatchReadInv ==
  ASSUME StaffInv, NEW d \in Desks, NEW by, NEW s \in Staff, PatchRead(d, by, s)
  PROVE  StaffInv'
<1>1. PICK p \in Patches :
        /\ desk' = [desk EXCEPT ![d] =
             [at |-> IF p.active = "off" /\ s \in Admins /\ account[s] = "active"
                     THEN "count_active" ELSE FirstWrite(p.active),
              who |-> s, active |-> p.active, pause |-> p.pause]]
        /\ staffRace' = (staffRace \/ (p.active = "off" /\ s \in Admins /\ OffDesks # {}))
  BY DEF PatchRead
<1>2. account[s] # "absent" /\ UNCHANGED account
  BY DEF PatchRead
<1> DEFINE x == [at |-> IF p.active = "off" /\ s \in Admins /\ account[s] = "active"
                        THEN "count_active" ELSE FirstWrite(p.active),
                 who |-> s, active |-> p.active, pause |-> p.pause]
<1>3. /\ x \in Desk /\ x.who = s /\ x.active = p.active
      /\ x.at \in {"count_active", "write_active", "write_pause"}
      /\ x.at = "count_active" => p.active = "off"
      /\ x.at = "write_active" => p.active # "keep"
      /\ x.at = "write_active" /\ p.active = "off" /\ s \in Admins => account[s] # "active"
  BY DEF Patches, Desk, DeskStages, FirstWrite
<1>4. desk' = [desk EXCEPT ![d] = x]
  BY <1>1
<1> HIDE DEF x
<1>5. /\ desk' \in [Desks -> Desk]
      /\ desk'[d] = x
      /\ \A e \in Desks \ {d} : desk'[e] = desk[e]
  BY <1>3, <1>4, DeskKeepsType DEF StaffInv
<1>6. StaffTypeOK'
  BY <1>1, <1>2, <1>5 DEF StaffInv, StaffTypeOK
<1>7. WritesAreGiven'
  BY <1>3, <1>5 DEF StaffInv, WritesAreGiven
<1>8. ActiveAdmins' = ActiveAdmins /\ AdminRows' = AdminRows
  BY <1>2 DEF ActiveAdmins, AdminRows
<1>9. \A e \in OffDesks' : e # d => e \in OffDesks /\ desk'[e] = desk[e]
  BY <1>5 DEF OffDesks
<1>10. d \in OffDesks' => p.active = "off" /\ s \in Admins
  BY <1>3, <1>5 DEF OffDesks
<1>11. ~staffRace' => ~staffRace /\ (d \in OffDesks' => OffDesks = {})
  BY <1>1, <1>10 DEF StaffInv, StaffTypeOK
<1>12. OneDeactivation'
  BY <1>9, <1>11 DEF StaffInv, OneDeactivation
<1>13. AnAdminRemains'
  BY <1>8, <1>11 DEF StaffInv, AnAdminRemains
<1>14. AnotherIsActive'
  <2> SUFFICES ASSUME ~staffRace', NEW e \in OffDesks', desk'[e].at = "write_active"
               PROVE  \E a \in ActiveAdmins' : a # desk'[e].who
    BY DEF AnotherIsActive
  <2>1. CASE e # d
    BY <2>1, <1>8, <1>9, <1>11 DEF StaffInv, AnotherIsActive
  <2>2. CASE e = d
    <3>1. s \in Admins /\ account[s] # "active"
      BY <2>2, <1>3, <1>5, <1>10
    <3>2. s \in AdminRows /\ s \notin ActiveAdmins
      BY <3>1, <1>2 DEF AdminRows, ActiveAdmins
    <3>3. ActiveAdmins # {}
      BY <3>2, <1>11 DEF StaffInv, AnAdminRemains
    <3> QED
      BY <3>2, <3>3, <2>2, <1>3, <1>5, <1>8
  <2> QED
    BY <2>1, <2>2
<1> QED
  BY <1>6, <1>7, <1>12, <1>13, <1>14 DEF StaffInv

LEMMA PatchCountInv ==
  ASSUME StaffInv, NEW d \in Desks, PatchCount(d)
  PROVE  StaffInv'
<1>1. UNCHANGED <<account, staffRace>> /\ desk[d].at = "count_active"
  BY DEF PatchCount
<1>2. CASE Cardinality(ActiveAdmins) <= 1
  BY <1>1, <1>2, LeaveStep DEF PatchCount
<1>3. CASE ~(Cardinality(ActiveAdmins) <= 1)
  <2> DEFINE x == [desk[d] EXCEPT !.at = "write_active"]
  <2>1. /\ desk' = [desk EXCEPT ![d] = x]
        /\ x \in Desk /\ x.at = "write_active"
        /\ x.who = desk[d].who /\ x.active = desk[d].active
    <3>1. DeskGoto(d, "write_active")
      BY <1>3 DEF PatchCount
    <3>2. desk' = [desk EXCEPT ![d] = x] /\ x \in Desk
      BY <3>1, DeskMoves DEF StaffInv, DeskStages
    <3> QED
      BY <3>2 DEF StaffInv, StaffTypeOK, Desk
  <2> HIDE DEF x
  <2>2. /\ desk' \in [Desks -> Desk]
        /\ desk'[d] = x
        /\ \A e \in Desks \ {d} : desk'[e] = desk[e]
    BY <2>1, DeskKeepsType DEF StaffInv
  <2>3. StaffTypeOK'
    BY <1>1, <2>2 DEF StaffInv, StaffTypeOK
  <2>4. WritesAreGiven'
    BY <1>1, <2>1, <2>2 DEF StaffInv, WritesAreGiven
  <2>5. \E a \in ActiveAdmins : a # desk[d].who
    BY <1>3, CountLeavesAnother
  <2>6. \A e \in OffDesks' : /\ e \in OffDesks
                             /\ desk'[e].who = desk[e].who
                             /\ e # d => desk'[e].at = desk[e].at
    BY <2>1, <2>2 DEF OffDesks
  <2> QED
    BY <1>1, <2>3, <2>4, <2>5, <2>6, QuietStep
<1> QED
  BY <1>2, <1>3

LEMMA PatchActiveInv ==
  ASSUME StaffInv, NEW d \in Desks, PatchActive(d)
  PROVE  StaffInv'
<1> DEFINE s == desk[d].who
           x == IF desk[d].pause = "keep" THEN NoDesk ELSE [desk[d] EXCEPT !.at = "write_pause"]
<1>1. /\ desk[d].at = "write_active" /\ UNCHANGED staffRace
      /\ s \in Staff /\ desk[d].active \in {"on", "off"}
  BY DEF PatchActive, StaffInv, WritesAreGiven, StaffTypeOK, Desk
<1>2. /\ desk' = [desk EXCEPT ![d] = x]
      /\ x \in Desk /\ x.at \in {"idle", "write_pause"}
      /\ x.active = "off" => desk[d].active = "off" /\ x.who = s
  <2>1. desk' = [desk EXCEPT ![d] = x]
    BY DEF PatchActive, DeskLeave, DeskGoto
  <2>2. CASE desk[d].pause = "keep"
    BY <2>1, <2>2, NoDeskType
  <2>3. CASE desk[d].pause # "keep"
    BY <2>1, <2>3 DEF StaffInv, StaffTypeOK, Desk, DeskStages
  <2> QED
    BY <2>2, <2>3
<1> HIDE DEF x
<1>3. /\ desk' \in [Desks -> Desk]
      /\ desk'[d] = x
      /\ \A e \in Desks \ {d} : desk'[e] = desk[e]
  BY <1>2, DeskKeepsType DEF StaffInv
<1>4. WritesAreGiven'
  BY <1>2, <1>3 DEF StaffInv, WritesAreGiven
<1>5. \A e \in OffDesks' : /\ e \in OffDesks
                           /\ desk'[e].who = desk[e].who
                           /\ desk'[e].at = "write_active" => e # d /\ desk[e].at = "write_active"
  BY <1>2, <1>3 DEF OffDesks
<1>6. OneDeactivation'
  BY <1>1, <1>5 DEF StaffInv, OneDeactivation
<1>7. CASE desk[d].active = "on"
  <2>1. account' = [account EXCEPT ![s] = "active"]
    BY <1>7 DEF PatchActive
  <2>2. \A a \in ActiveAdmins : a \in ActiveAdmins'
    BY <2>1 DEF StaffInv, StaffTypeOK, ActiveAdmins, Staff
  <2>3. s \in Admins => s \in ActiveAdmins'
    BY <2>1, <1>1 DEF StaffInv, StaffTypeOK, ActiveAdmins
  <2>4. s \notin Admins => AdminRows' = AdminRows
    BY <2>1 DEF StaffInv, StaffTypeOK, AdminRows, Staff
  <2>5. AnotherIsActive'
    BY <1>1, <1>5, <2>2 DEF StaffInv, AnotherIsActive
  <2>6. AnAdminRemains'
    BY <1>1, <2>2, <2>3, <2>4 DEF StaffInv, AnAdminRemains
  <2>7. StaffTypeOK'
    BY <1>1, <1>3, <2>1 DEF StaffInv, StaffTypeOK
  <2> QED
    BY <1>4, <1>6, <2>5, <2>6, <2>7 DEF StaffInv
<1>8. CASE desk[d].active = "off"
  <2>1. account' = [account EXCEPT ![s] = "inactive"]
    BY <1>8 DEF PatchActive
  <2>2. \A a \in ActiveAdmins : a # s => a \in ActiveAdmins'
    BY <2>1 DEF StaffInv, StaffTypeOK, ActiveAdmins, Staff
  <2>3. StaffTypeOK'
    BY <1>1, <1>3, <2>1 DEF StaffInv, StaffTypeOK
  <2>4. CASE s \in Admins
    <3>1. d \in OffDesks
      BY <1>8, <2>4 DEF OffDesks
    <3>2. ~staffRace => \A e \in OffDesks' : desk'[e].at # "write_active"
      BY <3>1, <1>5 DEF StaffInv, OneDeactivation
    <3>3. ~staffRace => ActiveAdmins' # {}
      BY <3>1, <1>1, <2>2 DEF StaffInv, AnotherIsActive
    <3> QED
      BY <1>1, <1>4, <1>6, <2>3, <3>2, <3>3 DEF StaffInv, AnotherIsActive, AnAdminRemains
  <2>5. CASE s \notin Admins
    <3>1. ActiveAdmins' = ActiveAdmins /\ AdminRows' = AdminRows
      BY <2>1, <2>5 DEF StaffInv, StaffTypeOK, ActiveAdmins, AdminRows, Staff
    <3> QED
      BY <1>1, <1>4, <1>5, <1>6, <2>3, <3>1 DEF StaffInv, AnotherIsActive, AnAdminRemains
  <2> QED
    BY <2>4, <2>5
<1> QED
  BY <1>1, <1>7, <1>8

-----------------------------------------------------------------------------
LEMMA StaffStepInv ==
  ASSUME StaffInv, [StaffNext]_staffVars
  PROVE  StaffInv'
<1>1. CASE UNCHANGED staffVars
  BY <1>1 DEF staffVars, StaffInv, StaffTypeOK, WritesAreGiven, OneDeactivation,
              AnotherIsActive, AnAdminRemains, OffDesks, ActiveAdmins, AdminRows
<1>2. ASSUME NEW d \in Desks, StaffStep(d)
      PROVE  StaffInv'
  <2>1. ASSUME NEW a \in Admins, Login(d, a)
        PROVE  StaffInv'
    BY <2>1 DEF Login, StaffInv, StaffTypeOK, WritesAreGiven, OneDeactivation,
                AnotherIsActive, AnAdminRemains, OffDesks, ActiveAdmins, AdminRows
  <2>2. CASE BootstrapFind(d)
    BY <2>2, BootstrapFindInv
  <2>3. CASE BootstrapCount(d)
    BY <2>3, LeaveStep DEF BootstrapCount
  <2>4. ASSUME NEW s \in Staff, CreateFind(d, s)
        PROVE  StaffInv'
    BY <2>4, CreateFindInv
  <2>5. CASE CreateInsert(d)
    BY <2>5, CreateInsertInv
  <2>6. ASSUME NEW by \in Admins \cup {Nobody}, NEW s \in Staff, PatchRead(d, by, s)
        PROVE  StaffInv'
    BY <2>6, PatchReadInv
  <2>7. CASE PatchCount(d)
    BY <2>7, PatchCountInv
  <2>8. CASE PatchActive(d)
    BY <2>8, PatchActiveInv
  <2>9. CASE PatchPause(d)
    BY <2>9, LeaveStep DEF PatchPause
  <2> QED
    BY <1>2, <2>1, <2>2, <2>3, <2>4, <2>5, <2>6, <2>7, <2>8, <2>9 DEF StaffStep
<1> QED
  BY <1>1, <1>2 DEF StaffNext

\* The strengthened invariant holds of every behaviour of the accounts.
THEOREM StaffInvariance == StaffSpec => []StaffInv
BY StaffInitInv, StaffStepInv, PTL DEF StaffSpec

\* patchStaffUserByAdmin: unless two deactivations of admins overlap, the last
\* active admin is never locked out, however the other requests interleave.
THEOREM LastAdminStays == StaffSpec => []AnAdminRemains
<1>1. StaffInv => AnAdminRemains
  BY DEF StaffInv
<1> QED
  BY <1>1, StaffInvariance, PTL

-----------------------------------------------------------------------------
(* The daily digest *)

RoundStages == {"idle", "next", "send", "release"}
RoundRecords == [at : RoundStages, who : Staff \cup {Nobody}, todo : SUBSET Staff, admins : BOOLEAN]

DigestTypeOK ==
  /\ claims \subseteq Staff
  /\ round \in [Rounds -> RoundRecords]
  /\ digests \in [Staff -> Nat]
  /\ alarms \in [Staff -> Nat]

\* A cron call names a person exactly while it holds that person's claim.
HolderIsNamed ==
  \A c \in Rounds : round[c].at \in {"send", "release"} <=> round[c].who # Nobody

OneHolder ==
  \A c, d \in Rounds : round[c].who # Nobody /\ round[c].who = round[d].who => c = d

HolderIsUnserved ==
  \A c \in Rounds :
    round[c].who # Nobody =>
      /\ round[c].who \in claims
      /\ digests[round[c].who] = alarms[round[c].who]

UnclaimedIsUnserved == \A s \in Staff \ claims : digests[s] = alarms[s]

DigestInv ==
  /\ DigestTypeOK
  /\ HolderIsNamed
  /\ OneHolder
  /\ HolderIsUnserved
  /\ UnclaimedIsUnserved
  /\ OneDigestPerDay
  /\ ClaimIsSpent

-----------------------------------------------------------------------------
LEMMA NobodyIsNotStaff == Nobody \notin Staff
BY StaffAssumption DEF Staff

LEMMA DigestInitInv ==
  ASSUME DigestInit
  PROVE  DigestInv
<1>1. NoRound \in RoundRecords /\ NoRound.at = "idle" /\ NoRound.who = Nobody
  BY DEF NoRound, RoundRecords, RoundStages
<1>2. DigestTypeOK
  BY <1>1 DEF DigestInit, DayInit, DigestTypeOK
<1> QED
  BY <1>1, <1>2 DEF DigestInit, DayInit, DigestInv, HolderIsNamed, OneHolder, HolderIsUnserved,
     UnclaimedIsUnserved, OneDigestPerDay, ClaimIsSpent

\* A step that moves a cron call about, without anyone's claim or digest.
LEMMA MovingKeepsInv ==
  ASSUME DigestInv, NEW c \in Rounds, NEW r \in RoundRecords,
         round[c].who = Nobody, r.at \in {"idle", "next"}, r.who = Nobody,
         round' = [round EXCEPT ![c] = r],
         UNCHANGED <<claims, digests, alarms, orphans>>
  PROVE  DigestInv'
<1>1. DigestTypeOK'
  BY DEF DigestInv, DigestTypeOK
<1>2. \A d \in Rounds : round'[d].who # Nobody => d # c /\ round'[d] = round[d]
  BY DEF DigestInv, DigestTypeOK
<1>3. \A d \in Rounds : round[d].who # Nobody => round'[d] = round[d]
  BY DEF DigestInv, DigestTypeOK
<1>4. HolderIsNamed'
  BY DEF DigestInv, DigestTypeOK, HolderIsNamed
<1>5. OneHolder' /\ HolderIsUnserved'
  BY <1>2 DEF DigestInv, OneHolder, HolderIsUnserved
<1>6. UnclaimedIsUnserved' /\ OneDigestPerDay'
  BY DEF DigestInv, UnclaimedIsUnserved, OneDigestPerDay
<1>7. ClaimIsSpent'
  BY <1>3, NobodyIsNotStaff DEF DigestInv, DigestTypeOK, ClaimIsSpent
<1> QED
  BY <1>1, <1>4, <1>5, <1>6, <1>7 DEF DigestInv

LEMMA RoundStartKeepsInv ==
  ASSUME DigestInv, NEW c \in Rounds, RoundStart(c)
  PROVE  DigestInv'
<1>1. PICK due \in SUBSET ActiveOf(SalesExperts) :
        round' = [round EXCEPT ![c] = [at |-> "next", who |-> Nobody, todo |-> due, admins |-> FALSE]]
  BY DEF RoundStart
<1> DEFINE r == [at |-> "next", who |-> Nobody, todo |-> due, admins |-> FALSE]
<1>2. r \in RoundRecords
  BY DEF RoundRecords, RoundStages, ActiveOf, Staff
<1>3. round[c].who = Nobody
  BY DEF RoundStart, DigestInv, HolderIsNamed
<1>4. UNCHANGED <<claims, digests, alarms, orphans>>
  BY DEF RoundStart
<1> QED
  BY <1>1, <1>2, <1>3, <1>4, MovingKeepsInv

LEMMA AdminsStartKeepsInv ==
  ASSUME DigestInv, NEW c \in Rounds, AdminsStart(c)
  PROVE  DigestInv'
<1>1. PICK overdue \in BOOLEAN :
        round' = [round EXCEPT ![c].admins = TRUE,
                               ![c].todo = IF overdue THEN ActiveOf(Admins) ELSE {}]
  BY DEF AdminsStart
<1> DEFINE r == [round[c] EXCEPT !.admins = TRUE,
                                 !.todo = IF overdue THEN ActiveOf(Admins) ELSE {}]
<1>2. round[c] \in RoundRecords /\ round[c].at = "next"
  BY DEF AdminsStart, DigestInv, DigestTypeOK
<1>3. r \in RoundRecords /\ r.at = "next" /\ r.who = round[c].who
  BY <1>2 DEF RoundRecords, ActiveOf, Staff
<1>4. round' = [round EXCEPT ![c] = r]
  BY <1>1 DEF DigestInv, DigestTypeOK
<1>5. round[c].who = Nobody
  BY <1>2 DEF DigestInv, HolderIsNamed
<1>6. UNCHANGED <<claims, digests, alarms, orphans>>
  BY DEF AdminsStart
<1> HIDE DEF r
<1> QED
  BY <1>3, <1>4, <1>5, <1>6, MovingKeepsInv

LEMMA RoundEndKeepsInv ==
  ASSUME DigestInv, NEW c \in Rounds, RoundEnd(c)
  PROVE  DigestInv'
<1>1. NoRound \in RoundRecords /\ NoRound.at = "idle" /\ NoRound.who = Nobody
  BY DEF NoRound, RoundRecords, RoundStages
<1>2. round[c].who = Nobody
  BY DEF RoundEnd, DigestInv, HolderIsNamed
<1> QED
  BY <1>1, <1>2, MovingKeepsInv DEF RoundEnd

\* The insert succeeds only for a person who has no claim yet.
LEMMA ClaimKeepsInv ==
  ASSUME DigestInv, NEW c \in Rounds, Claim(c)
  PROVE  DigestInv'
<1>1. PICK s \in round[c].todo :
        IF s \in claims
        THEN round' = [round EXCEPT ![c].todo = @ \ {s}] /\ UNCHANGED claims
        ELSE /\ round' = [round EXCEPT ![c].todo = @ \ {s}, ![c].at = "send", ![c].who = s]
             /\ claims' = claims \cup {s}
  BY DEF Claim
<1>2. /\ round[c] \in RoundRecords /\ round[c].at = "next" /\ round[c].who = Nobody
      /\ s \in Staff /\ s # Nobody
  BY NobodyIsNotStaff DEF Claim, DigestInv, DigestTypeOK, RoundRecords, HolderIsNamed
<1>3. UNCHANGED <<digests, alarms, orphans>>
  BY DEF Claim
<1>4. CASE s \in claims
  <2> DEFINE r == [round[c] EXCEPT !.todo = @ \ {s}]
  <2>1. r \in RoundRecords /\ r.at = "next" /\ r.who = Nobody
    BY <1>2 DEF RoundRecords
  <2>2. round' = [round EXCEPT ![c] = r] /\ UNCHANGED claims
    BY <1>1, <1>4 DEF DigestInv, DigestTypeOK
  <2> HIDE DEF r
  <2> QED
    BY <1>2, <1>3, <2>1, <2>2, MovingKeepsInv
<1>5. CASE s \notin claims
  <2> DEFINE r == [round[c] EXCEPT !.todo = @ \ {s}, !.at = "send", !.who = s]
  <2>1. r \in RoundRecords /\ r.at = "send" /\ r.who = s
    BY <1>2 DEF RoundRecords, RoundStages
  <2>2. round' = [round EXCEPT ![c] = r] /\ claims' = claims \cup {s}
    BY <1>1, <1>5 DEF DigestInv, DigestTypeOK
  <2>3. /\ round'[c] = r
        /\ \A d \in Rounds \ {c} : round'[d] = round[d]
    BY <2>2 DEF DigestInv, DigestTypeOK
  <2> HIDE DEF r
  <2>4. DigestTypeOK'
    BY <1>2, <1>3, <2>1, <2>2 DEF DigestInv, DigestTypeOK
  <2>5. HolderIsNamed'
    BY <1>2, <2>1, <2>3 DEF DigestInv, HolderIsNamed
  <2>6. \A d \in Rounds \ {c} : round[d].who # s
    BY <1>2, <1>5 DEF DigestInv, HolderIsUnserved
  <2>7. OneHolder'
    BY <2>1, <2>3, <2>6 DEF DigestInv, OneHolder
  <2>8. digests[s] = alarms[s]
    BY <1>2, <1>5 DEF DigestInv, UnclaimedIsUnserved
  <2>9. HolderIsUnserved'
    BY <1>3, <2>1, <2>2, <2>3, <2>8 DEF DigestInv, HolderIsUnserved
  <2>10. UnclaimedIsUnserved' /\ OneDigestPerDay'
    BY <1>3, <2>2 DEF DigestInv, UnclaimedIsUnserved, OneDigestPerDay
  <2>11. ClaimIsSpent'
    <3>1. SUFFICES ASSUME NEW p \in claims' \ orphans'
          PROVE  digests'[p] > 0 \/ \E d \in Rounds : round'[d].who = p
      BY DEF ClaimIsSpent
    <3>2. CASE p = s
      BY <3>2, <2>1, <2>3
    <3>3. CASE p # s
      <4>1. p \in claims \ orphans
        BY <1>3, <2>2, <3>1, <3>3
      <4>2. CASE digests[p] > 0
        BY <1>3, <4>2
      <4>3. CASE \E d \in Rounds : round[d].who = p
        <5>1. PICK d \in Rounds : round[d].who = p
          BY <4>3
        <5>2. p # Nobody
          BY <4>1, NobodyIsNotStaff DEF DigestInv, DigestTypeOK
        <5>3. d # c
          BY <1>2, <5>1, <5>2
        <5> QED
          BY <2>3, <5>1, <5>3
      <4> QED
        BY <4>1, <4>2, <4>3 DEF DigestInv, ClaimIsSpent
    <3> QED
      BY <3>2, <3>3
  <2> QED
    BY <2>4, <2>5, <2>7, <2>9, <2>10, <2>11 DEF DigestInv
<1> QED
  BY <1>4, <1>5

\* A step of a call that holds the claim of s changes the rows of s only.
LEMMA HolderKeepsInv ==
  ASSUME DigestInv, NEW c \in Rounds, NEW s \in Staff, NEW r \in RoundRecords,
         round[c].who = s, r.who \in {Nobody, s},
         r.at \in {"send", "release"} <=> r.who # Nobody,
         round' = [round EXCEPT ![c] = r],
         claims' \in SUBSET Staff, digests' \in [Staff -> Nat], alarms' \in [Staff -> Nat],
         \A p \in Staff \ {s} :
           /\ p \in claims' <=> p \in claims
           /\ digests'[p] = digests[p] /\ alarms'[p] = alarms[p],
         orphans \subseteq orphans',
         r.who = s => s \in claims',
         s \notin claims' \/ r.who = s => digests'[s] = alarms'[s],
         digests'[s] <= 1 + alarms'[s],
         s \in claims' \ orphans' => digests'[s] > 0 \/ r.who = s
  PROVE  DigestInv'
<1>1. /\ DigestTypeOK'
      /\ round'[c] = r
      /\ \A d \in Rounds \ {c} : round'[d] = round[d]
  BY DEF DigestInv, DigestTypeOK
<1>2. s # Nobody
  BY NobodyIsNotStaff
<1>3. \A d \in Rounds \ {c} : round[d].who # s
  BY <1>2 DEF DigestInv, OneHolder
<1>4. HolderIsNamed'
  BY <1>1 DEF DigestInv, HolderIsNamed
<1>5. OneHolder'
  BY <1>1, <1>3 DEF DigestInv, OneHolder
<1>6. HolderIsUnserved'
  <2>1. SUFFICES ASSUME NEW d \in Rounds, round'[d].who # Nobody
        PROVE  round'[d].who \in claims' /\ digests'[round'[d].who] = alarms'[round'[d].who]
    BY DEF HolderIsUnserved
  <2>2. CASE d = c
    BY <1>1, <2>1, <2>2
  <2>3. CASE d # c
    <3>1. round'[d].who = round[d].who /\ round[d].who \in Staff \ {s}
      BY <1>1, <1>3, <2>1, <2>3 DEF DigestInv, DigestTypeOK, RoundRecords
    <3>2. round[d].who \in claims /\ digests[round[d].who] = alarms[round[d].who]
      BY <2>1, <3>1 DEF DigestInv, HolderIsUnserved
    <3> QED
      BY <3>1, <3>2
  <2> QED
    BY <2>2, <2>3
<1>7. UnclaimedIsUnserved'
  BY DEF DigestInv, UnclaimedIsUnserved
<1>8. OneDigestPerDay'
  BY DEF DigestInv, OneDigestPerDay
<1>9. ClaimIsSpent'
  <2>1. SUFFICES ASSUME NEW p \in claims' \ orphans'
        PROVE  digests'[p] > 0 \/ \E d \in Rounds : round'[d].who = p
    BY DEF ClaimIsSpent
  <2>2. CASE p = s
    BY <1>1, <2>1, <2>2
  <2>3. CASE p # s
    <3>1. p \in claims \ orphans /\ digests'[p] = digests[p]
      BY <2>1, <2>3
    <3>2. ASSUME NEW d \in Rounds, round[d].who = p
          PROVE  round'[d].who = p
      BY <1>1, <2>3, <3>2
    <3> QED
      BY <3>1, <3>2 DEF DigestInv, ClaimIsSpent
  <2> QED
    BY <2>2, <2>3
<1> QED
  BY <1>1, <1>4, <1>5, <1>6, <1>7, <1>8, <1>9 DEF DigestInv

\* What a holder knows of the person it holds.
LEMMA HolderKnows ==
  ASSUME DigestInv, NEW c \in Rounds, round[c].who # Nobody
  PROVE  /\ round[c] \in RoundRecords
         /\ round[c].who \in Staff
         /\ round[c].who \in claims
         /\ digests[round[c].who] = alarms[round[c].who]
BY DEF DigestInv, DigestTypeOK, RoundRecords, HolderIsUnserved

LEMMA SendKeepsInv ==
  ASSUME DigestInv, NEW c \in Rounds, Send(c)
  PROVE  DigestInv'
<1> DEFINE s == round[c].who
           r == [round[c] EXCEPT !.at = "next", !.who = Nobody]
<1>1. round[c].who # Nobody
  BY DEF Send, DigestInv, HolderIsNamed
<1>2. s \in Staff /\ s \in claims /\ digests[s] = alarms[s] /\ round[c] \in RoundRecords
  BY <1>1, HolderKnows
<1>3. r \in RoundRecords /\ r.at = "next" /\ r.who = Nobody
  BY <1>2 DEF RoundRecords, RoundStages
<1>4. round' = [round EXCEPT ![c] = r]
  BY DEF Send, RoundGoto, DigestInv, DigestTypeOK
<1>5. digests' = [digests EXCEPT ![s] = @ + 1] /\ UNCHANGED <<claims, alarms, orphans>>
  BY DEF Send
<1>6. digests \in [Staff -> Nat] /\ alarms \in [Staff -> Nat] /\ claims \in SUBSET Staff
  BY DEF DigestInv, DigestTypeOK
<1>7. digests' \in [Staff -> Nat] /\ digests'[s] = alarms'[s] + 1 /\ digests'[s] > 0
  BY <1>2, <1>5, <1>6
<1>8. \A p \in Staff \ {s} : digests'[p] = digests[p]
  BY <1>5, <1>6
<1>9. Nobody # s
  BY <1>1
<1>10. digests'[s] <= 1 + alarms'[s]
  BY <1>2, <1>5, <1>6, <1>7
<1> HIDE DEF s, r
<1> QED
  BY <1>2, <1>3, <1>4, <1>5, <1>6, <1>7, <1>8, <1>9, <1>10, HolderKeepsInv DEF s

LEMMA SendThrowsKeepsInv ==
  ASSUME DigestInv, NEW c \in Rounds, SendThrows(c)
  PROVE  DigestInv'
<1> DEFINE s == round[c].who
           r == [round[c] EXCEPT !.at = "release", !.who = round[c].who]
<1>1. round[c].who # Nobody
  BY DEF SendThrows, DigestInv, HolderIsNamed
<1>2. s \in Staff /\ s \in claims /\ digests[s] = alarms[s] /\ round[c] \in RoundRecords
  BY <1>1, HolderKnows
<1>3. r \in RoundRecords /\ r.at = "release" /\ r.who = s
  BY <1>2 DEF RoundRecords, RoundStages
<1>4. round' = [round EXCEPT ![c] = r]
  BY DEF SendThrows, RoundGoto, DigestInv, DigestTypeOK
<1>5. PICK delivered \in {0, 1} :
        /\ digests' = [digests EXCEPT ![s] = @ + delivered]
        /\ alarms' = [alarms EXCEPT ![s] = @ + delivered]
  BY DEF SendThrows
<1>6. UNCHANGED <<claims, orphans>>
  BY DEF SendThrows
<1>7. digests \in [Staff -> Nat] /\ alarms \in [Staff -> Nat] /\ claims \in SUBSET Staff
  BY DEF DigestInv, DigestTypeOK
<1>8. /\ digests' \in [Staff -> Nat] /\ alarms' \in [Staff -> Nat]
      /\ digests'[s] = alarms'[s]
      /\ \A p \in Staff \ {s} : digests'[p] = digests[p] /\ alarms'[p] = alarms[p]
  BY <1>2, <1>5, <1>7
<1>9. digests'[s] <= 1 + alarms'[s]
  BY <1>2, <1>8
<1> HIDE DEF s, r
<1> QED
  BY <1>1, <1>2, <1>3, <1>4, <1>6, <1>7, <1>8, <1>9, HolderKeepsInv DEF s

\* deleteStaffReminderLog gives back what its holder has claimed.
LEMMA ReleaseKeepsInv ==
  ASSUME DigestInv, NEW c \in Rounds, Release(c)
  PROVE  DigestInv'
<1> DEFINE s == round[c].who
           r == [round[c] EXCEPT !.at = "next", !.who = Nobody]
<1>1. round[c].who # Nobody
  BY DEF Release, DigestInv, HolderIsNamed
<1>2. s \in Staff /\ s \in claims /\ digests[s] = alarms[s] /\ round[c] \in RoundRecords
  BY <1>1, HolderKnows
<1>3. r \in RoundRecords /\ r.at = "next" /\ r.who = Nobody
  BY <1>2 DEF RoundRecords, RoundStages
<1>4. round' = [round EXCEPT ![c] = r]
  BY DEF Release, RoundGoto, DigestInv, DigestTypeOK
<1>5. claims' = claims \ {s} /\ UNCHANGED <<digests, alarms, orphans>>
  BY DEF Release
<1>6. digests \in [Staff -> Nat] /\ alarms \in [Staff -> Nat] /\ claims \in SUBSET Staff
  BY DEF DigestInv, DigestTypeOK
<1>7. Nobody # s
  BY <1>1
<1>8. digests'[s] = alarms'[s] /\ digests'[s] <= 1 + alarms'[s]
  BY <1>2, <1>5, <1>6
<1> HIDE DEF s, r
<1> QED
  BY <1>2, <1>3, <1>4, <1>5, <1>6, <1>7, <1>8, HolderKeepsInv DEF s

\* A death leaves the claim behind, and its person among the orphans.
LEMMA RoundDiesKeepsInv ==
  ASSUME DigestInv, NEW c \in Rounds, RoundDies(c)
  PROVE  DigestInv'
<1>1. NoRound \in RoundRecords /\ NoRound.at = "idle" /\ NoRound.who = Nobody
  BY DEF NoRound, RoundRecords, RoundStages
<1>2. /\ round' = [round EXCEPT ![c] = NoRound]
      /\ orphans' = orphans \cup ({round[c].who} \ {Nobody})
      /\ UNCHANGED <<claims, digests, alarms>>
  BY DEF RoundDies
<1>3. CASE round[c].who = Nobody
  <2>1. UNCHANGED orphans
    BY <1>2, <1>3
  <2> QED
    BY <1>1, <1>2, <1>3, <2>1, MovingKeepsInv
<1>4. CASE round[c].who # Nobody
  <2> DEFINE s == round[c].who
  <2>1. s \in Staff /\ s \in claims /\ digests[s] = alarms[s]
    BY <1>4, HolderKnows
  <2>2. digests \in [Staff -> Nat] /\ alarms \in [Staff -> Nat] /\ claims \in SUBSET Staff
    BY DEF DigestInv, DigestTypeOK
  <2>3. digests'[s] = alarms'[s] /\ digests'[s] <= 1 + alarms'[s] /\ s \in orphans' /\ Nobody # s
    BY <1>2, <1>4, <2>1, <2>2
  <2>4. orphans \subseteq orphans'
    BY <1>2
  <2> HIDE DEF s
  <2> QED
    BY <1>1, <1>2, <2>1, <2>2, <2>3, <2>4, HolderKeepsInv DEF s
<1> QED
  BY <1>3, <1>4

-----------------------------------------------------------------------------
(* Theorems *)

LEMMA DigestInvStep ==
  ASSUME DigestInv, [DigestNext]_digestVars
  PROVE  DigestInv'
<1>1. ASSUME UNCHANGED <<claims, round, digests, alarms, orphans>>
      PROVE  DigestInv'
  BY <1>1 DEF DigestInv, DigestTypeOK, HolderIsNamed, OneHolder, HolderIsUnserved,
     UnclaimedIsUnserved, OneDigestPerDay, ClaimIsSpent
<1>2. CASE UNCHANGED digestVars
  BY <1>1, <1>2 DEF digestVars, digestOwn
<1>3. ASSUME NEW c \in Rounds,
             \/ RoundStart(c) \/ AdminsStart(c) \/ RoundEnd(c)
             \/ Claim(c) \/ Send(c) \/ SendThrows(c) \/ Release(c) \/ RoundDies(c)
      PROVE  DigestInv'
  BY <1>3, RoundStartKeepsInv, AdminsStartKeepsInv, RoundEndKeepsInv, ClaimKeepsInv,
     SendKeepsInv, SendThrowsKeepsInv, ReleaseKeepsInv, RoundDiesKeepsInv
<1>4. CASE HourPasses
  BY <1>1, <1>4 DEF HourPasses
<1>5. ASSUME NEW s \in Switched, StaffSwitched(s)
      PROVE  DigestInv'
  BY <1>1, <1>5 DEF StaffSwitched, digestOwn
<1> QED
  BY <1>2, <1>3, <1>4, <1>5 DEF DigestNext

\* processFollowUpReminderDigests: claims, digests and who holds what stay
\* consistent in every behaviour.
THEOREM DigestInvariance == DigestSpec => []DigestInv
<1>1. DigestInit => DigestInv
  BY DigestInitInv
<1>2. DigestInv /\ [DigestNext]_digestVars => DigestInv'
  BY DigestInvStep
<1> QED
  BY <1>1, <1>2, PTL DEF DigestSpec

\* tryCreateStaffReminderLog: nobody gets a second digest in a day but after an
\* SMS whose sending threw although it was delivered.
THEOREM DigestIsSentOnce == DigestSpec => []OneDigestPerDay
<1>1. DigestInv => OneDigestPerDay
  BY DEF DigestInv
<1> QED
  BY <1>1, DigestInvariance, PTL

\* deleteStaffReminderLog: only a call that dies wastes a claim.
THEOREM NoClaimIsWasted == DigestSpec => []ClaimIsSpent
<1>1. DigestInv => ClaimIsSpent
  BY DEF DigestInv
<1> QED
  BY <1>1, DigestInvariance, PTL
===============================================================================
