-------------------------- MODULE MessengerBot_proofs --------------------------
(***************************************************************************)
(* Proofs about MessengerBot, for any handlers in flight, any number of    *)
(* questions and tests, and any number of mishaps.                         *)
(*                                                                         *)
(* A handler is a run of calls (IsRun): what may come between its start    *)
(* and a call that relies on the row it has read, and that what is         *)
(* abandoned is forgotten by the next call.  The runs that updates begin   *)
(* suit the row they are chosen by (CallsAre), and so does the rest of a   *)
(* run as long as its handler has the chat to itself.  The invariant:      *)
(*   SweeperReady  a fresh start still alone with the chat writes only     *)
(*                 when no test is open any more;                          *)
(*   Calm          since the last one nothing overlapped or died: the      *)
(*                 handler at work is alone and what it has left fits the  *)
(*                 chat (Fits), the position is backed except between an   *)
(*                 abandoning and the reset that follows it, the tests are *)
(*                 bounded, and the answers of an open test leave no gap,  *)
(*                 which is what resuming by their number relies on.       *)
(***************************************************************************)
EXTENDS MessengerBot, FiniteSetTheorems, SequenceTheorems, WellFoundedInduction, TLAPS

-----------------------------------------------------------------------------
(* Runs of calls                                                           *)

AllCalls ==
  {"say", "menu_find", "menu_write", "set_menu", "set_reports", "set_consult",
   "set_contact", "set_user", "reset", "forget", "set_new", "set_name", "set_team",
   "set_team_size", "set_sales_model", "abandon_mine", "abandon_all", "resume_find",
   "resume_write", "start_test", "show_reports", "save", "advance", "finish"}

\* Calls that nothing follows before they have said what does.
LastCalls == {"resume_find", "resume_write", "start_test", "show_reports", "advance"}
Early == AllCalls \ LastCalls

\* The calls that count on the chat as it was when the handler began, and what
\* may come between.
Before(call) ==
  CASE call = "set_team_size"   -> {"say", "set_name"}
    [] call = "set_sales_model" -> {"say", "set_team"}
    [] call = "advance"         -> {"say", "save"}
    [] call = "set_new"         -> {"say", "abandon_all"}
    [] call = "forget"          -> {"abandon_all"}
    [] call \in {"start_test", "resume_write", "save", "abandon_all"} -> {"say"}
    [] OTHER                    -> Early

Resets == {"reset", "forget", "set_new"}
Abandons == {"abandon_mine", "abandon_all"}

\* What is abandoned is forgotten by the next call.
IsRun(s) ==
  /\ s \in Seq(AllCalls)
  /\ \A j \in 1..Len(s) : \A i \in 1..(j - 1) : s[i] \in Before(s[j])
  /\ \A i \in 1..Len(s) : s[i] \in Abandons => i < Len(s) /\ s[i + 1] \in Resets

Has(s, call) == \E i \in 1..Len(s) : s[i] = call
\* resume_write goes by what was found, not by the copy of the row.
Reads(s) == \E i \in 1..Len(s) : s[i] \in SeenReaders \ {"resume_write"}

Special == {"set_team_size", "set_sales_model", "start_test", "resume_write", "save",
            "advance", "set_new", "forget"}

LEMMA BeforeIsEarly == \A call : Before(call) \subseteq Early
BY DEF Before, Early, AllCalls, LastCalls

LEMMA TailIs ==
  ASSUME NEW s \in Seq(AllCalls), s # <<>>
  PROVE  /\ Tail(s) \in Seq(AllCalls) /\ Len(Tail(s)) = Len(s) - 1 /\ Len(s) \in Nat \ {0}
         /\ Head(s) = s[1] /\ Head(s) \in AllCalls
         /\ \A i \in 1..Len(Tail(s)) : i + 1 \in 1..Len(s) /\ Tail(s)[i] = s[i + 1]
OBVIOUS

LEMMA RunTail ==
  ASSUME NEW s, IsRun(s), s # <<>>
  PROVE  /\ IsRun(Tail(s))
         /\ \A call : Has(Tail(s), call) => Has(s, call)
         /\ \A call : Has(s, call) => call = Head(s) \/ Has(Tail(s), call)
         /\ Reads(Tail(s)) => Reads(s)
         /\ Head(s) \in SeenReaders \ {"resume_write"} => Reads(s)
         /\ Has(s, Head(s))
         /\ \A call : Has(Tail(s), call) => Head(s) \in Before(call)
         /\ Head(s) \in Abandons => Tail(s) # <<>> /\ Head(Tail(s)) \in Resets
         /\ Head(s) \in LastCalls => Tail(s) = <<>>
<1> DEFINE t == Tail(s)
<1>1. s \in Seq(AllCalls)
  BY DEF IsRun
<1>2. /\ t \in Seq(AllCalls) /\ Len(t) = Len(s) - 1 /\ Len(s) \in Nat \ {0}
      /\ Head(s) = s[1] /\ Head(s) \in AllCalls
      /\ \A i \in 1..Len(t) : i + 1 \in 1..Len(s) /\ t[i] = s[i + 1]
  BY <1>1, TailIs
<1>3. \A i \in 2..Len(s) : i - 1 \in 1..Len(t) /\ t[i - 1] = s[i]
  BY <1>2
<1> HIDE DEF t
<1>4. \A j \in 1..Len(t) : \A i \in 1..(j - 1) : t[i] \in Before(t[j])
  <2>1. SUFFICES ASSUME NEW j \in 1..Len(t), NEW i \in 1..(j - 1)
                 PROVE  t[i] \in Before(t[j])
    OBVIOUS
  <2>2. j + 1 \in 1..Len(s) /\ i + 1 \in 1..((j + 1) - 1) /\ i \in 1..Len(t)
    BY <1>2, <2>1
  <2>3. s[i + 1] \in Before(s[j + 1])
    BY <2>2 DEF IsRun
  <2>. QED BY <1>2, <2>2, <2>3
<1>5. \A i \in 1..Len(t) : t[i] \in Abandons => i < Len(t) /\ t[i + 1] \in Resets
  <2>1. SUFFICES ASSUME NEW i \in 1..Len(t), t[i] \in Abandons
                 PROVE  i < Len(t) /\ t[i + 1] \in Resets
    OBVIOUS
  <2>2. i + 1 \in 1..Len(s) /\ s[i + 1] \in Abandons
    BY <1>2, <2>1
  <2>3. i + 1 < Len(s) /\ s[(i + 1) + 1] \in Resets
    BY <2>2 DEF IsRun
  <2>4. i + 1 \in 1..Len(t)
    BY <1>2, <2>1, <2>3
  <2>. QED BY <1>2, <2>1, <2>3, <2>4
<1>6. IsRun(t)
  BY <1>2, <1>4, <1>5 DEF IsRun
<1>7. \A call : Has(t, call) => Has(s, call)
  BY <1>2 DEF Has
<1>8. \A call : Has(s, call) => call = Head(s) \/ Has(t, call)
  <2>1. SUFFICES ASSUME NEW i \in 1..Len(s), i # 1
                 PROVE  Has(t, s[i])
    BY <1>2 DEF Has
  <2>2. i \in 2..Len(s)
    BY <1>2, <2>1
  <2>. QED BY <1>3, <2>2 DEF Has
<1>9. Reads(t) => Reads(s)
  BY <1>2 DEF Reads
<1>10. (Head(s) \in SeenReaders \ {"resume_write"} => Reads(s)) /\ Has(s, Head(s))
  BY <1>2 DEF Reads, Has
<1>11. \A call : Has(t, call) => Head(s) \in Before(call)
  <2>1. SUFFICES ASSUME NEW i \in 1..Len(t) PROVE s[1] \in Before(t[i])
    BY <1>2 DEF Has
  <2>2. i + 1 \in 1..Len(s) /\ 1 \in 1..((i + 1) - 1)
    BY <1>2
  <2>3. s[1] \in Before(s[i + 1])
    BY <2>2 DEF IsRun
  <2>. QED BY <1>2, <2>3
<1>12. Head(s) \in Abandons => t # <<>> /\ Head(t) \in Resets
  <2>1. SUFFICES ASSUME Head(s) \in Abandons PROVE t # <<>> /\ Head(t) \in Resets
    OBVIOUS
  <2>2. 1 < Len(s) /\ s[1 + 1] \in Resets
    BY <1>2, <2>1 DEF IsRun
  <2>3. t[1] \in Resets /\ Len(t) > 0
    BY <1>2, <2>2
  <2>. QED BY <1>2, <2>3
<1>13. Head(s) \in LastCalls => t = <<>>
  <2>1. SUFFICES ASSUME t # <<>> PROVE Head(s) \notin LastCalls
    OBVIOUS
  <2>2. Has(t, t[1])
    BY <1>2, <2>1 DEF Has
  <2>. QED BY <1>11, <2>2, BeforeIsEarly DEF Early
<1>. QED BY <1>6, <1>7, <1>8, <1>9, <1>10, <1>11, <1>12, <1>13 DEF t

\* After a call that is none of those that may come between, nothing is special.
LEMMA PlainAfter ==
  ASSUME NEW s, IsRun(s), s # <<>>,
         Head(s) \notin {"say", "abandon_all", "save", "set_name", "set_team"}
  PROVE  \A call \in Special \cup {"abandon_all"} : ~Has(Tail(s), call)
<1>1. \A call \in Special \cup {"abandon_all"} : Head(s) \notin Before(call)
  BY DEF Special, Before
<1>. QED BY <1>1, RunTail

\* Two runs make a run when the second minds nothing of the first.
LEMMA RunConcat ==
  ASSUME NEW s, NEW t, IsRun(s), IsRun(t),
         \A i \in 1..Len(s), j \in 1..Len(t) : s[i] \in Before(t[j])
  PROVE  /\ IsRun(s \o t)
         /\ \A call : Has(s \o t, call) <=> Has(s, call) \/ Has(t, call)
<1> DEFINE u == s \o t
           m == Len(s)
           n == Len(t)
<1>1. /\ u \in Seq(AllCalls) /\ Len(u) = m + n /\ m \in Nat /\ n \in Nat
      /\ \A i \in 1..m : u[i] = s[i]
      /\ \A i \in (m + 1)..(m + n) : u[i] = t[i - m]
  BY DEF IsRun
<1> HIDE DEF u, m, n
<1>2. \A j \in 1..Len(u) : \A i \in 1..(j - 1) : u[i] \in Before(u[j])
  <2>1. SUFFICES ASSUME NEW j \in 1..Len(u), NEW i \in 1..(j - 1)
                 PROVE  u[i] \in Before(u[j])
    OBVIOUS
  <2>2. CASE j \in 1..m
    BY <1>1, <2>1, <2>2 DEF IsRun, m
  <2>3. CASE j \in (m + 1)..(m + n) /\ i \in 1..m
    <3>1. j - m \in 1..n
      BY <1>1, <2>3
    <3>. QED BY <1>1, <2>3, <3>1 DEF m, n
  <2>4. CASE j \in (m + 1)..(m + n) /\ i \in (m + 1)..(m + n)
    <3>1. j - m \in 1..n /\ i - m \in 1..((j - m) - 1)
      BY <1>1, <2>1, <2>4
    <3>2. t[i - m] \in Before(t[j - m])
      BY <3>1 DEF IsRun, n
    <3>. QED BY <1>1, <2>4, <3>2
  <2>. QED BY <1>1, <2>1, <2>2, <2>3, <2>4
<1>3. \A i \in 1..Len(u) : u[i] \in Abandons => i < Len(u) /\ u[i + 1] \in Resets
  <2>1. SUFFICES ASSUME NEW i \in 1..Len(u), u[i] \in Abandons
                 PROVE  i < Len(u) /\ u[i + 1] \in Resets
    OBVIOUS
  <2>2. CASE i \in 1..m
    <3>1. i < m /\ s[i + 1] \in Resets
      BY <1>1, <2>1, <2>2 DEF IsRun, m
    <3>. QED BY <1>1, <2>2, <3>1
  <2>3. CASE i \in (m + 1)..(m + n)
    <3>1. i - m \in 1..n /\ t[i - m] \in Abandons
      BY <1>1, <2>1, <2>3
    <3>2. i - m < n /\ t[(i - m) + 1] \in Resets
      BY <3>1 DEF IsRun, n
    <3>3. i + 1 \in (m + 1)..(m + n) /\ (i + 1) - m = (i - m) + 1
      BY <1>1, <2>3, <3>2
    <3>4. u[i + 1] = t[(i - m) + 1]
      BY <1>1, <3>3
    <3>. QED BY <1>1, <2>3, <3>2, <3>4
  <2>. QED BY <1>1, <2>1, <2>2, <2>3
<1>4. ASSUME NEW call PROVE Has(u, call) <=> Has(s, call) \/ Has(t, call)
  <2>1. ASSUME NEW i \in 1..m PROVE i \in 1..Len(u) /\ u[i] = s[i]
    BY <1>1
  <2>2. ASSUME NEW i \in 1..n PROVE i + m \in 1..Len(u) /\ u[i + m] = t[i]
    BY <1>1
  <2>3. ASSUME NEW i \in 1..Len(u)
        PROVE  (i \in 1..m /\ u[i] = s[i]) \/ (i - m \in 1..n /\ u[i] = t[i - m])
    BY <1>1
  <2>. QED BY <2>1, <2>2, <2>3 DEF Has, m, n
<1>. QED BY <1>1, <1>2, <1>3, <1>4 DEF IsRun, u

LEMMA RunJoin ==
  ASSUME NEW s, NEW t, IsRun(s), IsRun(t),
         \A x, y : Has(s, x) /\ Has(t, y) => x \in Before(y)
  PROVE  /\ IsRun(s \o t)
         /\ \A call : Has(s \o t, call) <=> Has(s, call) \/ Has(t, call)
<1>1. \A i \in 1..Len(s), j \in 1..Len(t) : s[i] \in Before(t[j])
  BY DEF Has
<1>. QED BY <1>1, RunConcat

LEMMA NoCalls == IsRun(<<>>) /\ \A call : ~Has(<<>>, call)
BY DEF IsRun, Has

LEMMA OneCall ==
  ASSUME NEW a \in AllCalls \ Abandons
  PROVE  IsRun(<<a>>) /\ \A call : Has(<<a>>, call) <=> call = a
<1>1. \A call : Has(<<a>>, call) <=> call = a
  BY DEF Has
<1>2. <<a>> \in Seq(AllCalls)
  OBVIOUS
<1>. QED BY <1>1, <1>2 DEF IsRun

LEMMA TwoCalls ==
  ASSUME NEW a \in AllCalls, NEW b \in AllCalls \ Abandons, a \in Before(b),
         a \in Abandons => b \in Resets
  PROVE  IsRun(<<a, b>>) /\ \A call : Has(<<a, b>>, call) <=> call \in {a, b}
<1> DEFINE s == <<a, b>>
<1>1. s \in Seq(AllCalls) /\ Len(s) = 2 /\ s[1] = a /\ s[2] = b
  OBVIOUS
<1> HIDE DEF s
<1>2. 1..Len(s) = {1, 2}
  BY <1>1
<1>3. \A call : Has(s, call) <=> call \in {a, b}
  BY <1>1, <1>2 DEF Has
<1>4. IsRun(s)
  BY <1>1, <1>2 DEF IsRun
<1>. QED BY <1>3, <1>4 DEF s

LEMMA ThreeCalls ==
  ASSUME NEW a \in AllCalls, NEW b \in AllCalls, NEW c \in AllCalls \ Abandons,
         a \in Before(b), a \in Before(c), b \in Before(c),
         a \in Abandons => b \in Resets, b \in Abandons => c \in Resets
  PROVE  IsRun(<<a, b, c>>) /\ \A call : Has(<<a, b, c>>, call) <=> call \in {a, b, c}
<1> DEFINE s == <<a, b, c>>
<1>1. s \in Seq(AllCalls) /\ Len(s) = 3 /\ s[1] = a /\ s[2] = b /\ s[3] = c
  OBVIOUS
<1> HIDE DEF s
<1>2. 1..Len(s) = {1, 2, 3}
  BY <1>1
<1>3. \A call : Has(s, call) <=> call \in {a, b, c}
  BY <1>1, <1>2 DEF Has
<1>4. IsRun(s)
  BY <1>1, <1>2 DEF IsRun
<1>. QED BY <1>3, <1>4 DEF s

LEMMA FourCalls ==
  ASSUME NEW a \in AllCalls, NEW b \in AllCalls, NEW c \in AllCalls,
         NEW d \in AllCalls \ Abandons,
         a \in Before(b), a \in Before(c), b \in Before(c),
         a \in Before(d), b \in Before(d), c \in Before(d),
         a \notin Abandons, b \notin Abandons, c \notin Abandons
  PROVE  IsRun(<<a, b, c, d>>) /\ \A call : Has(<<a, b, c, d>>, call) <=> call \in {a, b, c, d}
<1> DEFINE s == <<a, b, c, d>>
<1>1. s \in Seq(AllCalls) /\ Len(s) = 4 /\ s[1] = a /\ s[2] = b /\ s[3] = c /\ s[4] = d
  OBVIOUS
<1> HIDE DEF s
<1>2. 1..Len(s) = {1, 2, 3, 4}
  BY <1>1
<1>3. \A call : Has(s, call) <=> call \in {a, b, c, d}
  BY <1>1, <1>2 DEF Has
<1>4. IsRun(s)
  BY <1>1, <1>2 DEF IsRun
<1>. QED BY <1>3, <1>4 DEF s

MenuCalls == {"menu_find", "say", "menu_write"}

LEMMA BeforeIs ==
  /\ \A call \in AllCalls \ (Special \cup {"abandon_all"}) : Before(call) = Early
  /\ Early = {"say", "menu_find", "menu_write", "set_menu", "set_reports", "set_consult",
              "set_contact", "set_user", "reset", "forget", "set_new", "set_name", "set_team",
              "set_team_size", "set_sales_model", "abandon_mine", "abandon_all", "save", "finish"}
BY DEF Before, AllCalls, Special, Early, LastCalls

LEMMA MenuIs == IsRun(Menu) /\ \A call : Has(Menu, call) <=> call \in MenuCalls
<1>1. /\ "menu_find" \in AllCalls \ Abandons /\ "say" \in AllCalls \ Abandons
      /\ "menu_write" \in AllCalls \ Abandons
      /\ "menu_find" \in Before("say") /\ "menu_find" \in Before("menu_write")
      /\ "say" \in Before("menu_write")
  BY BeforeIs DEF AllCalls, Abandons, Special
<1>. QED BY <1>1, ThreeCalls DEF Menu, MenuCalls

\* The menu may follow anything that may be followed.
LEMMA MenuAfter ==
  ASSUME NEW s, IsRun(s), \A call : Has(s, call) => call \in Early
  PROVE  /\ IsRun(s \o Menu)
         /\ \A call : Has(s \o Menu, call) <=> Has(s, call) \/ call \in MenuCalls
<1>1. IsRun(Menu) /\ \A call : Has(Menu, call) <=> call \in MenuCalls
  BY MenuIs
<1>2. \A call \in MenuCalls : Before(call) = Early
  BY DEF MenuCalls, Before
<1>. QED BY <1>1, <1>2, RunJoin

LEMMA CancelIs ==
  /\ IsRun(Cancel)
  /\ \A call : Has(Cancel, call) <=> call \in MenuCalls \cup {"abandon_mine", "reset"}
<1>1. /\ IsRun(<<"abandon_mine", "reset", "say">>)
      /\ \A call : Has(<<"abandon_mine", "reset", "say">>, call) <=>
                     call \in {"abandon_mine", "reset", "say"}
  <2>1. /\ "abandon_mine" \in AllCalls /\ "reset" \in AllCalls \ Abandons /\ "say" \in AllCalls \ Abandons
        /\ "abandon_mine" \in Before("reset") /\ "abandon_mine" \in Before("say")
        /\ "reset" \in Before("say") /\ "reset" \in Resets
    BY BeforeIs DEF AllCalls, Abandons, Special, Resets
  <2>. QED BY <2>1, ThreeCalls
<1>. QED BY <1>1, MenuAfter DEF Cancel, MenuCalls, Early, AllCalls, LastCalls

LEMMA CompleteIs ==
  /\ IsRun(Complete)
  /\ \A call : Has(Complete, call) <=> call \in MenuCalls \cup {"finish", "set_menu"}
<1>1. /\ IsRun(<<"say", "finish", "say", "set_menu">>)
      /\ \A call : Has(<<"say", "finish", "say", "set_menu">>, call) <=>
                     call \in {"say", "finish", "set_menu"}
  <2>1. /\ "say" \in AllCalls \ Abandons /\ "finish" \in AllCalls \ Abandons
        /\ "set_menu" \in AllCalls \ Abandons
        /\ "say" \in Before("finish") /\ "say" \in Before("say") /\ "say" \in Before("set_menu")
        /\ "finish" \in Before("say") /\ "finish" \in Before("set_menu")
    BY BeforeIs DEF AllCalls, Abandons, Special
  <2>. QED BY <2>1, FourCalls
<1>. QED BY <1>1, MenuAfter DEF Complete, MenuCalls, Early, AllCalls, LastCalls

\* Something is said first.
LEMMA SayFirst ==
  ASSUME NEW t, IsRun(t), ~Has(t, "forget")
  PROVE  /\ IsRun(<<"say">> \o t)
         /\ \A call : Has(<<"say">> \o t, call) <=> call = "say" \/ Has(t, call)
<1>1. IsRun(<<"say">>) /\ \A call : Has(<<"say">>, call) <=> call = "say"
  BY OneCall DEF AllCalls, Abandons
<1>2. \A call : call # "forget" => "say" \in Before(call)
  BY DEF Before, Early, AllCalls, LastCalls
<1>. QED BY <1>1, <1>2, RunJoin

-----------------------------------------------------------------------------
(* The calls an update begins with                                         *)

TestStates == {"awaiting_business_name", "awaiting_team_size", "awaiting_sales_model"}
ChatStates ==
  ActiveTestStates \cup {"idle", "at_main_menu", "awaiting_contact",
                         "awaiting_consultation_message", "selecting_report"}
Chats ==
  [state : ChatStates, user : BOOLEAN, test : Nat, pos : 0..End, form : SUBSET {"name", "team"}]

\* A run that suits the row its handler has read.
Suits(s, c) ==
  /\ Has(s, "set_team_size") => c.state = "awaiting_business_name"
  /\ Has(s, "set_sales_model") => c.state = "awaiting_team_size"
  /\ Has(s, "start_test") => c.state = "awaiting_sales_model"
  /\ Has(s, "save") \/ Has(s, "advance") => c.state = "answering_questions" /\ c.pos \in Questions
  /\ Has(s, "advance") => Has(s, "save")
  /\ ~Has(s, "resume_write")
  /\ Has(s, "set_new") \/ Has(s, "forget") => Has(s, "abandon_all") \/ ~c.user

\* A run of other calls suits every row.
LEMMA PlainSuits ==
  ASSUME NEW s, NEW c, \A call \in Special : ~Has(s, call)
  PROVE  Suits(s, c)
BY DEF Suits, Special

LEMMA StartIs == ASSUME NEW c \in Chats PROVE IsRun(StartCalls(c)) /\ Suits(StartCalls(c), c)
<1>1. CASE c.state \in ActiveTestStates
  BY <1>1, NoCalls, PlainSuits DEF StartCalls
<1>2. CASE c.state \notin ActiveTestStates /\ c.user
  <2>1. IsRun(<<"reset">>) /\ \A call : Has(<<"reset">>, call) <=> call = "reset"
    BY OneCall DEF AllCalls, Abandons
  <2>2. StartCalls(c) = <<"reset">> \o Menu
    BY <1>2 DEF StartCalls
  <2>3. /\ IsRun(<<"reset">> \o Menu)
        /\ \A call : Has(<<"reset">> \o Menu, call) <=> call = "reset" \/ call \in MenuCalls
    BY <2>1, MenuAfter DEF Early, AllCalls, LastCalls
  <2>. QED BY <2>2, <2>3, PlainSuits DEF Special, MenuCalls
<1>3. CASE c.state \notin ActiveTestStates /\ ~c.user
  <2>1. StartCalls(c) = <<"forget", "set_contact">>
    BY <1>3 DEF StartCalls
  <2>2. /\ IsRun(<<"forget", "set_contact">>)
        /\ \A call : Has(<<"forget", "set_contact">>, call) <=> call \in {"forget", "set_contact"}
    BY TwoCalls DEF AllCalls, Abandons, Before, Early, LastCalls
  <2>. QED BY <1>3, <2>1, <2>2 DEF Suits
<1>. QED BY <1>1, <1>2, <1>3

LEMMA AbandonAllIs ==
  ASSUME NEW c \in Chats, NEW s, IsRun(s), s # <<>>, Head(s) \in Resets,
         \A call : Has(s, call) => "abandon_all" \in Before(call)
  PROVE  /\ IsRun(AbandonAllIfUser(c) \o s)
         /\ \A call : Has(AbandonAllIfUser(c) \o s, call) <=>
                        (c.user /\ call = "abandon_all") \/ Has(s, call)
<1>1. CASE ~c.user
  <2>1. AbandonAllIfUser(c) \o s = s
    BY <1>1 DEF AbandonAllIfUser, IsRun
  <2>. QED BY <1>1, <2>1
<1>2. CASE c.user
  <2> DEFINE u == <<"abandon_all">> \o s
  <2>1. AbandonAllIfUser(c) \o s = u
    BY <1>2 DEF AbandonAllIfUser
  <2>2. /\ u \in Seq(AllCalls) /\ Len(u) = Len(s) + 1 /\ Len(s) \in Nat \ {0}
        /\ u[1] = "abandon_all" /\ \A i \in 2..Len(u) : u[i] = s[i - 1]
        /\ Head(s) = s[1]
    <3>1. s \in Seq(AllCalls) /\ "abandon_all" \in AllCalls
      BY DEF IsRun, AllCalls
    <3>. QED BY <3>1
  <2> HIDE DEF u
  <2>3. \A j \in 1..Len(u) : \A i \in 1..(j - 1) : u[i] \in Before(u[j])
    <3>1. SUFFICES ASSUME NEW j \in 1..Len(u), NEW i \in 1..(j - 1)
                   PROVE  u[i] \in Before(u[j])
      OBVIOUS
    <3>2. j \in 2..Len(u) /\ j - 1 \in 1..Len(s) /\ u[j] = s[j - 1]
      BY <2>2, <3>1
    <3>3. CASE i = 1
      BY <2>2, <3>2, <3>3 DEF Has
    <3>4. CASE i # 1
      <4>1. i \in 2..Len(u) /\ i - 1 \in 1..((j - 1) - 1)
        BY <2>2, <3>1, <3>4
      <4>2. s[i - 1] \in Before(s[j - 1])
        BY <3>2, <4>1 DEF IsRun
      <4>. QED BY <2>2, <3>2, <4>1, <4>2
    <3>. QED BY <3>3, <3>4
  <2>4. \A i \in 1..Len(u) : u[i] \in Abandons => i < Len(u) /\ u[i + 1] \in Resets
    <3>1. SUFFICES ASSUME NEW i \in 1..Len(u), u[i] \in Abandons
                   PROVE  i < Len(u) /\ u[i + 1] \in Resets
      OBVIOUS
    <3>2. CASE i = 1
      BY <2>2, <3>2
    <3>3. CASE i # 1
      <4>1. i \in 2..Len(u) /\ i - 1 \in 1..Len(s) /\ s[i - 1] \in Abandons
        BY <2>2, <3>1, <3>3
      <4>2. i - 1 < Len(s) /\ s[(i - 1) + 1] \in Resets
        BY <4>1 DEF IsRun
      <4>3. i + 1 \in 2..Len(u) /\ (i + 1) - 1 = (i - 1) + 1
        BY <2>2, <4>1, <4>2
      <4>. QED BY <2>2, <4>2, <4>3
    <3>. QED BY <3>2, <3>3
  <2>5. \A call : Has(u, call) <=> call = "abandon_all" \/ Has(s, call)
    <3>1. ASSUME NEW i \in 1..Len(s) PROVE i + 1 \in 1..Len(u) /\ u[i + 1] = s[i]
      BY <2>2
    <3>2. 1 \in 1..Len(u)
      BY <2>2
    <3>3. ASSUME NEW i \in 1..Len(u), i # 1 PROVE i - 1 \in 1..Len(s) /\ u[i] = s[i - 1]
      BY <2>2, <3>3
    <3>. QED BY <2>2, <3>1, <3>2, <3>3 DEF Has
  <2>6. IsRun(u)
    BY <2>2, <2>3, <2>4 DEF IsRun
  <2>. QED BY <1>2, <2>1, <2>5, <2>6
<1>. QED BY <1>1, <1>2 DEF Chats

LEMMA BeforeSpecial ==
  /\ Before("set_team_size") = {"say", "set_name"} /\ Before("set_sales_model") = {"say", "set_team"}
  /\ Before("advance") = {"say", "save"} /\ Before("set_new") = {"say", "abandon_all"}
  /\ Before("forget") = {"abandon_all"} /\ Before("start_test") = {"say"}
  /\ Before("resume_write") = {"say"} /\ Before("save") = {"say"} /\ Before("abandon_all") = {"say"}
BY DEF Before

LEMMA IfUserIs ==
  ASSUME NEW c, NEW s, IsRun(s)
  PROVE  IsRun(IfUser(c, s)) /\ \A call : Has(IfUser(c, s), call) => Has(s, call)
BY NoCalls DEF IfUser

LEMMA TextIs == ASSUME NEW c \in Chats PROVE IsRun(TextCalls(c)) /\ Suits(TextCalls(c), c)
<1>1. CASE c.state = "awaiting_consultation_message"
  <2> DEFINE s == <<"say", "set_menu">> \o Menu
  <2>1. TextCalls(c) = IfUser(c, s)
    BY <1>1 DEF TextCalls
  <2>2. /\ "say" \in AllCalls /\ "set_menu" \in AllCalls \ Abandons /\ "say" \in Before("set_menu")
        /\ "say" \notin Abandons
    BY BeforeIs DEF AllCalls, Abandons, Special
  <2>3. IsRun(<<"say", "set_menu">>) /\ \A call : Has(<<"say", "set_menu">>, call) <=> call \in {"say", "set_menu"}
    BY <2>2, TwoCalls
  <2>4. IsRun(s) /\ \A call : Has(s, call) <=> call \in {"say", "set_menu"} \/ call \in MenuCalls
    BY <2>3, MenuAfter DEF Early, AllCalls, LastCalls
  <2> HIDE DEF s
  <2>5. \A call \in Special : ~Has(IfUser(c, s), call)
    BY <2>4, IfUserIs DEF Special, MenuCalls
  <2>. QED BY <2>1, <2>4, <2>5, IfUserIs, PlainSuits
<1>2. CASE c.state = "awaiting_business_name"
  <2>1. TextCalls(c) = <<"set_name", "say", "set_team_size">>
    BY <1>2 DEF TextCalls
  <2>2. /\ "set_name" \in AllCalls \ Abandons /\ "say" \in AllCalls \ Abandons
        /\ "set_team_size" \in AllCalls \ Abandons /\ "set_name" \in Before("say")
        /\ "set_name" \in Before("set_team_size") /\ "say" \in Before("set_team_size")
    BY BeforeIs, BeforeSpecial DEF AllCalls, Abandons, Special
  <2>3. /\ IsRun(<<"set_name", "say", "set_team_size">>)
        /\ \A call : Has(<<"set_name", "say", "set_team_size">>, call) <=>
                       call \in {"set_name", "say", "set_team_size"}
    BY <2>2, ThreeCalls
  <2>. QED BY <1>2, <2>1, <2>3 DEF Suits
<1>3. CASE c.state \in {"idle", "at_main_menu"} /\ c.user
  <2>1. TextCalls(c) = Menu
    BY <1>3 DEF TextCalls
  <2>. QED BY <2>1, MenuIs, PlainSuits DEF Special, MenuCalls
<1>4. CASE c.state \in {"idle", "at_main_menu"} /\ ~c.user
  <2>1. TextCalls(c) = StartCalls(c)
    BY <1>4 DEF TextCalls
  <2>. QED BY <2>1, StartIs
<1>5. CASE c.state \notin {"awaiting_consultation_message", "awaiting_business_name", "idle",
                           "at_main_menu"}
  <2>1. TextCalls(c) = <<>>
    BY <1>5 DEF TextCalls
  <2>. QED BY <2>1, NoCalls, PlainSuits
<1>. QED BY <1>1, <1>2, <1>3, <1>4, <1>5

LEMMA NewIs ==
  ASSUME NEW c \in Chats
  PROVE  /\ IsRun(NewCalls(c)) /\ Suits(NewCalls(c), c)
         /\ c.user => Has(NewCalls(c), "abandon_all")
<1> DEFINE s == <<"set_new">>
           t == AbandonAllIfUser(c) \o s
<1>1. IsRun(s) /\ \A call : Has(s, call) <=> call = "set_new"
  BY OneCall DEF AllCalls, Abandons
<1>2. s # <<>> /\ Head(s) \in Resets
  BY DEF Resets
<1>3. NewCalls(c) = <<"say">> \o t
  <2>1. /\ <<"say">> \in Seq(AllCalls) /\ s \in Seq(AllCalls)
        /\ AbandonAllIfUser(c) \in Seq(AllCalls)
    <3>1. "say" \in AllCalls /\ "set_new" \in AllCalls /\ "abandon_all" \in AllCalls
      BY DEF AllCalls
    <3>2. \A a \in AllCalls : <<a>> \in Seq(AllCalls)
      OBVIOUS
    <3>3. <<>> \in Seq(AllCalls)
      OBVIOUS
    <3>4. AbandonAllIfUser(c) \in {<<"abandon_all">>, <<>>}
      BY DEF AbandonAllIfUser
    <3>. QED BY <3>1, <3>2, <3>3, <3>4
  <2>. QED BY <2>1, ConcatAssociative DEF NewCalls
<1> HIDE DEF s
<1>4. IsRun(t) /\ \A call : Has(t, call) <=> (c.user /\ call = "abandon_all") \/ Has(s, call)
  BY <1>1, <1>2, AbandonAllIs, BeforeSpecial
<1> HIDE DEF t
<1>5. /\ IsRun(NewCalls(c))
      /\ \A call : Has(NewCalls(c), call) <=> call = "say" \/ Has(t, call)
  <2>1. ~Has(t, "forget")
    BY <1>1, <1>4
  <2>. QED BY <1>3, <1>4, <2>1, SayFirst
<1>. QED BY <1>1, <1>4, <1>5 DEF Suits

\* Every update makes a run that suits the row; those that start afresh abandon.
LEMMA CallsAre ==
  ASSUME NEW u \in Updates, NEW c \in Chats
  PROVE  /\ IsRun(Calls(u, c)) /\ Suits(Calls(u, c), c)
         /\ u \in {"new", "fresh", "reset"} /\ c.user => Has(Calls(u, c), "abandon_all")
<1>1. CASE u = "start"
  BY <1>1, StartIs DEF Calls
<1>2. CASE u = "reset"
  <2> DEFINE s == <<"forget", "set_contact">>
  <2>1. Calls(u, c) = AbandonAllIfUser(c) \o s
    BY <1>2 DEF Calls
  <2>2. /\ "forget" \in AllCalls /\ "set_contact" \in AllCalls \ Abandons
        /\ "forget" \in Before("set_contact") /\ "forget" \notin Abandons
        /\ "abandon_all" \in Before("set_contact") /\ "abandon_all" \in Before("forget")
    BY BeforeIs, BeforeSpecial DEF AllCalls, Abandons, Special
  <2>3. IsRun(s) /\ \A call : Has(s, call) <=> call \in {"forget", "set_contact"}
    BY <2>2, TwoCalls
  <2>4. s # <<>> /\ Head(s) \in Resets
    BY DEF Resets
  <2> HIDE DEF s
  <2>5. /\ IsRun(AbandonAllIfUser(c) \o s)
        /\ \A call : Has(AbandonAllIfUser(c) \o s, call) <=>
                       (c.user /\ call = "abandon_all") \/ Has(s, call)
    BY <2>2, <2>3, <2>4, AbandonAllIs
  <2>. QED BY <2>1, <2>3, <2>5 DEF Suits
<1>3. CASE u = "stop"
  <2> DEFINE s == IF c.state \in CancellableStates THEN Cancel ELSE Menu
  <2>1. Calls(u, c) = IfUser(c, s)
    BY <1>3 DEF Calls, StopCalls
  <2>2. IsRun(s) /\ \A call : Has(s, call) => call \in MenuCalls \cup {"abandon_mine", "reset"}
    BY CancelIs, MenuIs
  <2> HIDE DEF s
  <2>3. \A call \in Special : ~Has(IfUser(c, s), call)
    BY <2>2, IfUserIs DEF Special, MenuCalls
  <2>. QED BY <1>3, <2>1, <2>2, <2>3, IfUserIs, PlainSuits
<1>4. CASE u = "contact"
  <2> DEFINE s == <<"set_user", "say">> \o Menu
  <2>1. Calls(u, c) = <<>> \/ Calls(u, c) = s
    BY <1>4 DEF Calls, ContactCalls
  <2>2. /\ "set_user" \in AllCalls /\ "say" \in AllCalls \ Abandons /\ "set_user" \in Before("say")
        /\ "set_user" \notin Abandons
    BY BeforeIs DEF AllCalls, Abandons, Special
  <2>3. IsRun(<<"set_user", "say">>) /\ \A call : Has(<<"set_user", "say">>, call) <=> call \in {"set_user", "say"}
    BY <2>2, TwoCalls
  <2>4. IsRun(s) /\ \A call : Has(s, call) <=> call \in {"set_user", "say"} \/ call \in MenuCalls
    BY <2>3, MenuAfter DEF Early, AllCalls, LastCalls
  <2> HIDE DEF s
  <2>. QED BY <1>4, <2>1, <2>4, NoCalls, PlainSuits DEF Special, MenuCalls
<1>5. CASE u = "text"
  BY <1>5, TextIs DEF Calls
<1>6. CASE u = "new"
  BY <1>6, NewIs DEF Calls
<1>7. CASE u = "continue"
  <2>1. Calls(u, c) = <<"say">> \o IfUser(c, <<"resume_find">>)
    BY <1>7 DEF Calls
  <2>2. IsRun(<<"resume_find">>) /\ \A call : Has(<<"resume_find">>, call) <=> call = "resume_find"
    BY OneCall DEF AllCalls, Abandons
  <2>3. /\ IsRun(IfUser(c, <<"resume_find">>))
        /\ \A call : Has(IfUser(c, <<"resume_find">>), call) => call = "resume_find"
    BY <2>2, IfUserIs
  <2>4. /\ IsRun(Calls(u, c))
        /\ \A call : Has(Calls(u, c), call) => call \in {"say", "resume_find"}
    BY <2>1, <2>3, SayFirst
  <2>. QED BY <1>7, <2>4, PlainSuits DEF Special
<1>8. CASE u = "fresh"
  <2> DEFINE s == <<"abandon_all", "reset", "say">> \o Menu
  <2>1. Calls(u, c) = <<"say">> \o IfUser(c, s)
    BY <1>8 DEF Calls
  <2>2. /\ "abandon_all" \in AllCalls /\ "reset" \in AllCalls \ Abandons /\ "say" \in AllCalls \ Abandons
        /\ "abandon_all" \in Before("reset") /\ "abandon_all" \in Before("say")
        /\ "reset" \in Before("say") /\ "reset" \in Resets
    BY BeforeIs DEF AllCalls, Abandons, Special, Resets
  <2>3. /\ IsRun(<<"abandon_all", "reset", "say">>)
        /\ \A call : Has(<<"abandon_all", "reset", "say">>, call) <=> call \in {"abandon_all", "reset", "say"}
    BY <2>2, ThreeCalls
  <2>4. IsRun(s) /\ \A call : Has(s, call) <=> call \in {"abandon_all", "reset", "say"} \/ call \in MenuCalls
    BY <2>3, MenuAfter DEF Early, AllCalls, LastCalls
  <2> HIDE DEF s
  <2>5. IsRun(IfUser(c, s)) /\ \A call : Has(IfUser(c, s), call) => Has(s, call)
    BY <2>4, IfUserIs
  <2>6. /\ IsRun(Calls(u, c))
        /\ \A call : Has(Calls(u, c), call) <=> call = "say" \/ Has(IfUser(c, s), call)
    <3>1. ~Has(IfUser(c, s), "forget")
      BY <2>4, <2>5 DEF MenuCalls
    <3>. QED BY <2>1, <2>5, <3>1, SayFirst
  <2>7. \A call \in Special : ~Has(Calls(u, c), call)
    BY <2>4, <2>5, <2>6 DEF Special, MenuCalls
  <2>8. c.user => Has(Calls(u, c), "abandon_all")
    BY <2>4, <2>6 DEF IfUser
  <2>. QED BY <2>6, <2>7, <2>8, PlainSuits
<1>9. CASE u = "cancel"
  <2>1. Calls(u, c) = <<"say">> \o IfUser(c, Cancel)
    BY <1>9 DEF Calls
  <2>2. IsRun(IfUser(c, Cancel)) /\ \A call : Has(IfUser(c, Cancel), call) => Has(Cancel, call)
    BY CancelIs, IfUserIs
  <2>3. /\ IsRun(Calls(u, c))
        /\ \A call : Has(Calls(u, c), call) => call \in MenuCalls \cup {"abandon_mine", "reset"}
    <3>1. /\ \A call : Has(IfUser(c, Cancel), call) => call \in MenuCalls \cup {"abandon_mine", "reset"}
          /\ ~Has(IfUser(c, Cancel), "forget") /\ "say" \in MenuCalls
      BY <2>2, CancelIs DEF MenuCalls
    <3>. QED BY <2>1, <2>2, <3>1, SayFirst
  <2>. QED BY <1>9, <2>3, PlainSuits DEF Special, MenuCalls
<1>10. CASE u = "reports"
  <2>1. Calls(u, c) = <<"say">> \o IfUser(c, <<"show_reports">>)
    BY <1>10 DEF Calls
  <2>2. IsRun(<<"show_reports">>) /\ \A call : Has(<<"show_reports">>, call) <=> call = "show_reports"
    BY OneCall DEF AllCalls, Abandons
  <2>3. /\ IsRun(IfUser(c, <<"show_reports">>))
        /\ \A call : Has(IfUser(c, <<"show_reports">>), call) => call = "show_reports"
    BY <2>2, IfUserIs
  <2>4. /\ IsRun(Calls(u, c))
        /\ \A call : Has(Calls(u, c), call) => call \in {"say", "show_reports"}
    BY <2>1, <2>3, SayFirst
  <2>. QED BY <1>10, <2>4, PlainSuits DEF Special
<1>11. CASE u = "consult"
  <2>1. Calls(u, c) = <<"say">> \o IfUser(c, <<"say", "set_consult">>)
    BY <1>11 DEF Calls
  <2>2. /\ "say" \in AllCalls /\ "set_consult" \in AllCalls \ Abandons
        /\ "say" \in Before("set_consult") /\ "say" \notin Abandons
    BY BeforeIs DEF AllCalls, Abandons, Special
  <2>3. IsRun(<<"say", "set_consult">>) /\ \A call : Has(<<"say", "set_consult">>, call) <=> call \in {"say", "set_consult"}
    BY <2>2, TwoCalls
  <2>4. /\ IsRun(IfUser(c, <<"say", "set_consult">>))
        /\ \A call : Has(IfUser(c, <<"say", "set_consult">>), call) => call \in {"say", "set_consult"}
    BY <2>3, IfUserIs
  <2>5. /\ IsRun(Calls(u, c))
        /\ \A call : Has(Calls(u, c), call) => call \in {"say", "set_consult"}
    BY <2>1, <2>4, SayFirst
  <2>. QED BY <1>11, <2>5, PlainSuits DEF Special
<1>12. CASE u \in {"back", "report"}
  <2> DEFINE s == <<"say", "set_menu">>
  <2>1. Calls(u, c) = s \o Menu \/ Calls(u, c) = s
    BY <1>12 DEF Calls
  <2>2. /\ "say" \in AllCalls /\ "set_menu" \in AllCalls \ Abandons /\ "say" \in Before("set_menu")
        /\ "say" \notin Abandons
    BY BeforeIs DEF AllCalls, Abandons, Special
  <2>3. IsRun(s) /\ \A call : Has(s, call) <=> call \in {"say", "set_menu"}
    BY <2>2, TwoCalls
  <2> HIDE DEF s
  <2>4. IsRun(s \o Menu) /\ \A call : Has(s \o Menu, call) <=> Has(s, call) \/ call \in MenuCalls
    BY <2>3, MenuAfter DEF Early, AllCalls, LastCalls
  <2>. QED BY <1>12, <2>1, <2>3, <2>4, PlainSuits DEF Special, MenuCalls
<1>13. CASE u = "team"
  <2> DEFINE s == <<"say", "set_team", "say", "set_sales_model">>
  <2>1. (Calls(u, c) = s /\ c.state = "awaiting_team_size") \/ Calls(u, c) = <<>>
    BY <1>13 DEF Calls
  <2>2. /\ "say" \in AllCalls /\ "set_team" \in AllCalls /\ "set_sales_model" \in AllCalls \ Abandons
        /\ "say" \in Before("set_team") /\ "say" \in Before("say") /\ "set_team" \in Before("say")
        /\ "say" \in Before("set_sales_model") /\ "set_team" \in Before("set_sales_model")
        /\ "say" \notin Abandons /\ "set_team" \notin Abandons
    BY BeforeIs, BeforeSpecial DEF AllCalls, Abandons, Special
  <2>3. IsRun(s) /\ \A call : Has(s, call) <=> call \in {"say", "set_team", "set_sales_model"}
    BY <2>2, FourCalls
  <2> HIDE DEF s
  <2>4. CASE Calls(u, c) = s /\ c.state = "awaiting_team_size"
    BY <1>13, <2>3, <2>4 DEF Suits
  <2>5. CASE Calls(u, c) = <<>>
    BY <1>13, <2>5, NoCalls, PlainSuits
  <2>. QED BY <2>1, <2>4, <2>5
<1>14. CASE u = "model"
  <2> DEFINE s == <<"say", "start_test">>
  <2>1. (Calls(u, c) = s /\ c.state = "awaiting_sales_model") \/ Calls(u, c) = <<>>
    BY <1>14 DEF Calls
  <2>2. /\ "say" \in AllCalls /\ "start_test" \in AllCalls \ Abandons /\ "say" \in Before("start_test")
        /\ "say" \notin Abandons
    BY BeforeSpecial DEF AllCalls, Abandons
  <2>3. IsRun(s) /\ \A call : Has(s, call) <=> call \in {"say", "start_test"}
    BY <2>2, TwoCalls
  <2> HIDE DEF s
  <2>4. CASE Calls(u, c) = s /\ c.state = "awaiting_sales_model"
    BY <1>14, <2>3, <2>4 DEF Suits
  <2>5. CASE Calls(u, c) = <<>>
    BY <1>14, <2>5, NoCalls, PlainSuits
  <2>. QED BY <2>1, <2>4, <2>5
<1>. QED BY <1>1, <1>2, <1>3, <1>4, <1>5, <1>6, <1>7, <1>8, <1>9, <1>10, <1>11, <1>12, <1>13,
            <1>14 DEF Updates

LEMMA OptionIs ==
  ASSUME NEW q \in Questions, NEW c \in Chats
  PROVE  IsRun(OptionCalls(q, c)) /\ Suits(OptionCalls(q, c), c)
<1> DEFINE s == <<"say", "save", "advance">>
<1>1. \/ OptionCalls(q, c) = <<>>
      \/ OptionCalls(q, c) = <<"say">> \o Complete
      \/ OptionCalls(q, c) = s /\ c.state = "answering_questions" /\ c.pos = q
  BY DEF OptionCalls
<1>2. CASE OptionCalls(q, c) = <<>>
  BY <1>2, NoCalls, PlainSuits
<1>3. CASE OptionCalls(q, c) = <<"say">> \o Complete
  <2>1. /\ IsRun(OptionCalls(q, c))
        /\ \A call : Has(OptionCalls(q, c), call) => call \in MenuCalls \cup {"finish", "set_menu"}
    <3>1. ~Has(Complete, "forget") /\ "say" \in MenuCalls
      BY CompleteIs DEF MenuCalls
    <3>. QED BY <1>3, <3>1, CompleteIs, SayFirst
  <2>. QED BY <2>1, PlainSuits DEF Special, MenuCalls
<1>4. CASE OptionCalls(q, c) = s /\ c.state = "answering_questions" /\ c.pos = q
  <2>1. /\ "say" \in AllCalls /\ "save" \in AllCalls /\ "advance" \in AllCalls \ Abandons
        /\ "say" \in Before("save") /\ "say" \in Before("advance") /\ "save" \in Before("advance")
        /\ "say" \notin Abandons /\ "save" \notin Abandons
    BY BeforeSpecial DEF AllCalls, Abandons
  <2>2. IsRun(s) /\ \A call : Has(s, call) <=> call \in {"say", "save", "advance"}
    BY <2>1, ThreeCalls
  <2> HIDE DEF s
  <2>. QED BY <1>4, <2>2 DEF Suits
<1>. QED BY <1>1, <1>2, <1>3, <1>4

LEMMA AskIs ==
  ASSUME NEW c
  PROVE  IsRun(Ask(c)) /\ \A call \in Special : ~Has(Ask(c), call)
BY NoCalls, CompleteIs DEF Ask, Special, MenuCalls

-----------------------------------------------------------------------------
(* The invariant                                                           *)

TestRows == [status : {"open", "abandoned", "completed"}, answered : SUBSET Questions]
JobRecords ==
  [todo : Seq(AllCalls), seen : Chats, found : [test : Nat, pos : 0..End]]

GoodJob(r) ==
  /\ r \in JobRecords /\ IsRun(r.todo)
  /\ r.todo = <<>> => r = NoJob
  /\ Has(r.todo, "save") \/ Has(r.todo, "advance") => r.seen.pos \in Questions

BotTypeOK ==
  /\ chat \in Chats
  /\ tests \in Seq(TestRows)
  /\ job \in [Handlers -> JobRecords]
  /\ \A w \in Handlers : GoodJob(job[w])
  /\ sweeper \subseteq Handlers
  /\ crossed \in BOOLEAN
  /\ sendFaults \in Nat

Active(w) == job[w] # NoJob
Alone(w) == \A v \in Handlers \ {w} : job[v] = NoJob
Resetting(w) == Active(w) /\ Head(job[w].todo) \in Resets
OpenCount == Cardinality(OpenTests)

\* Test t can be finished from position pos on.
Backed(t, pos) ==
  /\ t \in DOMAIN tests
  /\ tests[t].status # "abandoned"
  /\ \A q \in Questions : q < pos => q \in tests[t].answered

\* What a handler has read is the chat, and the calls it has still to make suit it.
Fits(w) ==
  /\ Reads(job[w].todo) => job[w].seen = chat
  /\ Has(job[w].todo, "set_team_size") => chat.state = "awaiting_business_name"
  /\ Has(job[w].todo, "set_sales_model") => chat.state = "awaiting_team_size"
  /\ Has(job[w].todo, "start_test") => chat.state = "awaiting_sales_model"
  /\ Has(job[w].todo, "save") \/ Has(job[w].todo, "advance") => chat.state = "answering_questions"
  /\ Has(job[w].todo, "advance") /\ ~Has(job[w].todo, "save") =>
       chat.pos \in tests[chat.test].answered
  /\ Has(job[w].todo, "resume_write") =>
       job[w].found.test \in OpenTests /\ Backed(job[w].found.test, job[w].found.pos)
  /\ Has(job[w].todo, "set_new") \/ Has(job[w].todo, "forget") =>
       Has(job[w].todo, "abandon_all") \/ OpenCount <= sendFaults

\* The test of the chat is abandoned only on the way to a reset.
PositionBacked ==
  chat.state = "answering_questions" /\ (\A w \in Handlers : ~Resetting(w)) =>
    Backed(chat.test, chat.pos)

\* One test may be open, but not before it is started, nor without a user.
TestsBounded ==
  /\ OpenCount <= 1 + sendFaults
  /\ ~chat.user => OpenCount <= sendFaults
  /\ chat.state \in TestStates /\ (\A w \in Handlers : ~Has(job[w].todo, "resume_write")) =>
       OpenCount <= sendFaults

\* The answers of an open test leave no gap.
NoGaps ==
  \A t \in OpenTests : \A q \in tests[t].answered : \A p \in Questions :
    p < q => p \in tests[t].answered

Calm ==
  /\ \A w \in Handlers : Active(w) => Alone(w) /\ Fits(w)
  /\ PositionBacked /\ TestsBounded /\ NoGaps

\* A fresh start that still has the chat to itself: all is abandoned by the time
\* it writes.
SweeperReady ==
  \A w \in sweeper : Active(w) =>
    /\ Alone(w)
    /\ Reads(job[w].todo) => job[w].seen = chat
    /\ Has(job[w].todo, "abandon_all") \/ (Head(job[w].todo) \in Resets /\ OpenTests = {})

BotInv == BotTypeOK /\ SweeperReady /\ (~crossed => Calm)

LEMMA NoJobIsGood ==
  /\ NewChat \in Chats /\ NoJob \in JobRecords /\ GoodJob(NoJob)
  /\ NoJob.todo = <<>> /\ \A call : ~Has(NoJob.todo, call)
  /\ End \in Nat /\ LastQuestion \in Nat
<1>1. End \in Nat /\ LastQuestion \in Nat
  BY BotAssumption DEF End
<1>2. NewChat \in Chats
  BY <1>1 DEF NewChat, Chats, ChatStates
<1>3. NoJob \in JobRecords /\ NoJob.todo = <<>>
  BY <1>1, <1>2 DEF NoJob, JobRecords, NothingFound
<1>. QED BY <1>1, <1>2, <1>3, NoCalls DEF GoodJob

LEMMA OpenAreFew ==
  ASSUME tests \in Seq(TestRows)
  PROVE  /\ DOMAIN tests = 1..Len(tests) /\ Len(tests) \in Nat
         /\ OpenTests \subseteq 1..Len(tests) /\ IsFiniteSet(OpenTests) /\ OpenCount \in Nat
         /\ OpenTests = {} => OpenCount = 0
<1>1. DOMAIN tests = 1..Len(tests) /\ Len(tests) \in Nat
  OBVIOUS
<1>2. OpenTests \in SUBSET (1..Len(tests))
  BY <1>1 DEF OpenTests
<1>3. IsFiniteSet(1..Len(tests))
  BY <1>1, FS_Interval
<1>4. IsFiniteSet(OpenTests)
  BY <1>2, <1>3, FS_Subset
<1>. QED BY <1>1, <1>2, <1>4, FS_CardinalityType, FS_EmptySet DEF OpenCount

\* What handler w goes on with.
Rest(w, more) == IF more = <<>> THEN Tail(job[w].todo) ELSE more

LEMMA ActiveHas ==
  ASSUME BotTypeOK, NEW w \in Handlers, Active(w)
  PROVE  /\ IsRun(job[w].todo) /\ job[w].todo # <<>> /\ job[w] \in JobRecords
         /\ job[w].seen \in Chats /\ job[w].found \in [test : Nat, pos : 0..End]
         /\ Head(job[w].todo) \in AllCalls
         /\ Has(job[w].todo, Head(job[w].todo)) /\ IsRun(Tail(job[w].todo))
<1>1. GoodJob(job[w])
  BY DEF BotTypeOK
<1>2. IsRun(job[w].todo) /\ job[w].todo # <<>> /\ job[w] \in JobRecords
  BY <1>1 DEF GoodJob, Active
<1>. QED BY <1>2, RunTail, TailIs DEF JobRecords, IsRun

LEMMA ContinueIs ==
  ASSUME BotTypeOK, NEW w \in Handlers, Active(w), NEW more, IsRun(more),
         more = <<>> \/ Head(job[w].todo) \in LastCalls,
         NEW seen \in Chats, NEW found \in [test : Nat, pos : 0..End],
         Has(Rest(w, more), "save") \/ Has(Rest(w, more), "advance") => seen.pos \in Questions,
         Continue(w, more, seen, found)
  PROVE  /\ job' = [job EXCEPT ![w] = job'[w]]
         /\ GoodJob(job'[w]) /\ job'[w].todo = Rest(w, more)
         /\ Reads(Rest(w, more)) => job'[w].seen = seen
         /\ Has(Rest(w, more), "resume_write") => job'[w].found = found
<1> DEFINE rest == more \o Tail(job[w].todo)
           Left(calls) == \E i \in DOMAIN rest : rest[i] \in calls
           r == [todo |-> rest, seen |-> IF Left(SeenReaders) THEN seen ELSE NewChat,
                 found |-> IF Left({"menu_write", "resume_write"}) THEN found ELSE NothingFound]
<1>1. IsRun(Tail(job[w].todo)) /\ IsRun(job[w].todo) /\ job[w].todo # <<>>
  BY ActiveHas
<1>2. rest = Rest(w, more) /\ IsRun(rest)
  <2>1. more \in Seq(AllCalls) /\ Tail(job[w].todo) \in Seq(AllCalls)
    BY <1>1 DEF IsRun
  <2>2. more = <<>> \/ Tail(job[w].todo) = <<>>
    BY <1>1, RunTail
  <2>3. more # <<>> => rest = more
    BY <2>1, <2>2, ConcatEmptySeq
  <2>4. more = <<>> => rest = Tail(job[w].todo)
    BY <2>1, ConcatEmptySeq
  <2>. QED BY <1>1, <2>3, <2>4 DEF Rest
<1>3. job' = [job EXCEPT ![w] = r] /\ job'[w] = r
  <2>1. job' = [job EXCEPT ![w] = r]
    BY DEF Continue
  <2>. QED BY <2>1 DEF BotTypeOK
<1>4. DOMAIN rest = 1..Len(rest)
  BY <1>2 DEF IsRun
<1>5. Reads(rest) => Left(SeenReaders)
  BY <1>4 DEF Reads
<1>6. Has(rest, "resume_write") => Left({"menu_write", "resume_write"})
  BY <1>4 DEF Has
<1>7. Has(rest, "save") \/ Has(rest, "advance") => Left(SeenReaders)
  BY <1>4 DEF Has, SeenReaders
<1>8. ~Left(SeenReaders) \/ ~Left({"menu_write", "resume_write"}) \/ rest # <<>>
  BY <1>4
<1>9. rest = <<>> => ~Left(SeenReaders) /\ ~Left({"menu_write", "resume_write"})
  BY <1>4
<1> HIDE DEF rest, Left
<1>10. /\ r.todo = rest /\ (Left(SeenReaders) => r.seen = seen)
       /\ (Left({"menu_write", "resume_write"}) => r.found = found)
       /\ r \in JobRecords
       /\ rest = <<>> => r = NoJob
  BY <1>2, <1>9, NoJobIsGood DEF JobRecords, NoJob, IsRun
<1> HIDE DEF r
<1>11. GoodJob(r)
  BY <1>2, <1>7, <1>10 DEF GoodJob
<1>. QED BY <1>2, <1>3, <1>5, <1>6, <1>10, <1>11

\* The handler goes on with what it had left.
LEMMA TailIsLeft ==
  ASSUME BotTypeOK, NEW w \in Handlers, Active(w),
         NEW seen \in Chats, NEW found \in [test : Nat, pos : 0..End],
         Has(Tail(job[w].todo), "save") \/ Has(Tail(job[w].todo), "advance") =>
           seen.pos \in Questions,
         Continue(w, <<>>, seen, found)
  PROVE  /\ job' = [job EXCEPT ![w] = job'[w]]
         /\ GoodJob(job'[w]) /\ job'[w].todo = Tail(job[w].todo)
         /\ Reads(Tail(job[w].todo)) => job'[w].seen = seen
         /\ Has(Tail(job[w].todo), "resume_write") => job'[w].found = found
<1>1. Rest(w, <<>>) = Tail(job[w].todo) /\ IsRun(<<>>)
  BY NoCalls DEF Rest
<1>. QED BY <1>1, ContinueIs

\* A step of handler w, seen from the variables it may write.
LEMMA TypeKeeps ==
  ASSUME BotTypeOK, NEW w \in Handlers, job' = [job EXCEPT ![w] = job'[w]], GoodJob(job'[w]),
         chat' \in Chats, tests' \in Seq(TestRows), sweeper' \subseteq sweeper,
         crossed' \in BOOLEAN, sendFaults' \in Nat
  PROVE  /\ BotTypeOK'
         /\ \A v \in Handlers \ {w} : job'[v] = job[v]
<1>1. \A v \in Handlers \ {w} : job'[v] = job[v]
  BY DEF BotTypeOK
<1>2. \A v \in Handlers : GoodJob(job'[v])
  BY <1>1 DEF BotTypeOK
<1>3. job' \in [Handlers -> JobRecords]
  <2>1. job'[w] \in JobRecords
    BY DEF GoodJob
  <2>2. job \in [Handlers -> JobRecords]
    BY DEF BotTypeOK
  <2> DEFINE r == job'[w]
  <2>3. job' = [job EXCEPT ![w] = r] /\ r \in JobRecords
    BY <2>1
  <2> HIDE DEF r
  <2>. QED BY <2>2, <2>3
<1>. QED BY <1>1, <1>2, <1>3 DEF BotTypeOK

\* A fresh start in progress only speaks, abandons, and writes once nothing is open.
LEMMA SweeperHead ==
  ASSUME BotTypeOK, SweeperReady, NEW w \in sweeper, Active(w)
  PROVE  /\ w \in Handlers
         /\ \/ Head(job[w].todo) = "say" /\ Has(Tail(job[w].todo), "abandon_all")
            \/ Head(job[w].todo) = "abandon_all"
            \/ Head(job[w].todo) \in Resets /\ OpenTests = {}
<1>1. w \in Handlers
  BY DEF BotTypeOK
<1>2. Has(job[w].todo, "abandon_all") \/ (Head(job[w].todo) \in Resets /\ OpenTests = {})
  BY <1>1 DEF SweeperReady
<1>3. CASE Has(job[w].todo, "abandon_all") /\ Head(job[w].todo) # "abandon_all"
  <2>1. Has(Tail(job[w].todo), "abandon_all")
    BY <1>1, <1>3, ActiveHas, RunTail
  <2>2. Head(job[w].todo) \in Before("abandon_all")
    BY <1>1, <2>1, ActiveHas, RunTail
  <2>. QED BY <1>1, <2>1, <2>2, BeforeSpecial
<1>. QED BY <1>1, <1>2, <1>3

LEMMA SweeperKeeps ==
  ASSUME BotTypeOK, SweeperReady, NEW w \in Handlers, Active(w),
         \A v \in Handlers \ {w} : job'[v] = job[v], sweeper' \subseteq sweeper,
         w \in sweeper' /\ Active(w)' =>
           /\ Reads(job'[w].todo) => job'[w].seen = chat'
           /\ \/ Has(job'[w].todo, "abandon_all")
              \/ Head(job'[w].todo) \in Resets /\ OpenTests' = {}
  PROVE  SweeperReady'
<1>1. SUFFICES ASSUME NEW v \in sweeper', Active(v)'
               PROVE  /\ Alone(v)'
                      /\ Reads(job'[v].todo) => job'[v].seen = chat'
                      /\ \/ Has(job'[v].todo, "abandon_all")
                         \/ Head(job'[v].todo) \in Resets /\ OpenTests' = {}
  BY DEF SweeperReady
<1>2. v \in sweeper /\ v \in Handlers
  BY <1>1 DEF BotTypeOK
<1>3. CASE v = w
  <2>1. Alone(w)
    BY <1>2, <1>3 DEF SweeperReady
  <2>2. Alone(w)'
    BY <2>1 DEF Alone
  <2>. QED BY <1>1, <1>3, <2>2
<1>4. CASE v # w
  <2>1. Active(v)
    BY <1>1, <1>2, <1>4 DEF Active
  <2>2. Alone(v)
    BY <1>2, <2>1 DEF SweeperReady
  <2>. QED BY <1>4, <2>2 DEF Alone, Active
<1>. QED BY <1>3, <1>4

\* While nothing has gone wrong, handler w has the chat to itself.
LEMMA CalmHas ==
  ASSUME BotTypeOK, Calm, NEW w \in Handlers, Active(w)
  PROVE  /\ Alone(w) /\ Fits(w)
         /\ chat.state = "answering_questions" /\ Head(job[w].todo) \notin Resets =>
              Backed(chat.test, chat.pos)
         /\ chat.state \in TestStates /\ ~Has(job[w].todo, "resume_write") => OpenCount <= sendFaults
         /\ OpenCount <= 1 + sendFaults
         /\ ~chat.user => OpenCount <= sendFaults
<1>1. Alone(w) /\ Fits(w)
  BY DEF Calm
<1>2. \A v \in Handlers \ {w} : ~Active(v) /\ job[v].todo = NoJob.todo
  BY <1>1 DEF Alone, Active
<1>3. Head(job[w].todo) \notin Resets => \A v \in Handlers : ~Resetting(v)
  BY <1>2 DEF Resetting
<1>4. ~Has(job[w].todo, "resume_write") => \A v \in Handlers : ~Has(job[v].todo, "resume_write")
  BY <1>2, NoJobIsGood
<1>. QED BY <1>1, <1>3, <1>4 DEF Calm, PositionBacked, TestsBounded

LEMMA CalmKeeps ==
  ASSUME NEW w \in Handlers, Alone(w), \A v \in Handlers \ {w} : job'[v] = job[v],
         Active(w)' => Fits(w)',
         chat'.state = "answering_questions" /\ ~Resetting(w)' => Backed(chat.test, chat.pos)',
         OpenCount' <= 1 + sendFaults',
         ~chat'.user => OpenCount' <= sendFaults',
         chat'.state \in TestStates /\ ~Has(job'[w].todo, "resume_write") =>
           OpenCount' <= sendFaults',
         NoGaps'
  PROVE  Calm'
<1>1. \A v \in Handlers : Active(v)' => v = w /\ Alone(v)'
  BY DEF Alone, Active
<1>. QED BY <1>1 DEF Calm, PositionBacked, TestsBounded

\* The handler stops.
LEMMA StopIs ==
  ASSUME BotTypeOK, NEW w \in Handlers, Stop(w)
  PROVE  /\ job' = [job EXCEPT ![w] = job'[w]] /\ job'[w] = NoJob /\ GoodJob(job'[w])
         /\ ~Active(w)'
<1>1. job'[w] = NoJob
  BY DEF BotTypeOK, Stop
<1>. QED BY <1>1, NoJobIsGood DEF Stop, Active

-----------------------------------------------------------------------------
(* The newest open test and the position to resume at                      *)

LEMMA LeastOfNaturals ==
  ASSUME NEW T, T \subseteq Nat, T # {}
  PROVE  \E n \in T : \A u \in T : n <= u
<1> DEFINE Upto == {0..n : n \in T}
<1>1. Upto \subseteq FiniteSubsetsOf(Nat) /\ Upto # {}
  <2>1. \A n \in T : 0..n \in SUBSET Nat /\ IsFiniteSet(0..n)
    BY FS_Interval
  <2>. QED BY <2>1 DEF FiniteSubsetsOf
<1>2. PICK U \in Upto : \A V \in Upto : ~(<<V, U>> \in StrictSubsetOrdering(Nat))
  BY <1>1, WFMin, FS_StrictSubsetOrderingWellFounded
<1>3. PICK n \in T : U = 0..n
  OBVIOUS
<1>4. ASSUME NEW u \in T PROVE n <= u
  <2>1. SUFFICES ASSUME u < n PROVE FALSE
    OBVIOUS
  <2>2. 0..u \subseteq 0..n /\ n \in 0..n /\ n \notin 0..u
    BY <2>1
  <2>3. 0..u \in SUBSET Nat /\ 0..n \in SUBSET Nat /\ 0..u # 0..n
    BY <2>2
  <2>4. <<0..u, 0..n>> \in StrictSubsetOrdering(Nat)
    BY <2>2, <2>3 DEF StrictSubsetOrdering
  <2>5. 0..u \in Upto
    OBVIOUS
  <2>. QED BY <1>2, <1>3, <2>4, <2>5
<1>. QED BY <1>4

LEMMA NewestIsOne ==
  ASSUME NEW n \in Nat, NEW S, S \subseteq 1..n, S # {}
  PROVE  Max(S) \in S /\ \A s \in S : s <= Max(S)
<1> DEFINE T == {n - s : s \in S}
<1>1. T \subseteq Nat /\ T # {}
  <2>1. \A s \in S : n - s \in Nat
    OBVIOUS
  <2>2. \E s \in S : n - s \in T
    OBVIOUS
  <2>. QED BY <2>1, <2>2
<1>2. PICK t \in T : \A u \in T : t <= u
  BY <1>1, LeastOfNaturals
<1>3. PICK m \in S : t = n - m
  OBVIOUS
<1>4. \A s \in S : s <= m
  <2>1. SUFFICES ASSUME NEW s \in S PROVE s <= m
    OBVIOUS
  <2>2. n - s \in T
    OBVIOUS
  <2>. QED BY <1>2, <1>3, <2>2
<1>. QED BY <1>4 DEF Max

\* findInProgressAssessment finds an open test when there is one.
LEMMA NewestIs ==
  ASSUME tests \in Seq(TestRows)
  PROVE  NewestOpen \in Nat /\ (OpenTests # {} => NewestOpen \in OpenTests)
<1>1. OpenTests \subseteq 1..Len(tests) /\ Len(tests) \in Nat
  BY OpenAreFew
<1>2. OpenTests # {} => Max(OpenTests) \in OpenTests
  BY <1>1, NewestIsOne
<1>3. \A t \in OpenTests : t \in Nat
  BY <1>1
<1>. QED BY <1>2, <1>3 DEF NewestOpen

LEMMA MinOfTwo ==
  ASSUME NEW m \in Nat, NEW n \in Nat
  PROVE  Min({m, n}) \in Nat /\ Min({m, n}) <= m /\ Min({m, n}) <= n
<1> DEFINE Least(x) == x \in {m, n} /\ \A y \in {m, n} : x =< y
<1>1. Least(m) \/ Least(n)
  OBVIOUS
<1>2. \E x : Least(x)
  BY <1>1
<1>3. Least(CHOOSE x : Least(x))
  BY <1>2
<1>4. Min({m, n}) \in {m, n} /\ \A y \in {m, n} : Min({m, n}) =< y
  BY <1>1 DEF Min
<1>. QED BY <1>4

\* computeResumePosition counts the answers: without a gap in them, every
\* question before as many has one.
LEMMA ResumePositionIs ==
  ASSUME tests \in Seq(TestRows), NEW t \in OpenTests
  PROVE  /\ ResumePosition(t) \in 0..End
         /\ NoGaps => Backed(t, ResumePosition(t))
<1> DEFINE A == tests[t].answered
<1>1. t \in DOMAIN tests /\ tests[t].status = "open" /\ tests[t] \in TestRows
  <2>1. t \in DOMAIN tests /\ tests[t].status = "open"
    BY DEF OpenTests
  <2>. QED BY <2>1
<1>2. A \subseteq Questions /\ Questions = 0..LastQuestion /\ LastQuestion \in Nat /\ End \in Nat
  BY <1>1, NoJobIsGood DEF TestRows, Questions
<1>3. IsFiniteSet(Questions) /\ IsFiniteSet(A) /\ Cardinality(A) \in Nat
  <2>1. IsFiniteSet(Questions)
    BY <1>2, FS_Interval
  <2>2. IsFiniteSet(A)
    BY <1>2, <2>1, FS_Subset
  <2>. QED BY <2>1, <2>2, FS_CardinalityType
<1>4. /\ ResumePosition(t) \in Nat /\ ResumePosition(t) <= Cardinality(A)
      /\ ResumePosition(t) <= End
  BY <1>2, <1>3, MinOfTwo DEF ResumePosition, Answered
<1>5. ASSUME NoGaps, NEW q \in Questions, q < ResumePosition(t) PROVE q \in A
  <2>1. SUFFICES ASSUME q \notin A PROVE FALSE
    OBVIOUS
  <2>2. \A p \in A : p < q
    <3>1. SUFFICES ASSUME NEW p \in A, q < p PROVE FALSE
      BY <1>2, <2>1
    <3>. QED BY <1>5, <2>1, <3>1 DEF NoGaps
  <2>3. A \subseteq 0..(q - 1)
    BY <1>2, <2>2
  <2>4. q \in Nat /\ q - 1 \in Int
    BY <1>2
  <2>5. IsFiniteSet(0..(q - 1)) /\ Cardinality(0..(q - 1)) = q
    <3> DEFINE r == q - 1
    <3>1. IsFiniteSet(0..r) /\ Cardinality(0..r) = IF 0 > r THEN 0 ELSE r - 0 + 1
      BY <2>4, FS_Interval
    <3>. QED BY <2>4, <3>1
  <2>6. Cardinality(A) <= q
    BY <2>3, <2>5, FS_Subset
  <2>. QED BY <1>3, <1>4, <1>5, <2>4, <2>6
<1>. QED BY <1>1, <1>2, <1>4, <1>5 DEF Backed

-----------------------------------------------------------------------------
(* Steps that leave the chat and the tests alone                           *)

\* The handler goes on with what it had left, and nothing else has changed.
LEMMA TailFits ==
  ASSUME BotTypeOK, NEW w \in Handlers, Active(w), Fits(w), UNCHANGED <<chat, tests, sendFaults>>,
         Head(job[w].todo) \notin {"save", "abandon_all"},
         job'[w].todo = Tail(job[w].todo),
         Reads(job'[w].todo) => job'[w].seen = job[w].seen,
         Has(job'[w].todo, "resume_write") => job'[w].found = job[w].found
  PROVE  Fits(w)'
<1> DEFINE s == job[w].todo
           t == job'[w].todo
<1>1. /\ \A call : Has(t, call) => Has(s, call)
      /\ \A call : Has(s, call) => call = Head(s) \/ Has(t, call)
      /\ Reads(t) => Reads(s)
  BY ActiveHas, RunTail
<1>2. Has(s, "save") => Has(t, "save")
  BY <1>1
<1>3. Has(s, "abandon_all") => Has(t, "abandon_all")
  BY <1>1
<1>4. OpenTests' = OpenTests /\ OpenCount' = OpenCount /\ \A n, pos : Backed(n, pos)' <=> Backed(n, pos)
  BY DEF OpenTests, OpenCount, Backed
<1>5. Reads(t) => job'[w].seen = chat'
  BY <1>1 DEF Fits
<1>6. Has(t, "resume_write") =>
        job'[w].found.test \in OpenTests' /\ Backed(job[w].found.test, job[w].found.pos)'
  <2>1. SUFFICES ASSUME Has(t, "resume_write")
                 PROVE  job'[w].found.test \in OpenTests' /\ Backed(job[w].found.test, job[w].found.pos)'
    OBVIOUS
  <2>2. job[w].found.test \in OpenTests /\ Backed(job[w].found.test, job[w].found.pos)
    BY <1>1, <2>1 DEF Fits
  <2>3. job'[w].found = job[w].found
    BY <2>1
  <2>. QED BY <1>4, <2>2, <2>3 DEF OpenTests, Backed
<1>7. /\ Has(t, "set_team_size") => chat'.state = "awaiting_business_name"
      /\ Has(t, "set_sales_model") => chat'.state = "awaiting_team_size"
      /\ Has(t, "start_test") => chat'.state = "awaiting_sales_model"
      /\ Has(t, "save") \/ Has(t, "advance") => chat'.state = "answering_questions"
      /\ Has(t, "set_new") \/ Has(t, "forget") => Has(t, "abandon_all") \/ OpenCount' <= sendFaults'
  BY <1>1, <1>3, <1>4 DEF Fits
<1>8. Has(t, "advance") /\ ~Has(t, "save") => chat'.pos \in tests'[chat'.test].answered
  BY <1>1, <1>2 DEF Fits
<1>. QED BY <1>5, <1>6, <1>7, <1>8 DEF Fits

LEMMA StillKeeps ==
  ASSUME BotInv, NEW w \in Handlers, Active(w), job' = [job EXCEPT ![w] = job'[w]],
         GoodJob(job'[w]), UNCHANGED <<chat, tests, botHistory>>,
         Head(job[w].todo) \notin Resets,
         Calm /\ Active(w)' => Fits(w)',
         Has(job[w].todo, "resume_write") => Has(job'[w].todo, "resume_write"),
         w \in sweeper /\ Active(w)' =>
           Has(job'[w].todo, "abandon_all") /\ (Reads(job'[w].todo) => job'[w].seen = chat)
  PROVE  BotInv'
<1>1. BotTypeOK /\ SweeperReady /\ UNCHANGED <<chat, tests, sweeper, crossed, sendFaults, overlaps>>
  BY DEF BotInv, botHistory
<1>2. BotTypeOK' /\ \A v \in Handlers \ {w} : job'[v] = job[v]
  <2>1. /\ chat' \in Chats /\ tests' \in Seq(TestRows) /\ sweeper' \subseteq sweeper
        /\ crossed' \in BOOLEAN /\ sendFaults' \in Nat
    BY <1>1 DEF BotTypeOK
  <2>. QED BY <1>1, <2>1, TypeKeeps
<1>3. SweeperReady'
  BY <1>1, <1>2, SweeperKeeps
<1>4. ASSUME Calm PROVE Calm'
  <2>1. OpenTests' = OpenTests /\ OpenCount' = OpenCount
    BY <1>1 DEF OpenTests, OpenCount
  <2>2. Backed(chat.test, chat.pos)' <=> Backed(chat.test, chat.pos)
    BY <1>1 DEF Backed
  <2>3. NoGaps'
    BY <1>1, <1>4, <2>1 DEF Calm, NoGaps
  <2>4. /\ Alone(w)
        /\ chat'.state = "answering_questions" => Backed(chat.test, chat.pos)'
        /\ OpenCount' <= 1 + sendFaults'
        /\ ~chat'.user => OpenCount' <= sendFaults'
        /\ chat'.state \in TestStates /\ ~Has(job'[w].todo, "resume_write") => OpenCount' <= sendFaults'
    BY <1>1, <1>4, <2>1, <2>2, CalmHas
  <2>. QED BY <1>2, <1>4, <2>3, <2>4, CalmKeeps
<1>. QED BY <1>1, <1>2, <1>3, <1>4 DEF BotInv

LEMMA SayKeeps == ASSUME BotInv, NEW w \in Handlers, Say(w) PROVE BotInv'
<1> DEFINE s == job[w].todo
<1>1. /\ BotTypeOK /\ SweeperReady /\ Active(w) /\ Head(s) = "say" /\ UNCHANGED <<chat, tests, botHistory>>
      /\ Continue(w, <<>>, job[w].seen, job[w].found)
  BY DEF BotInv, Say, Calling, Active, Then, Seen
<1>2. /\ IsRun(s) /\ s # <<>> /\ job[w].seen \in Chats
      /\ job[w].found \in [test : Nat, pos : 0..End] /\ Rest(w, <<>>) = Tail(s)
  BY <1>1, ActiveHas DEF Rest
<1>3. /\ \A call : Has(Tail(s), call) => Has(s, call)
      /\ \A call : Has(s, call) => call = "say" \/ Has(Tail(s), call)
      /\ Reads(Tail(s)) => Reads(s)
  BY <1>1, <1>2, RunTail
<1>4. Has(Tail(s), "save") \/ Has(Tail(s), "advance") => job[w].seen.pos \in Questions
  BY <1>1, <1>3 DEF BotTypeOK, GoodJob
<1>5. /\ job' = [job EXCEPT ![w] = job'[w]]
      /\ GoodJob(job'[w]) /\ job'[w].todo = Tail(s)
      /\ Reads(Tail(s)) => job'[w].seen = job[w].seen
      /\ Has(Tail(s), "resume_write") => job'[w].found = job[w].found
  BY <1>1, <1>2, <1>4, NoCalls, ContinueIs
<1>6. Calm => Fits(w)'
  <2>1. SUFFICES ASSUME Calm PROVE Fits(w)'
    OBVIOUS
  <2>2. Fits(w) /\ UNCHANGED <<chat, tests, sendFaults>>
    BY <1>1, <2>1, CalmHas DEF botHistory
  <2>. QED BY <1>1, <1>5, <2>2, TailFits
<1>7. w \in sweeper => Has(Tail(s), "abandon_all") /\ (Reads(Tail(s)) => job'[w].seen = chat)
  <2>1. SUFFICES ASSUME w \in sweeper
                 PROVE  Has(Tail(s), "abandon_all") /\ (Reads(Tail(s)) => job'[w].seen = chat)
    OBVIOUS
  <2>2. Has(Tail(s), "abandon_all")
    BY <1>1, <2>1, SweeperHead DEF Resets
  <2>3. Reads(s) => job[w].seen = chat
    BY <1>1, <2>1 DEF SweeperReady
  <2>. QED BY <1>3, <1>5, <2>2, <2>3
<1>8. Head(s) \notin Resets /\ (Has(s, "resume_write") => Has(Tail(s), "resume_write"))
  BY <1>1, <1>3 DEF Resets
<1>. QED BY <1>1, <1>5, <1>6, <1>7, <1>8, StillKeeps

LEMMA MenuFindKeeps == ASSUME BotInv, NEW w \in Handlers, MenuFind(w) PROVE BotInv'
<1> DEFINE s == job[w].todo
<1>1. /\ BotTypeOK /\ SweeperReady /\ Active(w) /\ Head(s) = "menu_find" /\ UNCHANGED <<chat, tests, botHistory>>
      /\ Continue(w, <<>>, job[w].seen,
                  [test |-> IF Seen(w).user THEN NewestOpen ELSE 0, pos |-> 0])
  BY DEF BotInv, MenuFind, Calling, Active, Find, Seen
<1>2. /\ IsRun(s) /\ s # <<>> /\ job[w].seen \in Chats /\ Rest(w, <<>>) = Tail(s)
  BY <1>1, ActiveHas DEF Rest
<1>3. [test |-> IF Seen(w).user THEN NewestOpen ELSE 0, pos |-> 0] \in [test : Nat, pos : 0..End]
  BY <1>1, NewestIs, NoJobIsGood DEF BotTypeOK
<1>4. \A call \in Special \cup {"abandon_all"} : ~Has(Tail(s), call)
  BY <1>1, <1>2, PlainAfter
<1>5. /\ job' = [job EXCEPT ![w] = job'[w]]
      /\ GoodJob(job'[w]) /\ job'[w].todo = Tail(s)
      /\ Reads(Tail(s)) => job'[w].seen = job[w].seen
  BY <1>1, <1>2, <1>3, <1>4, NoCalls, ContinueIs DEF Special
<1>6. Calm => Fits(w)'
  <2>1. SUFFICES ASSUME Calm PROVE Fits(w)'
    OBVIOUS
  <2>2. Fits(w) /\ UNCHANGED <<chat, tests, sendFaults>>
    BY <1>1, <2>1, CalmHas DEF botHistory
  <2>3. ~Has(Tail(s), "resume_write")
    BY <1>4 DEF Special
  <2>. QED BY <1>1, <1>5, <2>2, <2>3, TailFits
<1>7. w \notin sweeper
  BY <1>1, SweeperHead DEF Resets
<1>8. Head(s) \notin Resets /\ ~Has(s, "resume_write")
  <2>1. \A call : Has(s, call) => call = "menu_find" \/ Has(Tail(s), call)
    BY <1>1, <1>2, RunTail
  <2>. QED BY <1>1, <1>4, <2>1 DEF Resets, Special
<1>. QED BY <1>1, <1>5, <1>6, <1>7, <1>8, StillKeeps

\* Nothing follows a last call, and a fresh start does not come to one.
LEMMA LastCallIs ==
  ASSUME BotTypeOK, NEW w \in Handlers, Active(w), Head(job[w].todo) \in LastCalls
  PROVE  /\ \A more : Rest(w, more) = more
         /\ \A call : Has(job[w].todo, call) => call = Head(job[w].todo)
         /\ Head(job[w].todo) \notin Resets /\ (SweeperReady => w \notin sweeper)
<1>1. Tail(job[w].todo) = <<>>
  BY ActiveHas, RunTail
<1>2. \A more : Rest(w, more) = more
  BY <1>1 DEF Rest
<1>3. \A call : Has(job[w].todo, call) => call = Head(job[w].todo)
  BY <1>1, ActiveHas, RunTail, NoCalls
<1>4. Head(job[w].todo) \notin Resets \cup {"say", "abandon_all"}
  BY DEF LastCalls, Resets
<1>. QED BY <1>2, <1>3, <1>4, SweeperHead

LEMMA ResumeFindKeeps == ASSUME BotInv, NEW w \in Handlers, ResumeFind(w) PROVE BotInv'
<1> DEFINE s == job[w].todo
           found == [test |-> NewestOpen, pos |-> ResumePosition(NewestOpen)]
<1>1. /\ BotTypeOK /\ SweeperReady /\ Active(w) /\ Head(s) = "resume_find"
      /\ UNCHANGED <<chat, tests, botHistory>>
      /\ \/ OpenTests = {} /\ Continue(w, <<>>, job[w].seen, job[w].found)
         \/ OpenTests # {} /\ Continue(w, <<"resume_write">>, job[w].seen, found)
  BY DEF BotInv, ResumeFind, Calling, Active, Then, Find, Seen
<1>2. /\ \A more : Rest(w, more) = more
      /\ Head(s) \in LastCalls /\ Head(s) \notin Resets /\ w \notin sweeper
      /\ ~Has(s, "resume_write")
      /\ job[w].seen \in Chats /\ job[w].found \in [test : Nat, pos : 0..End]
  <2>1. Head(s) \in LastCalls
    BY <1>1 DEF LastCalls
  <2>. QED BY <1>1, <2>1, ActiveHas, LastCallIs
<1>3. CASE OpenTests = {}
  <2>1. /\ job' = [job EXCEPT ![w] = job'[w]]
        /\ GoodJob(job'[w]) /\ job'[w].todo = <<>>
    BY <1>1, <1>2, <1>3, NoCalls, ContinueIs
  <2>2. ~Active(w)'
    BY <2>1 DEF GoodJob, Active
  <2>. QED BY <1>1, <1>2, <2>1, <2>2, StillKeeps
<1>4. CASE OpenTests # {}
  <2> DEFINE more == <<"resume_write">>
  <2>1. IsRun(more) /\ \A call : Has(more, call) <=> call = "resume_write"
    BY OneCall DEF AllCalls, Abandons
  <2>2. /\ NewestOpen \in OpenTests /\ found \in [test : Nat, pos : 0..End]
        /\ NoGaps => Backed(NewestOpen, ResumePosition(NewestOpen))
    <3>1. tests \in Seq(TestRows)
      BY <1>1 DEF BotTypeOK
    <3>2. NewestOpen \in Nat /\ NewestOpen \in OpenTests
      BY <1>4, <3>1, NewestIs
    <3>. QED BY <3>1, <3>2, ResumePositionIs
  <2>3. ~Reads(more)
    BY DEF Reads
  <2> HIDE DEF more
  <2>4. /\ job' = [job EXCEPT ![w] = job'[w]]
        /\ GoodJob(job'[w]) /\ job'[w].todo = more /\ job'[w].found = found
    <3>1. Continue(w, more, job[w].seen, found)
      BY <1>1, <1>4 DEF more
    <3>. QED BY <1>1, <1>2, <2>1, <2>2, <3>1, ContinueIs
  <2>5. Calm => Fits(w)'
    <3>1. SUFFICES ASSUME Calm PROVE Fits(w)'
      OBVIOUS
    <3>2. Backed(NewestOpen, ResumePosition(NewestOpen))
      BY <2>2, <3>1 DEF Calm
    <3>3. OpenTests' = OpenTests /\ tests' = tests
      BY <1>1 DEF OpenTests
    <3>4. job'[w].found.test = NewestOpen /\ job'[w].found.pos = ResumePosition(NewestOpen)
      BY <2>4
    <3>5. Backed(job[w].found.test, job[w].found.pos)'
      BY <3>2, <3>3, <3>4 DEF Backed
    <3>. QED BY <2>1, <2>2, <2>3, <2>4, <3>3, <3>4, <3>5 DEF Fits
  <2>. QED BY <1>1, <1>2, <2>1, <2>4, <2>5, StillKeeps
<1>. QED BY <1>3, <1>4

LEMMA ShowReportsKeeps == ASSUME BotInv, NEW w \in Handlers, ShowReports(w) PROVE BotInv'
<1> DEFINE s == job[w].todo
           last == IF \E t \in DOMAIN tests : tests[t].status = "completed"
                   THEN <<"set_reports">> ELSE <<"set_menu">>
           more == <<"say">> \o last
<1>1. /\ BotTypeOK /\ SweeperReady /\ Active(w) /\ Head(s) = "show_reports"
      /\ UNCHANGED <<chat, tests, botHistory>>
      /\ Continue(w, more, job[w].seen, job[w].found)
  BY DEF BotInv, ShowReports, Calling, Active, Then, Seen
<1>2. /\ \A m : Rest(w, m) = m
      /\ Head(s) \in LastCalls /\ Head(s) \notin Resets /\ w \notin sweeper
      /\ ~Has(s, "resume_write")
      /\ job[w].seen \in Chats /\ job[w].found \in [test : Nat, pos : 0..End]
  <2>1. Head(s) \in LastCalls
    BY <1>1 DEF LastCalls
  <2>. QED BY <1>1, <2>1, ActiveHas, LastCallIs
<1>3. IsRun(last) /\ \A call : Has(last, call) => call \in {"set_reports", "set_menu"}
  <2>1. IsRun(<<"set_reports">>) /\ \A call : Has(<<"set_reports">>, call) <=> call = "set_reports"
    BY OneCall DEF AllCalls, Abandons
  <2>2. IsRun(<<"set_menu">>) /\ \A call : Has(<<"set_menu">>, call) <=> call = "set_menu"
    BY OneCall DEF AllCalls, Abandons
  <2>. QED BY <2>1, <2>2
<1> HIDE DEF last
<1>4. IsRun(more) /\ \A call : Has(more, call) => call \in {"say", "set_reports", "set_menu"}
  BY <1>3, SayFirst
<1> HIDE DEF more
<1>5. /\ job' = [job EXCEPT ![w] = job'[w]]
      /\ GoodJob(job'[w]) /\ job'[w].todo = more
  <2>1. ~Has(Rest(w, more), "save") /\ ~Has(Rest(w, more), "advance")
    BY <1>2, <1>4
  <2>. QED BY <1>1, <1>2, <1>4, <2>1, ContinueIs
<1>6. ~Reads(more)
  BY <1>4 DEF Reads, Has, SeenReaders
<1>7. Fits(w)'
  <2>1. \A call \in Special : ~Has(job'[w].todo, call)
    BY <1>4, <1>5 DEF Special
  <2>. QED BY <1>5, <1>6, <2>1 DEF Fits, Special
<1>. QED BY <1>1, <1>2, <1>5, <1>7, StillKeeps

\* A message that fails may leave one more test behind, and that is counted.
LEMMA SayFailsKeeps == ASSUME BotInv, NEW w \in Handlers, SayFails(w) PROVE BotInv'
<1>1. /\ BotTypeOK /\ SweeperReady /\ Active(w) /\ Head(job[w].todo) = "say"
      /\ sendFaults' = sendFaults + 1 /\ Stop(w)
      /\ UNCHANGED <<chat, tests, sweeper, crossed, overlaps>>
  BY DEF BotInv, SayFails, Calling, Active
<1>2. job' = [job EXCEPT ![w] = job'[w]] /\ job'[w] = NoJob /\ GoodJob(job'[w]) /\ ~Active(w)'
  BY <1>1, StopIs
<1>3. BotTypeOK' /\ \A v \in Handlers \ {w} : job'[v] = job[v]
  <2>1. /\ chat' \in Chats /\ tests' \in Seq(TestRows) /\ sweeper' \subseteq sweeper
        /\ crossed' \in BOOLEAN /\ sendFaults' \in Nat
    BY <1>1 DEF BotTypeOK
  <2>. QED BY <1>1, <1>2, <2>1, TypeKeeps
<1>4. SweeperReady'
  BY <1>1, <1>2, <1>3, SweeperKeeps
<1>5. ASSUME Calm PROVE Calm'
  <2>1. OpenTests' = OpenTests /\ OpenCount' = OpenCount
    BY <1>1 DEF OpenTests, OpenCount
  <2>2. Backed(chat.test, chat.pos)' <=> Backed(chat.test, chat.pos)
    BY <1>1 DEF Backed
  <2>3. NoGaps'
    BY <1>1, <1>5, <2>1 DEF Calm, NoGaps
  <2>4. OpenCount \in Nat /\ sendFaults \in Nat
    BY <1>1, OpenAreFew DEF BotTypeOK
  <2>5. Alone(w) /\ OpenCount <= 1 + sendFaults
    BY <1>1, <1>5, CalmHas
  <2>6. chat'.state = "answering_questions" => Backed(chat.test, chat.pos)'
    BY <1>1, <1>5, <2>2, CalmHas DEF Resets
  <2>7. OpenCount' <= sendFaults' /\ OpenCount' <= 1 + sendFaults'
    BY <1>1, <2>1, <2>4, <2>5
  <2>. QED BY <1>2, <1>3, <2>3, <2>5, <2>6, <2>7, CalmKeeps
<1>. QED BY <1>1, <1>3, <1>4, <1>5 DEF BotInv

-----------------------------------------------------------------------------
(* Steps that change a test                                                *)

LEMMA RowsAreSequence ==
  ASSUME NEW n \in Nat, NEW f, f = [k \in 1..n |-> f[k]], \A k \in 1..n : f[k] \in TestRows
  PROVE  f \in Seq(TestRows)
OBVIOUS

\* One test is written over.
LEMMA TestIs ==
  ASSUME tests \in Seq(TestRows), NEW t, NEW r, t \in DOMAIN tests => r \in TestRows,
         tests' = [tests EXCEPT ![t] = r]
  PROVE  /\ tests' \in Seq(TestRows) /\ DOMAIN tests' = DOMAIN tests
         /\ t \in DOMAIN tests => tests'[t] = r
         /\ \A n \in DOMAIN tests \ {t} : tests'[n] = tests[n]
<1>1. DOMAIN tests = 1..Len(tests) /\ Len(tests) \in Nat /\ tests = [n \in 1..Len(tests) |-> tests[n]]
  OBVIOUS
<1>2. DOMAIN tests' = DOMAIN tests /\ tests' = [n \in 1..Len(tests) |-> tests'[n]]
  BY <1>1
<1>3. /\ t \in DOMAIN tests => tests'[t] = r
      /\ \A n \in DOMAIN tests \ {t} : tests'[n] = tests[n]
  OBVIOUS
<1>4. \A n \in 1..Len(tests) : tests'[n] \in TestRows
  BY <1>1, <1>3
<1>5. tests' \in Seq(TestRows)
  BY <1>1, <1>2, <1>4, RowsAreSequence
<1>. QED BY <1>2, <1>3, <1>5

\* A test is closed: no other one opens.
LEMMA StatusIs ==
  ASSUME tests \in Seq(TestRows), NEW t \in DOMAIN tests, NEW status \in {"abandoned", "completed"},
         SetStatus(t, status)
  PROVE  /\ tests' \in Seq(TestRows) /\ DOMAIN tests' = DOMAIN tests
         /\ tests'[t].status = status /\ tests'[t].answered = tests[t].answered
         /\ \A n \in DOMAIN tests \ {t} : tests'[n] = tests[n]
<1> DEFINE r == [tests[t] EXCEPT !.status = status]
<1>1. tests[t] \in TestRows
  OBVIOUS
<1>2. r \in TestRows /\ r.status = status /\ r.answered = tests[t].answered
  BY <1>1 DEF TestRows
<1>3. tests' = [tests EXCEPT ![t] = r]
  BY DEF SetStatus
<1> HIDE DEF r
<1>. QED BY <1>2, <1>3, TestIs

\* Fewer tests are open, and those that are have the answers they had.
LEMMA FewerOpen ==
  ASSUME tests \in Seq(TestRows), tests' \in Seq(TestRows), DOMAIN tests' = DOMAIN tests,
         \A t \in DOMAIN tests : /\ tests'[t].answered = tests[t].answered
                                 /\ tests'[t].status = "open" => tests[t].status = "open"
  PROVE  /\ OpenTests' \subseteq OpenTests /\ OpenCount' <= OpenCount
         /\ OpenCount \in Nat /\ OpenCount' \in Nat
         /\ NoGaps => NoGaps'
<1>1. OpenTests' \subseteq OpenTests
  BY DEF OpenTests
<1>2. IsFiniteSet(OpenTests) /\ OpenCount \in Nat
  BY OpenAreFew
<1>3. OpenCount' <= OpenCount /\ OpenCount' \in Nat
  BY <1>1, <1>2, FS_Subset, FS_CardinalityType DEF OpenCount
<1>4. ASSUME NoGaps PROVE NoGaps'
  <2>1. \A t \in OpenTests' : t \in OpenTests /\ tests'[t].answered = tests[t].answered
    BY <1>1 DEF OpenTests
  <2>. QED BY <1>4, <2>1 DEF NoGaps
<1>. QED BY <1>1, <1>2, <1>3, <1>4

LEMMA AbandonMineKeeps == ASSUME BotInv, NEW w \in Handlers, AbandonMine(w) PROVE BotInv'
<1> DEFINE s == job[w].todo
<1>1. /\ BotTypeOK /\ SweeperReady /\ Active(w) /\ Head(s) = "abandon_mine"
      /\ UNCHANGED <<chat, sweeper, crossed, sendFaults, overlaps>>
      /\ Continue(w, <<>>, job[w].seen, job[w].found)
      /\ IF Seen(w).test \in OpenTests THEN SetStatus(Seen(w).test, "abandoned") ELSE UNCHANGED tests
  BY DEF BotInv, AbandonMine, Calling, Active, Then, Seen, botHistory
<1>2. /\ IsRun(s) /\ s # <<>> /\ job[w].seen \in Chats
      /\ job[w].found \in [test : Nat, pos : 0..End] /\ Rest(w, <<>>) = Tail(s)
  BY <1>1, ActiveHas DEF Rest
<1>3. /\ \A call \in Special \cup {"abandon_all"} : ~Has(Tail(s), call)
      /\ Reads(Tail(s)) => Reads(s)
      /\ Tail(s) # <<>> /\ Head(Tail(s)) \in Resets
      /\ ~Has(s, "resume_write")
  <2>1. Head(s) \in Abandons
    BY <1>1 DEF Abandons
  <2>2. \A call \in Special \cup {"abandon_all"} : ~Has(Tail(s), call)
    BY <1>1, <1>2, PlainAfter
  <2>. QED BY <1>1, <1>2, <2>1, <2>2, RunTail DEF Special
<1>4. /\ job' = [job EXCEPT ![w] = job'[w]]
      /\ GoodJob(job'[w]) /\ job'[w].todo = Tail(s)
      /\ Reads(Tail(s)) => job'[w].seen = job[w].seen
  BY <1>1, <1>2, <1>3, NoCalls, ContinueIs DEF Special
<1>5. /\ tests' \in Seq(TestRows) /\ DOMAIN tests' = DOMAIN tests
      /\ \A t \in DOMAIN tests : /\ tests'[t].answered = tests[t].answered
                                 /\ tests'[t].status = "open" => tests[t].status = "open"
  <2>1. tests \in Seq(TestRows)
    BY <1>1 DEF BotTypeOK
  <2>2. CASE Seen(w).test \in OpenTests
    <3>1. Seen(w).test \in DOMAIN tests /\ SetStatus(Seen(w).test, "abandoned")
      BY <1>1, <2>2 DEF OpenTests
    <3>. QED BY <2>1, <3>1, StatusIs
  <2>. QED BY <1>1, <2>1, <2>2
<1>6. tests \in Seq(TestRows) /\ OpenCount' <= OpenCount /\ (NoGaps => NoGaps')
      /\ OpenCount \in Nat /\ OpenCount' \in Nat
  BY <1>1, <1>5, FewerOpen DEF BotTypeOK
<1>7. BotTypeOK' /\ \A v \in Handlers \ {w} : job'[v] = job[v]
  <2>1. /\ chat' \in Chats /\ sweeper' \subseteq sweeper
        /\ crossed' \in BOOLEAN /\ sendFaults' \in Nat
    BY <1>1 DEF BotTypeOK
  <2>. QED BY <1>1, <1>4, <1>5, <2>1, TypeKeeps
<1>8. SweeperReady'
  <2>1. w \notin sweeper
    BY <1>1, SweeperHead DEF Resets
  <2>. QED BY <1>1, <1>7, <2>1, SweeperKeeps
<1>9. ASSUME Calm PROVE Calm'
  <2>1. /\ Alone(w) /\ Fits(w) /\ OpenCount <= 1 + sendFaults
        /\ ~chat.user => OpenCount <= sendFaults
        /\ chat.state \in TestStates => OpenCount <= sendFaults
    BY <1>1, <1>3, <1>9, CalmHas
  <2>2. Fits(w)'
    <3>1. Reads(job'[w].todo) => job'[w].seen = chat'
      BY <1>1, <1>3, <1>4, <2>1 DEF Fits
    <3>. QED BY <1>3, <1>4, <3>1 DEF Fits, Special
  <2>3. Resetting(w)'
    BY <1>3, <1>4, NoJobIsGood DEF Resetting, Active
  <2>4. sendFaults \in Nat
    BY <1>1 DEF BotTypeOK
  <2>5. /\ OpenCount' <= 1 + sendFaults'
        /\ ~chat'.user => OpenCount' <= sendFaults'
        /\ chat'.state \in TestStates => OpenCount' <= sendFaults'
    BY <1>1, <1>6, <2>1, <2>4
  <2>6. NoGaps'
    BY <1>6, <1>9 DEF Calm
  <2>. QED BY <1>7, <2>1, <2>2, <2>3, <2>5, <2>6, CalmKeeps
<1>. QED BY <1>1, <1>7, <1>8, <1>9 DEF BotInv

LEMMA AbandonAllKeeps == ASSUME BotInv, NEW w \in Handlers, AbandonAll(w) PROVE BotInv'
<1> DEFINE s == job[w].todo
           closed == [t \in DOMAIN tests |->
                        IF t \in OpenTests THEN [tests[t] EXCEPT !.status = "abandoned"] ELSE tests[t]]
<1>1. /\ BotTypeOK /\ SweeperReady /\ Active(w) /\ Head(s) = "abandon_all"
      /\ UNCHANGED <<chat, sweeper, crossed, sendFaults, overlaps>>
      /\ Continue(w, <<>>, job[w].seen, job[w].found)
      /\ tests' = closed
  BY DEF BotInv, AbandonAll, Calling, Active, Then, Seen, botHistory
<1>2. /\ IsRun(s) /\ s # <<>> /\ job[w].seen \in Chats
      /\ job[w].found \in [test : Nat, pos : 0..End] /\ Rest(w, <<>>) = Tail(s)
  BY <1>1, ActiveHas DEF Rest
<1>3. /\ \A call \in Special \ {"set_new", "forget"} : ~Has(Tail(s), call)
      /\ Reads(Tail(s)) => Reads(s)
      /\ Tail(s) # <<>> /\ Head(Tail(s)) \in Resets
  <2>1. Head(s) \in Abandons
    BY <1>1 DEF Abandons
  <2>2. \A call \in Special \ {"set_new", "forget"} : "abandon_all" \notin Before(call)
    BY DEF Special, Before
  <2>. QED BY <1>1, <1>2, <2>1, <2>2, RunTail
<1>4. /\ job' = [job EXCEPT ![w] = job'[w]]
      /\ GoodJob(job'[w]) /\ job'[w].todo = Tail(s)
      /\ Reads(Tail(s)) => job'[w].seen = job[w].seen
  BY <1>1, <1>2, <1>3, NoCalls, ContinueIs DEF Special
<1>5. tests' \in Seq(TestRows) /\ OpenTests' = {} /\ OpenCount' = 0
  <2>1. tests \in Seq(TestRows) /\ DOMAIN tests = 1..Len(tests) /\ Len(tests) \in Nat
    BY <1>1 DEF BotTypeOK
  <2>2. \A t \in DOMAIN tests : closed[t] \in TestRows /\ closed[t].status # "open"
    <3>1. SUFFICES ASSUME NEW t \in DOMAIN tests
                   PROVE  closed[t] \in TestRows /\ closed[t].status # "open"
      OBVIOUS
    <3>2. tests[t] \in TestRows
      BY <2>1
    <3>3. CASE t \in OpenTests
      BY <3>2, <3>3 DEF TestRows
    <3>4. CASE t \notin OpenTests
      BY <3>2, <3>4 DEF OpenTests
    <3>. QED BY <3>3, <3>4
  <2>3. closed = [t \in 1..Len(tests) |-> closed[t]] /\ DOMAIN closed = DOMAIN tests
    BY <2>1
  <2> HIDE DEF closed
  <2>4. closed \in Seq(TestRows)
    BY <2>1, <2>2, <2>3
  <2>5. OpenTests' = {}
    BY <1>1, <2>2, <2>3 DEF OpenTests
  <2>. QED BY <1>1, <2>4, <2>5, FS_EmptySet DEF OpenCount
<1>6. BotTypeOK' /\ \A v \in Handlers \ {w} : job'[v] = job[v]
  <2>1. /\ chat' \in Chats /\ sweeper' \subseteq sweeper
        /\ crossed' \in BOOLEAN /\ sendFaults' \in Nat
    BY <1>1 DEF BotTypeOK
  <2>. QED BY <1>1, <1>4, <1>5, <2>1, TypeKeeps
<1>7. SweeperReady'
  <2>1. w \in sweeper => (Reads(s) => job[w].seen = chat)
    BY <1>1 DEF SweeperReady
  <2>2. w \in sweeper => (Reads(Tail(s)) => job'[w].seen = chat')
    BY <1>1, <1>3, <1>4, <2>1
  <2>3. sweeper' \subseteq sweeper
    BY <1>1
  <2>. QED BY <1>1, <1>3, <1>4, <1>5, <1>6, <2>2, <2>3, SweeperKeeps
<1>8. ASSUME Calm PROVE Calm'
  <2>1. Alone(w) /\ Fits(w)
    BY <1>1, <1>8, CalmHas
  <2>2. sendFaults \in Nat /\ OpenCount' <= sendFaults' /\ OpenCount' <= 1 + sendFaults'
    BY <1>1, <1>5 DEF BotTypeOK
  <2>3. Fits(w)'
    <3>1. Reads(job'[w].todo) => job'[w].seen = chat'
      BY <1>1, <1>3, <1>4, <2>1 DEF Fits
    <3>. QED BY <1>3, <1>4, <2>2, <3>1 DEF Fits, Special
  <2>4. Resetting(w)'
    BY <1>3, <1>4, NoJobIsGood DEF Resetting, Active
  <2>5. NoGaps'
    BY <1>5 DEF NoGaps
  <2>. QED BY <1>6, <2>1, <2>2, <2>3, <2>4, <2>5, CalmKeeps
<1>. QED BY <1>1, <1>6, <1>7, <1>8 DEF BotInv

\* A new test is open and has no answer yet.
LEMMA NewTestIs ==
  ASSUME tests \in Seq(TestRows), tests' = Append(tests, NewTest)
  PROVE  /\ tests' \in Seq(TestRows) /\ OpenCount' = OpenCount + 1
         /\ Len(tests) + 1 \in OpenTests' /\ Len(tests) + 1 \in Nat
         /\ Len(tests) + 1 \in DOMAIN tests' /\ tests'[Len(tests) + 1].status # "abandoned"
         /\ \A q \in Questions : q < 0 => q \in tests'[Len(tests) + 1].answered
         /\ NoGaps => NoGaps'
<1> DEFINE n == Len(tests) + 1
<1>1. NewTest \in TestRows /\ NewTest.status = "open" /\ NewTest.answered = {}
  BY DEF NewTest, TestRows
<1>2. /\ tests' \in Seq(TestRows) /\ n \in Nat /\ n \notin DOMAIN tests
      /\ DOMAIN tests' = DOMAIN tests \cup {n} /\ tests'[n] = NewTest
      /\ \A t \in DOMAIN tests : tests'[t] = tests[t]
  <2>1. Len(tests) \in Nat /\ DOMAIN tests = 1..Len(tests)
    OBVIOUS
  <2>2. /\ tests' \in Seq(TestRows) /\ Len(tests') = n /\ tests'[n] = NewTest
        /\ \A t \in 1..Len(tests) : tests'[t] = tests[t]
    BY <1>1, <2>1
  <2>3. DOMAIN tests' = 1..n
    BY <2>1, <2>2
  <2>. QED BY <2>1, <2>2, <2>3
<1> HIDE DEF n
<1>3. OpenTests' = OpenTests \cup {n} /\ n \notin OpenTests
  BY <1>1, <1>2 DEF OpenTests
<1>4. IsFiniteSet(OpenTests)
  BY OpenAreFew
<1>5. OpenCount' = OpenCount + 1
  BY <1>3, <1>4, FS_AddElement DEF OpenCount
<1>6. /\ n \in DOMAIN tests' /\ tests'[n].status # "abandoned"
      /\ \A q \in Questions : q < 0 => q \in tests'[n].answered
  BY <1>1, <1>2, NoJobIsGood DEF Questions
<1>7. tests'[n].answered = {} /\ \A t \in OpenTests : tests'[t] = tests[t]
  BY <1>1, <1>2 DEF OpenTests
<1>8. NoGaps => NoGaps'
  BY <1>3, <1>7 DEF NoGaps
<1>. QED BY <1>2, <1>3, <1>5, <1>6, <1>8 DEF n

LEMMA StartTestKeeps == ASSUME BotInv, NEW w \in Handlers, StartTest(w) PROVE BotInv'
<1> DEFINE s == job[w].todo
           n == Len(tests) + 1
           found == [test |-> n, pos |-> 0]
           starts == Seen(w).user /\ Seen(w).form = {"name", "team"}
<1>1. /\ BotTypeOK /\ SweeperReady /\ Active(w) /\ Head(s) = "start_test"
      /\ UNCHANGED <<chat, botHistory>>
      /\ \/ /\ starts /\ tests' = Append(tests, NewTest)
            /\ Continue(w, <<"say", "resume_write">>, job[w].seen, found)
         \/ ~starts /\ Stop(w) /\ UNCHANGED tests
  BY DEF BotInv, StartTest, Calling, Active, Find, Seen
<1>2. /\ \A more : Rest(w, more) = more
      /\ Head(s) \in LastCalls /\ Head(s) \notin Resets /\ w \notin sweeper
      /\ ~Has(s, "resume_write") /\ Has(s, "start_test")
      /\ job[w].seen \in Chats /\ tests \in Seq(TestRows)
  <2>1. Head(s) \in LastCalls
    BY <1>1 DEF LastCalls
  <2>. QED BY <1>1, <2>1, ActiveHas, LastCallIs DEF BotTypeOK
<1>3. CASE ~starts
  <2>1. job' = [job EXCEPT ![w] = job'[w]] /\ GoodJob(job'[w]) /\ ~Active(w)'
    BY <1>1, <1>3, StopIs
  <2>. QED BY <1>1, <1>2, <1>3, <2>1, StillKeeps
<1>4. CASE starts
  <2> DEFINE more == <<"say", "resume_write">>
  <2>1. IsRun(more) /\ \A call : Has(more, call) <=> call \in {"say", "resume_write"}
    BY TwoCalls, BeforeSpecial DEF AllCalls, Abandons
  <2>2. ~Reads(more)
    BY <2>1 DEF Reads, Has, SeenReaders
  <2> HIDE DEF more
  <2>3. /\ tests' \in Seq(TestRows) /\ OpenCount' = OpenCount + 1
        /\ n \in OpenTests' /\ n \in Nat
        /\ n \in DOMAIN tests' /\ tests'[n].status # "abandoned"
        /\ \A q \in Questions : q < 0 => q \in tests'[n].answered
        /\ NoGaps => NoGaps'
    <3>1. tests' = Append(tests, NewTest)
      BY <1>1, <1>4
    <3>. QED BY <1>2, <3>1, NewTestIs
  <2>4. found \in [test : Nat, pos : 0..End] /\ found.test = n /\ found.pos = 0
    BY <2>3, NoJobIsGood
  <2> HIDE DEF found, n
  <2>5. /\ job' = [job EXCEPT ![w] = job'[w]]
        /\ GoodJob(job'[w]) /\ job'[w].todo = more /\ job'[w].found = found
    <3>1. Continue(w, more, job[w].seen, found)
      BY <1>1, <1>4 DEF more
    <3>2. ~Has(more, "save") /\ ~Has(more, "advance") /\ Has(more, "resume_write")
      BY <2>1
    <3>. QED BY <1>1, <1>2, <2>1, <2>4, <3>1, <3>2, ContinueIs
  <2>6. BotTypeOK' /\ \A v \in Handlers \ {w} : job'[v] = job[v]
    <3>1. /\ chat' \in Chats /\ sweeper' \subseteq sweeper
          /\ crossed' \in BOOLEAN /\ sendFaults' \in Nat
      BY <1>1 DEF BotTypeOK, botHistory
    <3>. QED BY <1>1, <2>3, <2>5, <3>1, TypeKeeps
  <2>7. SweeperReady'
    <3>1. sweeper' \subseteq sweeper
      BY <1>1 DEF botHistory
    <3>. QED BY <1>1, <1>2, <2>6, <3>1, SweeperKeeps
  <2>8. ASSUME Calm PROVE Calm'
    <3>1. Alone(w) /\ Fits(w)
      BY <1>1, <2>8, CalmHas
    <3>2. chat.state = "awaiting_sales_model"
      BY <1>2, <3>1 DEF Fits
    <3>3. job[w].seen = chat
      <4>1. Reads(s)
        BY <1>1, <1>2, ActiveHas, RunTail DEF SeenReaders
      <4>. QED BY <3>1, <4>1 DEF Fits
    <3>4. chat.user /\ OpenCount <= sendFaults
      <4>1. chat.state \in TestStates
        BY <3>2 DEF TestStates
      <4>. QED BY <1>1, <1>2, <1>4, <2>8, <3>3, <4>1, CalmHas DEF Seen
    <3>5. OpenCount \in Nat /\ sendFaults \in Nat
      BY <1>1, <1>2, OpenAreFew DEF BotTypeOK
    <3>6. chat' = chat /\ OpenCount' <= 1 + sendFaults'
      BY <1>1, <2>3, <3>4, <3>5 DEF botHistory
    <3>7. Fits(w)'
      <4>1. Backed(job[w].found.test, job[w].found.pos)'
        BY <2>3, <2>4, <2>5 DEF Backed
      <4>. QED BY <2>1, <2>2, <2>3, <2>4, <2>5, <4>1 DEF Fits
    <3>8. Has(job'[w].todo, "resume_write")
      BY <2>1, <2>5
    <3>9. NoGaps'
      BY <2>3, <2>8 DEF Calm
    <3>. QED BY <2>6, <3>1, <3>2, <3>4, <3>6, <3>7, <3>8, <3>9, CalmKeeps
  <2>. QED BY <1>1, <2>6, <2>7, <2>8 DEF BotInv, botHistory
<1>. QED BY <1>3, <1>4

LEMMA SaveKeeps == ASSUME BotInv, NEW w \in Handlers, Save(w) PROVE BotInv'
<1> DEFINE s == job[w].todo
           t == job[w].seen.test
           pos == job[w].seen.pos
           row == [status |-> "open", answered |-> tests[t].answered \cup {pos}]
<1>1. /\ BotTypeOK /\ SweeperReady /\ Active(w) /\ Head(s) = "save"
      /\ UNCHANGED <<chat, botHistory>>
      /\ \/ tests[t].status = "completed" /\ Stop(w) /\ UNCHANGED tests
         \/ /\ tests[t].status # "completed" /\ tests' = [tests EXCEPT ![t] = row]
            /\ Continue(w, <<>>, job[w].seen, job[w].found)
  BY DEF BotInv, Save, Calling, Active, Then, Seen
<1>2. /\ IsRun(s) /\ s # <<>> /\ job[w].seen \in Chats /\ Has(s, "save")
      /\ job[w].found \in [test : Nat, pos : 0..End] /\ Rest(w, <<>>) = Tail(s)
      /\ pos \in Questions /\ tests \in Seq(TestRows)
  BY <1>1, ActiveHas DEF Rest, BotTypeOK, GoodJob
<1>3. /\ \A call : Has(Tail(s), call) => Has(s, call) /\ "save" \in Before(call)
      /\ Reads(Tail(s)) => Reads(s)
      /\ \A call : Has(s, call) => call = "save" \/ Has(Tail(s), call)
      /\ Reads(s)
  BY <1>1, <1>2, RunTail DEF SeenReaders
<1>4. /\ \A call \in (Special \cup {"abandon_all"}) \ {"advance"} : ~Has(Tail(s), call)
      /\ ~Has(s, "resume_write")
  <2>1. \A call \in (Special \cup {"abandon_all"}) \ {"advance"} : "save" \notin Before(call)
    BY DEF Special, Before
  <2>. QED BY <1>3, <2>1 DEF Special
<1>5. w \notin sweeper /\ Head(s) \notin Resets
  BY <1>1, SweeperHead DEF Resets
<1>6. CASE tests[t].status = "completed"
  <2>1. job' = [job EXCEPT ![w] = job'[w]] /\ GoodJob(job'[w]) /\ ~Active(w)'
    BY <1>1, <1>6, StopIs
  <2>. QED BY <1>1, <1>4, <1>5, <1>6, <2>1, StillKeeps
<1>7. CASE tests[t].status # "completed"
  <2>1. /\ job' = [job EXCEPT ![w] = job'[w]]
        /\ GoodJob(job'[w]) /\ job'[w].todo = Tail(s)
        /\ Reads(Tail(s)) => job'[w].seen = job[w].seen
    <3>1. Continue(w, <<>>, job[w].seen, job[w].found)
      BY <1>1, <1>7
    <3>2. Has(Tail(s), "save") \/ Has(Tail(s), "advance") => job[w].seen.pos \in Questions
      BY <1>2
    <3>3. /\ BotTypeOK /\ Active(w) /\ IsRun(<<>>) /\ Rest(w, <<>>) = Tail(s)
          /\ job[w].seen \in Chats /\ job[w].found \in [test : Nat, pos : 0..End]
      BY <1>1, <1>2, NoCalls
    <3>. QED BY <3>1, <3>2, <3>3, TailIsLeft
  <2>2. t \in DOMAIN tests => row \in TestRows
    <3>1. SUFFICES ASSUME t \in DOMAIN tests PROVE row \in TestRows
      OBVIOUS
    <3>2. tests[t] \in TestRows
      BY <1>2, <3>1
    <3>3. tests[t].answered \in SUBSET Questions
      BY <3>2 DEF TestRows
    <3>. QED BY <1>2, <3>3 DEF TestRows
  <2>3. /\ tests' \in Seq(TestRows) /\ DOMAIN tests' = DOMAIN tests
        /\ t \in DOMAIN tests => tests'[t] = row
        /\ \A n \in DOMAIN tests \ {t} : tests'[n] = tests[n]
    BY <1>1, <1>2, <1>7, <2>2, TestIs
  <2>4. BotTypeOK' /\ \A v \in Handlers \ {w} : job'[v] = job[v]
    <3>1. /\ chat' \in Chats /\ sweeper' \subseteq sweeper
          /\ crossed' \in BOOLEAN /\ sendFaults' \in Nat
      BY <1>1 DEF BotTypeOK, botHistory
    <3>. QED BY <1>1, <2>1, <2>3, <3>1, TypeKeeps
  <2>5. SweeperReady'
    <3>1. sweeper' \subseteq sweeper
      BY <1>1 DEF botHistory
    <3>. QED BY <1>1, <1>5, <2>4, <3>1, SweeperKeeps
  <2>6. ASSUME Calm PROVE Calm'
    <3>1. /\ Alone(w) /\ Fits(w)
          /\ OpenCount <= 1 + sendFaults
          /\ ~chat.user => OpenCount <= sendFaults
      BY <1>1, <2>6, CalmHas
    <3>2. job[w].seen = chat /\ chat.state = "answering_questions"
      BY <1>2, <1>3, <3>1 DEF Fits
    <3>3. Backed(t, pos)
      BY <1>1, <1>5, <2>6, <3>2, CalmHas
    <3>4. t \in DOMAIN tests /\ tests[t] \in TestRows /\ tests[t].status = "open"
      <4>1. t \in DOMAIN tests /\ tests[t].status # "abandoned"
        BY <3>3 DEF Backed
      <4>2. tests[t] \in TestRows
        BY <1>2, <4>1
      <4>. QED BY <1>7, <4>1, <4>2 DEF TestRows
    <3>5. /\ tests'[t].status = "open" /\ tests'[t].answered = tests[t].answered \cup {pos}
          /\ t \in DOMAIN tests'
      BY <2>3, <3>4
    <3>6. OpenTests' = OpenTests /\ OpenCount' = OpenCount
      <4>1. OpenTests' = OpenTests
        BY <2>3, <3>4, <3>5 DEF OpenTests
      <4>. QED BY <4>1 DEF OpenCount
    <3>7. chat' = chat /\ sendFaults' = sendFaults
      BY <1>1 DEF botHistory
    <3>8. Fits(w)'
      <4>1. chat'.pos \in tests'[chat'.test].answered
        BY <3>2, <3>5, <3>7
      <4>2. Reads(job'[w].todo) => job'[w].seen = chat'
        BY <2>1, <3>2, <3>7
      <4>. QED BY <1>4, <2>1, <3>2, <3>7, <4>1, <4>2 DEF Fits, Special
    <3>9. Backed(chat.test, chat.pos)'
      <4>1. \A q \in Questions : q < pos => q \in tests'[t].answered
        BY <3>3, <3>5 DEF Backed
      <4>. QED BY <3>2, <3>5, <3>7, <4>1 DEF Backed
    <3>10. NoGaps'
      <4>1. SUFFICES ASSUME NEW n \in OpenTests, NEW q \in tests'[n].answered,
                            NEW p \in Questions, p < q
                     PROVE  p \in tests'[n].answered
        BY <3>6 DEF NoGaps
      <4>2. CASE n = t /\ q = pos
        BY <3>3, <3>5, <4>1, <4>2 DEF Backed
      <4>3. CASE n = t /\ q # pos
        <5>1. t \in OpenTests /\ q \in tests[t].answered
          BY <3>5, <4>1, <4>3
        <5>2. p \in tests[t].answered
          BY <2>6, <4>1, <5>1 DEF Calm, NoGaps
        <5>. QED BY <3>5, <4>3, <5>2
      <4>4. CASE n # t
        <5>1. tests'[n] = tests[n]
          BY <2>3, <4>1, <4>4 DEF OpenTests
        <5>. QED BY <2>6, <4>1, <5>1 DEF Calm, NoGaps
      <4>. QED BY <4>2, <4>3, <4>4
    <3>11. chat'.state \notin TestStates
      BY <3>2, <3>7 DEF TestStates
    <3>. QED BY <2>4, <3>1, <3>6, <3>7, <3>8, <3>9, <3>10, <3>11, CalmKeeps
  <2>. QED BY <1>1, <2>4, <2>5, <2>6 DEF BotInv, botHistory
<1>. QED BY <1>6, <1>7

LEMMA FinishKeeps == ASSUME BotInv, NEW w \in Handlers, Finish(w) PROVE BotInv'
<1> DEFINE s == job[w].todo
           t == job[w].seen.test
           ends == t # 0 /\ (tests[t].status = "completed" \/ tests[t].answered = Questions)
<1>1. /\ BotTypeOK /\ SweeperReady /\ Active(w) /\ Head(s) = "finish"
      /\ UNCHANGED <<chat, botHistory>>
      /\ \/ ends /\ SetStatus(t, "completed") /\ Continue(w, <<>>, job[w].seen, job[w].found)
         \/ ~ends /\ Stop(w) /\ UNCHANGED tests
  BY DEF BotInv, Finish, Calling, Active, Then, Seen
<1>2. /\ IsRun(s) /\ s # <<>> /\ job[w].seen \in Chats
      /\ job[w].found \in [test : Nat, pos : 0..End] /\ Rest(w, <<>>) = Tail(s)
      /\ tests \in Seq(TestRows)
  BY <1>1, ActiveHas DEF Rest, BotTypeOK
<1>3. /\ \A call \in Special \cup {"abandon_all"} : ~Has(Tail(s), call)
      /\ Reads(Tail(s)) => Reads(s)
      /\ ~Has(s, "resume_write")
  <2>1. \A call \in Special \cup {"abandon_all"} : ~Has(Tail(s), call)
    BY <1>1, <1>2, PlainAfter
  <2>. QED BY <1>1, <1>2, <2>1, RunTail DEF Special
<1>4. w \notin sweeper /\ Head(s) \notin Resets
  BY <1>1, SweeperHead DEF Resets
<1>5. CASE ~ends
  <2>1. job' = [job EXCEPT ![w] = job'[w]] /\ GoodJob(job'[w]) /\ ~Active(w)'
    BY <1>1, <1>5, StopIs
  <2>. QED BY <1>1, <1>3, <1>4, <1>5, <2>1, StillKeeps
<1>6. CASE ends
  <2>1. /\ job' = [job EXCEPT ![w] = job'[w]]
        /\ GoodJob(job'[w]) /\ job'[w].todo = Tail(s)
        /\ Reads(Tail(s)) => job'[w].seen = job[w].seen
    <3>1. Continue(w, <<>>, job[w].seen, job[w].found)
      BY <1>1, <1>6
    <3>2. ~Has(Tail(s), "save") /\ ~Has(Tail(s), "advance")
      BY <1>3 DEF Special
    <3>. QED BY <1>1, <1>2, <3>1, <3>2, NoCalls, ContinueIs
  <2>2. /\ tests' \in Seq(TestRows) /\ DOMAIN tests' = DOMAIN tests
        /\ \A n \in DOMAIN tests : /\ tests'[n].answered = tests[n].answered
                                   /\ tests'[n].status = "open" => tests[n].status = "open"
                                   /\ tests'[n].status = "abandoned" => tests[n].status = "abandoned"
    <3>1. CASE t \in DOMAIN tests
      BY <1>1, <1>2, <1>6, <3>1, StatusIs
    <3>2. CASE t \notin DOMAIN tests
      <4>1. tests' = tests
        BY <1>1, <1>2, <1>6, <3>2 DEF SetStatus
      <4>. QED BY <1>2, <4>1
    <3>. QED BY <3>1, <3>2
  <2>3. /\ OpenCount' <= OpenCount /\ (NoGaps => NoGaps')
        /\ OpenCount \in Nat /\ OpenCount' \in Nat
    BY <1>2, <2>2, FewerOpen
  <2>4. BotTypeOK' /\ \A v \in Handlers \ {w} : job'[v] = job[v]
    <3>1. /\ chat' \in Chats /\ sweeper' \subseteq sweeper
          /\ crossed' \in BOOLEAN /\ sendFaults' \in Nat
      BY <1>1 DEF BotTypeOK, botHistory
    <3>. QED BY <1>1, <2>1, <2>2, <3>1, TypeKeeps
  <2>5. SweeperReady'
    <3>1. sweeper' \subseteq sweeper
      BY <1>1 DEF botHistory
    <3>. QED BY <1>1, <1>4, <2>4, <3>1, SweeperKeeps
  <2>6. ASSUME Calm PROVE Calm'
    <3>1. /\ Alone(w) /\ Fits(w) /\ OpenCount <= 1 + sendFaults
          /\ chat.state = "answering_questions" => Backed(chat.test, chat.pos)
          /\ ~chat.user => OpenCount <= sendFaults
          /\ chat.state \in TestStates => OpenCount <= sendFaults
      BY <1>1, <1>3, <1>4, <2>6, CalmHas
    <3>2. chat' = chat /\ sendFaults' = sendFaults /\ sendFaults \in Nat
      BY <1>1 DEF botHistory, BotTypeOK
    <3>3. Fits(w)'
      <4>1. Reads(job'[w].todo) => job'[w].seen = chat'
        BY <1>3, <2>1, <3>1, <3>2 DEF Fits
      <4>. QED BY <1>3, <2>1, <4>1 DEF Fits, Special
    <3>4. chat'.state = "answering_questions" => Backed(chat.test, chat.pos)'
      BY <2>2, <3>1, <3>2 DEF Backed
    <3>5. /\ OpenCount' <= 1 + sendFaults'
          /\ ~chat'.user => OpenCount' <= sendFaults'
          /\ chat'.state \in TestStates => OpenCount' <= sendFaults'
      BY <2>3, <3>1, <3>2
    <3>6. NoGaps'
      BY <2>3, <2>6 DEF Calm
    <3>. QED BY <2>4, <3>1, <3>3, <3>4, <3>5, <3>6, CalmKeeps
  <2>. QED BY <1>1, <2>4, <2>5, <2>6 DEF BotInv, botHistory
<1>. QED BY <1>5, <1>6

-----------------------------------------------------------------------------
(* Steps that write the row                                                *)

\* What must be true of the row a handler writes, when it goes on with rest.
RowSuits(row, rest) ==
  /\ Has(rest, "set_team_size") => row.state = "awaiting_business_name"
  /\ Has(rest, "set_sales_model") => row.state = "awaiting_team_size"
  /\ row.state = "answering_questions" => Backed(row.test, row.pos)
  /\ ~row.user \/ row.state \in TestStates => OpenCount <= sendFaults

\* A fresh start that writes clears what went wrong before: no test is open any
\* more.  Any other row must suit what is there.
LEMMA RowKeeps ==
  ASSUME BotInv, NEW w \in Handlers, Active(w), NEW row \in Chats, NEW more, IsRun(more),
         more = <<>> \/ Head(job[w].todo) \in LastCalls, WriteRow(w, row, more),
         \A call \in Special \ {"set_team_size", "set_sales_model"} : ~Has(Rest(w, more), call),
         w \in sweeper =>
           row.state # "answering_questions" /\ OpenTests = {}
           /\ \A call \in Special : ~Has(Rest(w, more), call),
         Calm => RowSuits(row, Rest(w, more))
  PROVE  BotInv'
<1> DEFINE rest == Rest(w, more)
<1>1. /\ BotTypeOK /\ SweeperReady /\ chat' = row /\ UNCHANGED <<tests, overlaps>>
      /\ crossed' = (crossed /\ w \notin sweeper)
      /\ sendFaults' = IF w \in sweeper THEN 0 ELSE sendFaults
      /\ sweeper' = sweeper \ {w} /\ Continue(w, more, row, job[w].found)
  BY DEF BotInv, WriteRow
<1>2. /\ job' = [job EXCEPT ![w] = job'[w]]
      /\ GoodJob(job'[w]) /\ job'[w].todo = rest
      /\ Reads(rest) => job'[w].seen = row
  <2>1. ~Has(rest, "save") /\ ~Has(rest, "advance")
    BY DEF Special
  <2>2. job[w].found \in [test : Nat, pos : 0..End]
    BY <1>1, ActiveHas
  <2>. QED BY <1>1, <2>1, <2>2, ContinueIs
<1> HIDE DEF rest
<1>3. BotTypeOK' /\ \A v \in Handlers \ {w} : job'[v] = job[v]
  <2>1. /\ chat' \in Chats /\ tests' \in Seq(TestRows) /\ sweeper' \subseteq sweeper
        /\ crossed' \in BOOLEAN /\ sendFaults' \in Nat
    BY <1>1 DEF BotTypeOK
  <2>. QED BY <1>1, <1>2, <2>1, TypeKeeps
<1>4. SweeperReady'
  <2>1. sweeper' \subseteq sweeper /\ w \notin sweeper'
    BY <1>1
  <2>. QED BY <1>1, <1>3, <2>1, SweeperKeeps
<1>5. OpenTests' = OpenTests /\ OpenCount' = OpenCount /\ OpenCount \in Nat
      /\ sendFaults \in Nat /\ (OpenTests = {} => OpenCount = 0)
  <2>1. OpenTests' = OpenTests
    BY <1>1 DEF OpenTests
  <2>2. OpenCount' = OpenCount
    BY <2>1 DEF OpenCount
  <2>. QED BY <1>1, <2>1, <2>2, OpenAreFew DEF BotTypeOK
<1>6. Reads(job'[w].todo) => job'[w].seen = chat'
  BY <1>1, <1>2
<1>7. CASE w \in sweeper
  <2>1. sendFaults' = 0 /\ OpenCount' = 0 /\ OpenTests' = {}
    BY <1>1, <1>5, <1>7
  <2>2. Fits(w)'
    <3>1. \A call \in Special : ~Has(job'[w].todo, call)
      BY <1>2, <1>7 DEF rest
    <3>. QED BY <1>6, <3>1 DEF Fits, Special
  <2>3. NoGaps'
    BY <2>1 DEF NoGaps
  <2>4. Alone(w) /\ chat'.state # "answering_questions"
    BY <1>1, <1>7 DEF SweeperReady
  <2>5. OpenCount' <= 1 + sendFaults' /\ OpenCount' <= sendFaults'
    BY <2>1
  <2>6. Calm'
    BY <1>3, <2>2, <2>3, <2>4, <2>5, CalmKeeps
  <2>. QED BY <1>3, <1>4, <2>6 DEF BotInv
<1>8. CASE w \notin sweeper
  <2>1. sendFaults' = sendFaults /\ crossed' = crossed
    BY <1>1, <1>8 DEF BotTypeOK
  <2>2. ASSUME Calm PROVE Calm'
    <3>1. Alone(w) /\ OpenCount <= 1 + sendFaults /\ RowSuits(row, rest)
      BY <1>1, <2>2, CalmHas DEF rest
    <3>2. Fits(w)'
      <4>1. \A call \in Special \ {"set_team_size", "set_sales_model"} : ~Has(job'[w].todo, call)
        BY <1>2 DEF rest
      <4>. QED BY <1>1, <1>2, <1>6, <3>1, <4>1 DEF Fits, Special, RowSuits
    <3>3. chat'.state = "answering_questions" => Backed(chat.test, chat.pos)'
      BY <1>1, <3>1 DEF RowSuits, Backed
    <3>4. /\ OpenCount' <= 1 + sendFaults'
          /\ ~chat'.user \/ chat'.state \in TestStates => OpenCount' <= sendFaults'
      BY <1>1, <1>5, <2>1, <3>1 DEF RowSuits
    <3>5. NoGaps'
      BY <1>1, <1>5, <2>2 DEF Calm, NoGaps
    <3>. QED BY <1>3, <3>1, <3>2, <3>3, <3>4, <3>5, CalmKeeps
  <2>. QED BY <1>1, <1>3, <1>4, <2>1, <2>2 DEF BotInv
<1>. QED BY <1>7, <1>8

LEMMA RowAfterIs ==
  ASSUME chat \in Chats, NEW w, job[w].seen \in Chats, job[w].found \in [test : Nat, pos : 0..End],
         NEW call \in RowWrites
  PROVE  /\ RowAfter(w, call) \in Chats
         /\ RowAfter(w, call).state = "answering_questions" =>
              /\ call \notin Resets /\ chat.state = "answering_questions"
              /\ RowAfter(w, call).test = chat.test /\ RowAfter(w, call).pos = chat.pos
         /\ ~RowAfter(w, call).user =>
              ~chat.user \/ call = "forget" \/ (call = "reset" /\ ~job[w].seen.user)
         /\ RowAfter(w, call).state \in TestStates =>
              call \in {"set_new", "set_team_size", "set_sales_model"} \/ chat.state \in TestStates
         /\ call \in {"set_name", "set_team"} => RowAfter(w, call).state = chat.state
<1>1. /\ NewChat \in Chats /\ NewChat.state = "idle" /\ ~NewChat.user
      /\ NewChat = [state |-> "idle", user |-> FALSE, test |-> 0, pos |-> 0, form |-> {}]
      /\ job[w].found.test \in Nat /\ job[w].seen.user \in BOOLEAN /\ chat.user \in BOOLEAN
  BY NoJobIsGood DEF NewChat, Chats
<1>2. CASE call = "reset"
  <2>1. RowAfter(w, call) = [NewChat EXCEPT !.user = job[w].seen.user]
    BY <1>2 DEF RowAfter, Seen
  <2>. QED BY <1>1, <1>2, <2>1 DEF Chats, TestStates
<1>3. CASE call = "forget"
  <2>1. RowAfter(w, call) = NewChat
    BY <1>3 DEF RowAfter
  <2>. QED BY <1>1, <1>3, <2>1 DEF TestStates
<1>4. CASE call \in {"set_contact", "set_menu", "set_reports", "set_consult"}
  <2>1. \E state \in ChatStates \ (TestStates \cup {"answering_questions"}) :
          RowAfter(w, call) = [chat EXCEPT !.state = state]
    BY <1>4 DEF RowAfter, ChatStates, TestStates, ActiveTestStates
  <2>. QED BY <1>1, <1>4, <2>1 DEF Chats
<1>5. CASE call \in {"set_team_size", "set_sales_model"}
  <2>1. \E state \in TestStates \ {"answering_questions"} : RowAfter(w, call) = [chat EXCEPT !.state = state]
    BY <1>5 DEF RowAfter, TestStates
  <2>. QED BY <1>1, <1>5, <2>1 DEF Chats, TestStates, ChatStates, ActiveTestStates
<1>6. CASE call = "set_user"
  <2>1. RowAfter(w, call) = [chat EXCEPT !.user = TRUE]
    BY <1>6 DEF RowAfter
  <2>. QED BY <1>1, <1>6, <2>1 DEF Chats, Resets
<1>7. CASE call \in {"set_name", "set_team"}
  <2>1. \E more \in SUBSET {"name", "team"} : RowAfter(w, call) = [chat EXCEPT !.form = @ \cup more]
    BY <1>7 DEF RowAfter
  <2>. QED BY <1>1, <1>7, <2>1 DEF Chats, Resets
<1>8. CASE call \in {"set_new", "menu_write"}
  <2>1. \E state \in {"awaiting_business_name", "at_main_menu"}, test \in Nat :
          /\ RowAfter(w, call) = [state |-> state, user |-> chat.user, test |-> test, pos |-> 0, form |-> {}]
          /\ state = "awaiting_business_name" => call = "set_new"
    BY <1>1, <1>8 DEF RowAfter
  <2>. QED BY <1>1, <1>8, <2>1, NoJobIsGood DEF Chats, ChatStates, ActiveTestStates, TestStates
<1>. QED BY <1>2, <1>3, <1>4, <1>5, <1>6, <1>7, <1>8 DEF RowWrites

LEMMA UpdateConversationKeeps == ASSUME BotInv, NEW w \in Handlers, UpdateConversation(w) PROVE BotInv'
<1> DEFINE s == job[w].todo
           call == Head(s)
           row == RowAfter(w, call)
<1>1. /\ BotTypeOK /\ SweeperReady /\ Active(w) /\ call \in RowWrites
      /\ WriteRow(w, row, <<>>)
  BY DEF BotInv, UpdateConversation, Active
<1>2. /\ IsRun(s) /\ s # <<>> /\ Has(s, call) /\ Rest(w, <<>>) = Tail(s)
      /\ chat \in Chats /\ job[w].seen \in Chats /\ job[w].found \in [test : Nat, pos : 0..End]
  BY <1>1, ActiveHas DEF Rest, BotTypeOK
<1>3. /\ row \in Chats
      /\ row.state = "answering_questions" =>
           /\ call \notin Resets /\ chat.state = "answering_questions"
           /\ row.test = chat.test /\ row.pos = chat.pos
      /\ ~row.user => ~chat.user \/ call = "forget" \/ (call = "reset" /\ ~job[w].seen.user)
      /\ row.state \in TestStates =>
           call \in {"set_new", "set_team_size", "set_sales_model"} \/ chat.state \in TestStates
      /\ call \in {"set_name", "set_team"} => row.state = chat.state
  BY <1>1, <1>2, RowAfterIs
<1> HIDE DEF row
<1>4. /\ call \notin {"say", "abandon_all", "save"}
      /\ call \in SeenReaders => Reads(s)
      /\ \A c : Has(Tail(s), c) => Has(s, c) /\ call \in Before(c)
      /\ \A c : Has(s, c) => c = call \/ Has(Tail(s), c)
  <2>1. call \notin {"say", "abandon_all", "save", "resume_write"}
    BY <1>1 DEF RowWrites
  <2>. QED BY <1>2, <2>1, RunTail
<1>5. \A c \in Special \ {"set_team_size", "set_sales_model"} : ~Has(Tail(s), c)
  <2>1. \A c \in Special \ {"set_team_size", "set_sales_model"} : call \notin Before(c)
    BY <1>4 DEF Special, Before
  <2>. QED BY <1>4, <2>1
<1>6. /\ Has(Tail(s), "set_team_size") => call = "set_name"
      /\ Has(Tail(s), "set_sales_model") => call = "set_team"
      /\ ~Has(s, "abandon_all") /\ ~Has(s, "resume_write")
  <2>1. ~Has(Tail(s), "abandon_all") /\ ~Has(Tail(s), "resume_write")
    BY <1>4, <1>5, BeforeSpecial DEF Special
  <2>2. call # "resume_write"
    BY <1>1 DEF RowWrites
  <2>. QED BY <1>4, <2>1, <2>2, BeforeSpecial
<1>7. w \in sweeper =>
        /\ row.state # "answering_questions" /\ OpenTests = {}
        /\ \A c \in Special : ~Has(Tail(s), c)
  <2>1. SUFFICES ASSUME w \in sweeper
                 PROVE  /\ row.state # "answering_questions" /\ OpenTests = {}
                        /\ \A c \in Special : ~Has(Tail(s), c)
    OBVIOUS
  <2>2. call \in Resets /\ OpenTests = {}
    BY <1>1, <1>4, <2>1, SweeperHead
  <2>. QED BY <1>3, <1>5, <1>6, <2>2 DEF Resets
<1>8. Calm => RowSuits(row, Tail(s))
  <2>1. SUFFICES ASSUME Calm PROVE RowSuits(row, Tail(s))
    OBVIOUS
  <2>2. /\ Fits(w)
        /\ chat.state = "answering_questions" /\ call \notin Resets => Backed(chat.test, chat.pos)
        /\ chat.state \in TestStates => OpenCount <= sendFaults
        /\ ~chat.user => OpenCount <= sendFaults
    BY <1>1, <1>6, <2>1, CalmHas
  <2>3. row.state = "answering_questions" => Backed(row.test, row.pos)
    BY <1>3, <2>2
  <2>4. call \in {"set_new", "forget"} => OpenCount <= sendFaults
    BY <1>2, <1>6, <2>2 DEF Fits
  <2>5. call = "reset" => job[w].seen = chat
    BY <1>4, <2>2 DEF Fits, SeenReaders
  <2>6. ~row.user => OpenCount <= sendFaults
    BY <1>3, <2>2, <2>4, <2>5
  <2>7. call \in {"set_team_size", "set_sales_model"} => chat.state \in TestStates
    BY <1>2, <2>2 DEF Fits, TestStates
  <2>8. row.state \in TestStates => OpenCount <= sendFaults
    BY <1>3, <2>2, <2>4, <2>7
  <2>9. /\ Has(Tail(s), "set_team_size") => row.state = "awaiting_business_name"
        /\ Has(Tail(s), "set_sales_model") => row.state = "awaiting_team_size"
    BY <1>3, <1>4, <1>6, <2>2 DEF Fits
  <2>. QED BY <2>3, <2>6, <2>8, <2>9 DEF RowSuits
<1>. QED BY <1>1, <1>2, <1>3, <1>5, <1>7, <1>8, NoCalls, RowKeeps

LEMMA ResumeWriteKeeps == ASSUME BotInv, NEW w \in Handlers, ResumeWrite(w) PROVE BotInv'
<1> DEFINE s == job[w].todo
           found == job[w].found
           row == [chat EXCEPT !.state = "answering_questions", !.test = found.test, !.pos = found.pos]
           more == Ask(row)
<1>1. /\ BotTypeOK /\ SweeperReady /\ Active(w) /\ Head(s) = "resume_write"
      /\ WriteRow(w, row, more)
  BY DEF BotInv, ResumeWrite, Calling, Active
<1>2. /\ \A m : Rest(w, m) = m
      /\ Head(s) \in LastCalls /\ w \notin sweeper
      /\ Has(s, "resume_write") /\ chat \in Chats /\ found \in [test : Nat, pos : 0..End]
  <2>1. Head(s) \in LastCalls
    BY <1>1 DEF LastCalls
  <2>. QED BY <1>1, <2>1, ActiveHas, LastCallIs DEF BotTypeOK
<1>3. IsRun(more) /\ \A call \in Special : ~Has(more, call)
  BY AskIs
<1>4. /\ row \in Chats /\ row.state = "answering_questions" /\ row.user = chat.user
      /\ row.test = found.test /\ row.pos = found.pos
  BY <1>2 DEF Chats, ChatStates, ActiveTestStates
<1> HIDE DEF more, row
<1>5. Calm => RowSuits(row, more)
  <2>1. SUFFICES ASSUME Calm PROVE RowSuits(row, more)
    OBVIOUS
  <2>2. Fits(w) /\ (~chat.user => OpenCount <= sendFaults)
    BY <1>1, <2>1, CalmHas
  <2>3. Backed(row.test, row.pos)
    BY <1>2, <1>4, <2>2 DEF Fits
  <2>. QED BY <1>3, <1>4, <2>2, <2>3 DEF RowSuits, Special, TestStates
<1>. QED BY <1>1, <1>2, <1>3, <1>4, <1>5, RowKeeps

LEMMA AdvanceKeeps == ASSUME BotInv, NEW w \in Handlers, Advance(w) PROVE BotInv'
<1> DEFINE s == job[w].todo
           pos == job[w].seen.pos
           row == [chat EXCEPT !.pos = pos + 1]
           more == Ask(row)
<1>1. /\ BotTypeOK /\ SweeperReady /\ Active(w) /\ Head(s) = "advance"
      /\ WriteRow(w, row, more)
  BY DEF BotInv, Advance, Calling, Active, Seen
<1>2. /\ \A m : Rest(w, m) = m
      /\ Head(s) \in LastCalls /\ Head(s) \notin Resets /\ w \notin sweeper
      /\ Has(s, "advance") /\ ~Has(s, "save") /\ chat \in Chats /\ pos \in Questions
      /\ Reads(s)
  <2>1. Head(s) \in LastCalls /\ Head(s) \in SeenReaders \ {"resume_write"}
    BY <1>1 DEF LastCalls, SeenReaders
  <2>. QED BY <1>1, <2>1, ActiveHas, LastCallIs, RunTail DEF BotTypeOK, GoodJob
<1>3. IsRun(more) /\ \A call \in Special : ~Has(more, call)
  BY AskIs
<1>4. /\ row \in Chats /\ row.state = chat.state /\ row.user = chat.user
      /\ row.test = chat.test /\ row.pos = pos + 1
  <2>1. pos + 1 \in 0..End /\ chat.pos \in 0..End
    BY <1>2, NoJobIsGood DEF Questions, End, Chats
  <2>. QED BY <1>2, <2>1 DEF Chats
<1> HIDE DEF more, row
<1>5. Calm => RowSuits(row, more)
  <2>1. SUFFICES ASSUME Calm PROVE RowSuits(row, more)
    OBVIOUS
  <2>2. /\ Fits(w) /\ (~chat.user => OpenCount <= sendFaults)
        /\ chat.state = "answering_questions" => Backed(chat.test, chat.pos)
    BY <1>1, <1>2, <2>1, CalmHas
  <2>3. /\ chat.state = "answering_questions" /\ pos = chat.pos
        /\ chat.pos \in tests[chat.test].answered
    BY <1>2, <2>2 DEF Fits
  <2>4. Backed(row.test, row.pos)
    <3>1. \A q \in Questions : q < pos + 1 => q < pos \/ q = pos
      BY <1>2, NoJobIsGood DEF Questions
    <3>. QED BY <1>4, <2>2, <2>3, <3>1 DEF Backed
  <2>. QED BY <1>3, <1>4, <2>2, <2>3, <2>4 DEF RowSuits, Special, TestStates
<1>. QED BY <1>1, <1>2, <1>3, <1>4, <1>5, RowKeeps

-----------------------------------------------------------------------------
(* Handlers that begin and die                                             *)

LEMMA BeginKeeps ==
  ASSUME BotInv, NEW w \in Handlers, NEW calls, NEW sweeps \in BOOLEAN, Begin(w, calls, sweeps),
         IsRun(calls), Suits(calls, chat), sweeps => Has(calls, "abandon_all")
  PROVE  BotInv'
<1> DEFINE quiet == \A v \in Handlers : job[v] = NoJob
           r == [todo |-> calls, seen |-> chat, found |-> NothingFound]
<1>1. /\ BotTypeOK /\ SweeperReady /\ UNCHANGED <<chat, tests, sendFaults>> /\ calls # <<>>
      /\ job[w] = NoJob /\ job' = [job EXCEPT ![w] = r] /\ crossed' = (crossed \/ ~quiet)
      /\ sweeper' = IF quiet /\ sweeps THEN {w} ELSE {}
  BY DEF BotInv, Begin
<1>2. /\ job' = [job EXCEPT ![w] = job'[w]]
      /\ job'[w].todo = calls /\ job'[w].seen = chat' /\ GoodJob(job'[w])
  <2>1. job'[w] = r
    BY <1>1 DEF BotTypeOK
  <2>2. r \in JobRecords /\ r.todo = calls /\ r.seen = chat
    BY <1>1, NoJobIsGood DEF JobRecords, NothingFound, BotTypeOK, IsRun
  <2>3. Has(calls, "save") \/ Has(calls, "advance") => chat.pos \in Questions
    BY DEF Suits
  <2> HIDE DEF r
  <2>. QED BY <1>1, <2>1, <2>2, <2>3 DEF GoodJob
<1>3. \A v \in Handlers \ {w} : job'[v] = job[v]
  BY <1>1 DEF BotTypeOK
<1> HIDE DEF r
<1>4. BotTypeOK'
  <2>1. job' \in [Handlers -> JobRecords]
    <3>1. job'[w] \in JobRecords
      BY <1>2 DEF GoodJob
    <3>2. job' = [v \in Handlers |-> job'[v]]
      BY <1>1 DEF BotTypeOK
    <3>3. \A v \in Handlers : job'[v] \in JobRecords
      BY <1>1, <1>3, <3>1 DEF BotTypeOK
    <3>. QED BY <3>2, <3>3
  <2>2. \A v \in Handlers : GoodJob(job'[v])
    BY <1>1, <1>2, <1>3 DEF BotTypeOK
  <2>3. sweeper' \subseteq Handlers /\ crossed' \in BOOLEAN
    BY <1>1
  <2>. QED BY <1>1, <2>1, <2>2, <2>3 DEF BotTypeOK
<1>5. CASE ~quiet
  <2>1. sweeper' = {} /\ crossed'
    BY <1>1, <1>5
  <2>. QED BY <1>4, <2>1 DEF BotInv, SweeperReady
<1>6. CASE quiet
  <2>1. Alone(w) /\ Alone(w)'
    BY <1>3, <1>6 DEF Alone
  <2>2. SweeperReady'
    <3>1. w \in sweeper' => Has(job'[w].todo, "abandon_all")
      BY <1>1, <1>2
    <3>2. sweeper' \subseteq {w}
      BY <1>1
    <3>. QED BY <1>2, <2>1, <3>1, <3>2 DEF SweeperReady
  <2>3. ASSUME Calm PROVE Calm'
    <3>1. OpenTests' = OpenTests /\ OpenCount' = OpenCount
      BY <1>1 DEF OpenTests, OpenCount
    <3>2. Backed(chat.test, chat.pos)' <=> Backed(chat.test, chat.pos)
      BY <1>1 DEF Backed
    <3>3. /\ \A v \in Handlers : ~Resetting(v)
          /\ \A v \in Handlers : ~Has(job[v].todo, "resume_write")
      BY <1>6, NoJobIsGood DEF Resetting, Active
    <3>4. /\ chat'.state = "answering_questions" => Backed(chat.test, chat.pos)'
          /\ OpenCount' <= 1 + sendFaults' /\ (~chat'.user => OpenCount' <= sendFaults')
          /\ chat'.state \in TestStates => OpenCount' <= sendFaults'
      BY <1>1, <2>3, <3>1, <3>2, <3>3 DEF Calm, PositionBacked, TestsBounded
    <3>5. Fits(w)'
      BY <1>1, <1>2, <3>4 DEF Fits, Suits
    <3>6. NoGaps'
      BY <1>1, <2>3, <3>1 DEF Calm, NoGaps
    <3>. QED BY <1>3, <2>1, <3>4, <3>5, <3>6, CalmKeeps
  <2>. QED BY <1>1, <1>4, <1>6, <2>2, <2>3 DEF BotInv
<1>. QED BY <1>5, <1>6

LEMMA ArrivalKeeps ==
  ASSUME BotInv, NEW w \in Handlers, UpdateArrives(w) \/ OptionArrives(w) PROVE BotInv'
<1>1. chat \in Chats /\ chat.user \in BOOLEAN
  BY DEF BotInv, BotTypeOK, Chats
<1>2. CASE UpdateArrives(w)
  <2>1. PICK u \in Updates : Begin(w, Calls(u, chat), u \in {"new", "fresh", "reset"} /\ chat.user)
    BY <1>2 DEF UpdateArrives
  <2>2. /\ IsRun(Calls(u, chat)) /\ Suits(Calls(u, chat), chat)
        /\ u \in {"new", "fresh", "reset"} /\ chat.user => Has(Calls(u, chat), "abandon_all")
    BY <1>1, CallsAre
  <2>. QED BY <2>1, <2>2, BeginKeeps
<1>3. CASE OptionArrives(w)
  <2>1. PICK q \in Questions : Begin(w, OptionCalls(q, chat), FALSE)
    BY <1>3 DEF OptionArrives
  <2>2. IsRun(OptionCalls(q, chat)) /\ Suits(OptionCalls(q, chat), chat)
    BY <1>1, OptionIs
  <2>. QED BY <2>1, <2>2, BeginKeeps
<1>. QED BY <1>2, <1>3

LEMMA HandlerDiesKeeps == ASSUME BotInv, NEW w \in Handlers, HandlerDies(w) PROVE BotInv'
<1>1. /\ BotTypeOK /\ SweeperReady /\ Active(w) /\ crossed' = TRUE /\ Stop(w)
      /\ UNCHANGED <<chat, tests, sweeper, sendFaults>>
  BY DEF BotInv, HandlerDies, Active
<1>2. job' = [job EXCEPT ![w] = job'[w]] /\ GoodJob(job'[w]) /\ ~Active(w)'
  BY <1>1, StopIs
<1>3. BotTypeOK' /\ \A v \in Handlers \ {w} : job'[v] = job[v]
  <2>1. /\ chat' \in Chats /\ tests' \in Seq(TestRows) /\ sweeper' \subseteq sweeper
        /\ crossed' \in BOOLEAN /\ sendFaults' \in Nat
    BY <1>1 DEF BotTypeOK
  <2>. QED BY <1>1, <1>2, <2>1, TypeKeeps
<1>4. SweeperReady'
  BY <1>1, <1>2, <1>3, SweeperKeeps
<1>. QED BY <1>1, <1>3, <1>4 DEF BotInv

LEMMA StutterKeeps == ASSUME BotInv, UNCHANGED botVars PROVE BotInv'
<1>1. UNCHANGED <<chat, tests, job, sweeper, crossed, sendFaults>>
  BY DEF botVars, botHistory
<1>. QED BY <1>1 DEF BotInv, BotTypeOK, SweeperReady, Calm, Alone, Active, Fits, PositionBacked,
                    Resetting, Backed, TestsBounded, NoGaps, OpenTests, OpenCount

LEMMA BotInvInit == BotInit => BotInv
<1>1. SUFFICES ASSUME BotInit PROVE BotInv
  OBVIOUS
<1>2. job = [w \in Handlers |-> NoJob] /\ sweeper = {} /\ crossed = FALSE /\ sendFaults = 0
  BY <1>1 DEF BotInit
<1>3. NewTest \in TestRows
  BY DEF NewTest, TestRows
<1>4. /\ tests \in Seq(TestRows) /\ tests \in {<<>>, <<NewTest>>}
      /\ ~chat.user => tests = <<>>
      /\ chat \in Chats /\ chat.state \in {"idle", "at_main_menu"}
  <2>1. CASE chat = NewChat /\ tests = <<>>
    BY <2>1, NoJobIsGood DEF NewChat
  <2>2. CASE /\ chat = [NewChat EXCEPT !.user = TRUE, !.state = "at_main_menu"]
             /\ tests \in {<<>>, <<NewTest>>}
    <3>1. chat \in Chats /\ chat.user /\ chat.state = "at_main_menu"
      BY <2>2, NoJobIsGood DEF NewChat, Chats, ChatStates
    <3>2. <<>> \in Seq(TestRows) /\ <<NewTest>> \in Seq(TestRows)
      BY <1>3
    <3>. QED BY <2>2, <3>1, <3>2
  <2>. QED BY <1>1, <2>1, <2>2 DEF BotInit
<1>5. BotTypeOK
  <2>1. job \in [Handlers -> JobRecords] /\ \A w \in Handlers : GoodJob(job[w])
    BY <1>2, NoJobIsGood
  <2>. QED BY <1>2, <1>4, <2>1 DEF BotTypeOK
<1>6. \A w \in Handlers : ~Active(w)
  BY <1>2 DEF Active
<1>7. OpenCount <= 1 /\ (tests = <<>> => OpenCount = 0) /\ NoGaps
  <2>1. CASE tests = <<>>
    <3>1. OpenTests = {}
      BY <2>1 DEF OpenTests
    <3>. QED BY <3>1, FS_EmptySet DEF OpenCount, NoGaps
  <2>2. CASE tests = <<NewTest>>
    <3>1. DOMAIN tests = {1} /\ tests[1].status = "open" /\ tests[1].answered = {}
      BY <2>2 DEF NewTest
    <3>2. OpenTests = {1}
      BY <3>1 DEF OpenTests
    <3>3. Cardinality({1}) = 1
      BY FS_Singleton
    <3>. QED BY <2>2, <3>1, <3>2, <3>3 DEF OpenCount, NoGaps
  <2>. QED BY <1>4, <2>1, <2>2
<1>8. Calm
  <2>1. PositionBacked
    BY <1>4 DEF PositionBacked
  <2>2. TestsBounded
    <3>1. OpenCount <= 1 + sendFaults
      BY <1>2, <1>7
    <3>2. ~chat.user => OpenCount <= sendFaults
      BY <1>2, <1>4, <1>7
    <3>3. chat.state \notin TestStates
      BY <1>4 DEF TestStates
    <3>. QED BY <3>1, <3>2, <3>3 DEF TestsBounded
  <2>. QED BY <1>6, <1>7, <2>1, <2>2 DEF Calm
<1>. QED BY <1>2, <1>5, <1>8 DEF BotInv, SweeperReady

LEMMA BotInvNext == BotInv /\ [BotNext]_botVars => BotInv'
<1>1. SUFFICES ASSUME BotInv, [BotNext]_botVars PROVE BotInv'
  OBVIOUS
<1>2. CASE UNCHANGED botVars
  BY <1>1, <1>2, StutterKeeps
<1>3. CASE BotNext
  <2>1. PICK w \in Handlers :
          \/ UpdateArrives(w) \/ OptionArrives(w)
          \/ Say(w) \/ SayFails(w) \/ UpdateConversation(w)
          \/ MenuFind(w) \/ ResumeFind(w) \/ ResumeWrite(w) \/ ShowReports(w)
          \/ AbandonMine(w) \/ AbandonAll(w) \/ StartTest(w)
          \/ Save(w) \/ Advance(w) \/ Finish(w) \/ HandlerDies(w)
    BY <1>3 DEF BotNext
  <2>. QED BY <1>1, <2>1, ArrivalKeeps, SayKeeps, SayFailsKeeps, UpdateConversationKeeps,
              MenuFindKeeps, ResumeFindKeeps, ResumeWriteKeeps, ShowReportsKeeps,
              AbandonMineKeeps, AbandonAllKeeps, StartTestKeeps, SaveKeeps, AdvanceKeeps,
              FinishKeeps, HandlerDiesKeeps
<1>. QED BY <1>1, <1>2, <1>3

LEMMA BotInvHolds == BotSpec => []BotInv
BY BotInvInit, BotInvNext, PTL DEF BotSpec

\* The row, the tests and the calls in flight have their types, and a handler has
\* only runs of calls left.
THEOREM BotTypeCorrect == BotSpec => []BotTypeOK
<1>1. BotInv => BotTypeOK
  BY DEF BotInv
<1>. QED BY <1>1, BotInvHolds, PTL

\* A chat at rest that asks questions asks them of a test that can still be
\* finished, with an answer to every question before its position
\* (startAssessmentFromConversation, resumeInProgressAssessment,
\* advanceQuestionIndices), whatever messages could not be sent.
THEOREM BotKeepsPosition == BotSpec => []PositionIsBacked
<1>1. BotInv => PositionIsBacked
  <2>1. SUFFICES ASSUME BotInv, AtRest, ~crossed, chat.state = "answering_questions"
                 PROVE  /\ chat.test # 0
                        /\ tests[chat.test].status # "abandoned"
                        /\ \A q \in Questions : q < chat.pos => q \in tests[chat.test].answered
    BY DEF PositionIsBacked
  <2>2. \A w \in Handlers : ~Resetting(w)
    BY <2>1 DEF AtRest, Resetting, Active
  <2>3. Backed(chat.test, chat.pos)
    BY <2>1, <2>2 DEF BotInv, Calm, PositionBacked
  <2>4. 0 \notin DOMAIN tests
    BY <2>1, OpenAreFew DEF BotInv, BotTypeOK
  <2>. QED BY <2>3, <2>4 DEF Backed
<1>. QED BY <1>1, BotInvHolds, PTL

\* Starting anew abandons the open tests first, so at most one is open, and one
\* more for each message lost between creating a test and writing the row.
THEOREM BotBoundsOpenTests == BotSpec => []OpenTestsBounded
<1>1. BotInv => OpenTestsBounded
  BY DEF BotInv, Calm, TestsBounded, OpenTestsBounded, OpenCount
<1>. QED BY <1>1, BotInvHolds, PTL
=============================================================================
