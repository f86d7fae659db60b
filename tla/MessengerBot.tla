----------------------------- MODULE MessengerBot -----------------------------
(***************************************************************************)
(* One chat of the messenger bot (messenger.service.ts): the conversation  *)
(* row, the tests of its person, and the webhook handlers that read the    *)
(* row once and then make their calls one after the other.  Nothing        *)
(* serialises two updates of a chat, old keyboards stay usable, and a      *)
(* message that cannot be sent throws: the webhook answers 200 all the     *)
(* same, and the rest of the handler never happens.                        *)
(*                                                                         *)
(* job[w].todo names the calls handler w has still to make, job[w].seen is *)
(* its copy of the row.  Messages after the last call are left out.  The   *)
(* position counts questions over all domains.                             *)
(* Saving, abandoning and finishing are single steps here: their calls are *)
(* interleaved in AssessmentSession, the hooks they fire in LeadPipeline.  *)
(***************************************************************************)
EXTENDS Naturals, Sequences, FiniteSets, FiniteSetsExt

CONSTANTS
  Handlers,        \* webhook calls in flight
  LastQuestion,    \* questions are numbered 0 .. LastQuestion
  MaxTests,        \* bound: no further test is started beyond as many
  MaxMishaps       \* bound: updates that overlap another, handlers that die, and
                   \* messages that could not be sent since the last fresh start

ASSUME BotAssumption ==
  /\ IsFiniteSet(Handlers)
  /\ LastQuestion \in Nat /\ MaxTests \in Nat /\ MaxMishaps \in Nat

VARIABLES
  chat,        \* the bot_conversations row
  tests,       \* the person's assessment sessions, oldest first
  job,         \* each handler: todo, seen, found (an open test it looked up, a position)
  sweeper,     \* history: the fresh start that has had the chat to itself so far
  crossed,     \* history: overlaps or deaths since the last fresh start
  sendFaults,  \* history: since the last fresh start
  overlaps     \* history

botHistory == <<sweeper, crossed, sendFaults, overlaps>>
botVars == <<chat, tests, job, botHistory>>

Questions == 0 .. LastQuestion
End == LastQuestion + 1

ActiveTestStates == {"awaiting_business_name", "awaiting_team_size", "awaiting_sales_model",
                     "answering_questions"}
CancellableStates == ActiveTestStates \cup {"awaiting_consultation_message", "selecting_report"}

\* user: the contact is known; form: which of name and team size are filled in.
NewChat == [state |-> "idle", user |-> FALSE, test |-> 0, pos |-> 0, form |-> {}]
NothingFound == [test |-> 0, pos |-> 0]
NoJob == [todo |-> <<>>, seen |-> NewChat, found |-> NothingFound]

NewTest == [status |-> "open", answered |-> {}]

\* A chat that writes for the first time, or one whose contact is known; its
\* person may have begun a test in the browser.
BotInit ==
  /\ \/ chat = NewChat /\ tests = <<>>
     \/ /\ chat = [NewChat EXCEPT !.user = TRUE, !.state = "at_main_menu"]
        /\ tests \in {<<>>, <<NewTest>>}
  /\ job = [w \in Handlers |-> NoJob]
  /\ sweeper = {}
  /\ crossed = FALSE
  /\ sendFaults = 0
  /\ overlaps = 0

MayGoWrong == sendFaults + overlaps < MaxMishaps

OpenTests == {t \in DOMAIN tests : tests[t].status = "open"}

-----------------------------------------------------------------------------
(* What an update makes a handler do, given the row it reads.              *)

\* sendMainMenu, cancelToMainMenu, completeAssessment
Menu == <<"menu_find", "say", "menu_write">>
Cancel == <<"abandon_mine", "reset", "say">> \o Menu
Complete == <<"say", "finish", "say", "set_menu">> \o Menu

IfUser(c, calls) == IF c.user THEN calls ELSE <<>>
AbandonAllIfUser(c) == IF c.user THEN <<"abandon_all">> ELSE <<>>

StartCalls(c) ==
  CASE c.state \in ActiveTestStates -> <<>>
    [] c.state \notin ActiveTestStates /\ c.user -> <<"reset">> \o Menu
    [] OTHER -> <<"forget", "set_contact">>

StopCalls(c) == IfUser(c, IF c.state \in CancellableStates THEN Cancel ELSE Menu)

ContactCalls(c) ==
  IF c.user /\ c.state \notin {"awaiting_contact", "idle"}
  THEN <<>> ELSE <<"set_user", "say">> \o Menu

TextCalls(c) ==
  CASE c.state = "awaiting_consultation_message" -> IfUser(c, <<"say", "set_menu">> \o Menu)
    [] c.state = "awaiting_business_name"        -> <<"set_name", "say", "set_team_size">>
    [] c.state \in {"idle", "at_main_menu"}      -> IF c.user THEN Menu ELSE StartCalls(c)
    [] OTHER                                     -> <<>>

\* Fault: a new test leaves the open ones alone.
NewKeepingOpenTests(c) == <<"say", "set_new">>

NewCalls(c) == <<"say">> \o AbandonAllIfUser(c) \o <<"set_new">>

\* The updates without an argument.
Calls(u, c) ==
  CASE u = "start"    -> StartCalls(c)
    [] u = "reset"    -> AbandonAllIfUser(c) \o <<"forget", "set_contact">>
    [] u = "stop"     -> StopCalls(c)
    [] u = "contact"  -> ContactCalls(c)
    [] u = "text"     -> TextCalls(c)
    [] u = "new"      -> NewCalls(c)
    [] u = "continue" -> <<"say">> \o IfUser(c, <<"resume_find">>)
    [] u = "fresh"    -> <<"say">> \o IfUser(c, <<"abandon_all", "reset", "say">> \o Menu)
    [] u = "cancel"   -> <<"say">> \o IfUser(c, Cancel)
    [] u = "reports"  -> <<"say">> \o IfUser(c, <<"show_reports">>)
    [] u = "consult"  -> <<"say">> \o IfUser(c, <<"say", "set_consult">>)
    [] u = "back"     -> <<"say", "set_menu">> \o Menu
    [] u = "report"   -> <<"say", "set_menu">>
    [] u = "team"     -> IF c.state = "awaiting_team_size"
                         THEN <<"say", "set_team", "say", "set_sales_model">> ELSE <<>>
    [] u = "model"    -> IF c.state = "awaiting_sales_model"
                         THEN <<"say", "start_test">> ELSE <<>>

Updates == {"start", "reset", "stop", "contact", "text", "new", "continue", "fresh", "cancel",
            "reports", "consult", "back", "report", "team", "model"}

\* An option belongs to one question and counts only while that is the current one.
OptionCalls(q, c) ==
  CASE c.state # "answering_questions" \/ c.test = 0 -> <<>>
    [] c.state = "answering_questions" /\ c.test # 0 /\ c.pos = End -> <<"say">> \o Complete
    [] c.state = "answering_questions" /\ c.test # 0 /\ c.pos = q   -> <<"say", "save", "advance">>
    [] OTHER                                         -> <<>>

\* sendCurrentQuestion
Ask(c) == IF c.test = 0 THEN <<>> ELSE IF c.pos = End THEN Complete ELSE <<>>

-----------------------------------------------------------------------------
(* A handler begins: it reads (or creates) the row.                        *)

Begin(w, calls, sweeps) ==
  LET quiet == \A v \in Handlers : job[v] = NoJob
  IN /\ job[w] = NoJob
     /\ calls # <<>>
     /\ quiet \/ MayGoWrong
     /\ job' = [job EXCEPT ![w] = [todo |-> calls, seen |-> chat, found |-> NothingFound]]
     /\ sweeper' = IF quiet /\ sweeps THEN {w} ELSE {}
     /\ crossed' = (crossed \/ ~quiet)
     /\ overlaps' = IF quiet THEN overlaps ELSE overlaps + 1
     /\ UNCHANGED <<chat, tests, sendFaults>>

UpdateArrives(w) ==
  \E u \in Updates :
    /\ u = "model" => Len(tests) < MaxTests
    /\ Begin(w, Calls(u, chat), u \in {"new", "fresh", "reset"} /\ chat.user)

OptionArrives(w) == \E q \in Questions : Begin(w, OptionCalls(q, chat), FALSE)

-----------------------------------------------------------------------------
(* The calls of a handler.                                                 *)

Calling(w, call) == job[w] # NoJob /\ Head(job[w].todo) = call
Seen(w) == job[w].seen

\* Calls that use the handler's copy of the row.
SeenReaders == {"reset", "menu_find", "resume_write", "abandon_mine", "start_test", "save", "advance", "finish"}

\* The handler goes on with more and what it had left, or ends.
Continue(w, more, seen, found) ==
  LET rest == more \o Tail(job[w].todo)
      Left(calls) == \E i \in DOMAIN rest : rest[i] \in calls
  IN job' = [job EXCEPT ![w] = [todo  |-> rest,
                                seen  |-> IF Left(SeenReaders) THEN seen ELSE NewChat,
                                found |-> IF Left({"menu_write", "resume_write"}) THEN found ELSE NothingFound]]
Then(w, more) == Continue(w, more, Seen(w), job[w].found)
Find(w, test, pos, more) == Continue(w, more, Seen(w), [test |-> test, pos |-> pos])
Stop(w) == job' = [job EXCEPT ![w] = NoJob]

Say(w) ==
  /\ Calling(w, "say")
  /\ Then(w, <<>>)
  /\ UNCHANGED <<chat, tests, botHistory>>

SayFails(w) ==
  /\ Calling(w, "say")
  /\ MayGoWrong
  /\ sendFaults' = sendFaults + 1
  /\ Stop(w)
  /\ UNCHANGED <<chat, tests, sweeper, crossed, overlaps>>

\* updateConversation: writes some fields by id and returns the whole row.
\* A fresh start that has run alone clears what happened before.
WriteRow(w, row, more) ==
  LET swept == w \in sweeper
  IN /\ chat' = row
     /\ Continue(w, more, row, job[w].found)
     /\ crossed' = (crossed /\ ~swept)
     /\ sendFaults' = IF swept THEN 0 ELSE sendFaults
     /\ sweeper' = sweeper \ {w}
     /\ UNCHANGED <<tests, overlaps>>

\* resetConversation with preserveUser writes the user the handler has read.
RowAfter(w, call) ==
  CASE call = "reset"       -> [NewChat EXCEPT !.user = Seen(w).user]
    [] call = "forget"      -> NewChat
    [] call = "set_contact" -> [chat EXCEPT !.state = "awaiting_contact"]
    [] call = "set_user"    -> [chat EXCEPT !.user = TRUE]
    [] call = "set_menu"    -> [chat EXCEPT !.state = "at_main_menu"]
    [] call = "set_reports" -> [chat EXCEPT !.state = "selecting_report"]
    [] call = "set_consult" -> [chat EXCEPT !.state = "awaiting_consultation_message"]
    [] call = "set_new"     -> [NewChat EXCEPT !.user = chat.user, !.state = "awaiting_business_name"]
    [] call = "set_name"    -> [chat EXCEPT !.form = @ \cup {"name"}]
    [] call = "set_team"    -> [chat EXCEPT !.form = @ \cup {"team"}]
    [] call = "set_team_size"   -> [chat EXCEPT !.state = "awaiting_team_size"]
    [] call = "set_sales_model" -> [chat EXCEPT !.state = "awaiting_sales_model"]
    [] call = "menu_write"  -> [NewChat EXCEPT !.user = chat.user, !.state = "at_main_menu",
                                               !.test = job[w].found.test]

RowWrites == {"reset", "forget", "set_contact", "set_user", "set_menu", "set_reports",
              "set_consult", "set_new", "set_name", "set_team", "set_team_size",
              "set_sales_model", "menu_write"}

UpdateConversation(w) ==
  LET call == Head(job[w].todo)
  IN job[w] # NoJob /\ call \in RowWrites /\ WriteRow(w, RowAfter(w, call), <<>>)

\* findInProgressAssessment: the newest open test.
NewestOpen == IF OpenTests = {} THEN 0 ELSE Max(OpenTests)

MenuFind(w) ==
  /\ Calling(w, "menu_find")
  /\ Find(w, IF Seen(w).user THEN NewestOpen ELSE 0, 0, <<>>)
  /\ UNCHANGED <<chat, tests, botHistory>>

Answered(t) == Cardinality(tests[t].answered)

\* Fault: the question after the first one that is not answered.
ResumePositionOneTooFar(t) == Min({Answered(t) + 1, End})

\* computeResumePosition: as many questions further as there are answers.
ResumePosition(t) == Min({Answered(t), End})

ResumeFind(w) ==
  /\ Calling(w, "resume_find")
  /\ IF OpenTests = {}
     THEN Then(w, <<>>)
     ELSE Find(w, NewestOpen, ResumePosition(NewestOpen), <<"resume_write">>)
  /\ UNCHANGED <<chat, tests, botHistory>>

ResumeWrite(w) ==
  LET row == [chat EXCEPT !.state = "answering_questions",
                          !.test = job[w].found.test, !.pos = job[w].found.pos]
  IN Calling(w, "resume_write") /\ WriteRow(w, row, Ask(row))

SetStatus(t, status) == tests' = [tests EXCEPT ![t].status = status]

\* abandonConversationAssessment
AbandonMine(w) ==
  /\ Calling(w, "abandon_mine")
  /\ IF Seen(w).test \in OpenTests THEN SetStatus(Seen(w).test, "abandoned") ELSE UNCHANGED tests
  /\ Then(w, <<>>)
  /\ UNCHANGED <<chat, botHistory>>

\* Fault: only the test the chat is about.
AbandonOnlyMine(w) ==
  /\ Calling(w, "abandon_all")
  /\ IF Seen(w).test \in OpenTests THEN SetStatus(Seen(w).test, "abandoned") ELSE UNCHANGED tests
  /\ Then(w, <<>>)
  /\ UNCHANGED <<chat, botHistory>>

\* abandonInProgressAssessmentsForUser
AbandonAll(w) ==
  /\ Calling(w, "abandon_all")
  /\ tests' = [t \in DOMAIN tests |->
                 IF t \in OpenTests THEN [tests[t] EXCEPT !.status = "abandoned"] ELSE tests[t]]
  /\ Then(w, <<>>)
  /\ UNCHANGED <<chat, botHistory>>

\* startAssessmentFromConversation
StartTest(w) ==
  /\ Calling(w, "start_test")
  /\ IF Seen(w).user /\ Seen(w).form = {"name", "team"}
     THEN /\ tests' = Append(tests, NewTest)
          /\ Find(w, Len(tests) + 1, 0, <<"say", "resume_write">>)
     ELSE Stop(w) /\ UNCHANGED tests
  /\ UNCHANGED <<chat, botHistory>>

ShowReports(w) ==
  /\ Calling(w, "show_reports")
  /\ Then(w, <<"say">> \o IF \E t \in DOMAIN tests : tests[t].status = "completed"
                          THEN <<"set_reports">> ELSE <<"set_menu">>)
  /\ UNCHANGED <<chat, tests, botHistory>>

\* saveAnswers: refuses a completed test and reopens an abandoned one.
Save(w) ==
  LET t == Seen(w).test
  IN /\ Calling(w, "save")
     /\ IF tests[t].status = "completed"
        THEN Stop(w) /\ UNCHANGED tests
        ELSE /\ tests' = [tests EXCEPT ![t] = [status |-> "open", answered |-> @.answered \cup {Seen(w).pos}]]
             /\ Then(w, <<>>)
     /\ UNCHANGED <<chat, botHistory>>

\* advanceQuestionIndices counts from the row the handler has read.
Advance(w) ==
  LET row == [chat EXCEPT !.pos = Seen(w).pos + 1]
  IN Calling(w, "advance") /\ WriteRow(w, row, Ask(row))

\* finishAssessment, for a messenger in the same request.
Finish(w) ==
  LET t == Seen(w).test
  IN /\ Calling(w, "finish")
     /\ IF t # 0 /\ (tests[t].status = "completed" \/ tests[t].answered = Questions)
        THEN SetStatus(t, "completed") /\ Then(w, <<>>)
        ELSE Stop(w) /\ UNCHANGED tests
     /\ UNCHANGED <<chat, botHistory>>

\* A database call throws or the process stops.
HandlerDies(w) ==
  /\ job[w] # NoJob
  /\ MayGoWrong
  /\ overlaps' = overlaps + 1
  /\ crossed' = TRUE
  /\ Stop(w)
  /\ UNCHANGED <<chat, tests, sweeper, sendFaults>>

BotNext ==
  \E w \in Handlers :
    \/ UpdateArrives(w) \/ OptionArrives(w)
    \/ Say(w) \/ SayFails(w) \/ UpdateConversation(w)
    \/ MenuFind(w) \/ ResumeFind(w) \/ ResumeWrite(w) \/ ShowReports(w)
    \/ AbandonMine(w) \/ AbandonAll(w) \/ StartTest(w)
    \/ Save(w) \/ Advance(w) \/ Finish(w) \/ HandlerDies(w)

BotSpec == BotInit /\ [][BotNext]_botVars

-----------------------------------------------------------------------------
(* Properties *)

AtRest == \A w \in Handlers : job[w] = NoJob

\* Whatever message fails to be sent in the middle of a handler, and however
\* updates overlapped or died before the last fresh start, a chat that asks
\* questions asks them of a test that can still be finished: not abandoned, and
\* with an answer to every question before its position.
PositionIsBacked ==
  AtRest /\ ~crossed /\ chat.state = "answering_questions" =>
    /\ chat.test # 0
    /\ tests[chat.test].status # "abandoned"
    /\ \A q \in Questions : q < chat.pos => q \in tests[chat.test].answered

\* "start new" abandons what is open before it creates a test, and a failed
\* message between the test and the row leaves at most that test behind.
OpenTestsBounded == ~crossed => Cardinality(OpenTests) <= 1 + sendFaults
=============================================================================
