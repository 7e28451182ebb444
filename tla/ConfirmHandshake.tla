-------------------------- MODULE ConfirmHandshake --------------------------
(***************************************************************************)
(* The file through which the command line asks its graphical host for a   *)
(* confirmation: host_confirm of src/CLI/cli/main.cpp on one side, on the  *)
(* other ProcessCommandExecutor of src/GUI-Qt and CliProcessService of     *)
(* src/GUI-WinUI.                                                          *)
(*                                                                         *)
(* The CLI writes a question and polls for an answer; the host polls for a *)
(* question, asks the user and replaces the file by the answer; the CLI    *)
(* takes it and empties the file.  Nothing else tells the two apart whose  *)
(* turn it is.                                                             *)
(***************************************************************************)
EXTENDS Integers, Sequences

CONSTANTS
  NQuestions,   \* how many questions the CLI asks, one after the other
  Polls,        \* the host polls by "timer" (Qt) or in a "task" of its own (WinUI)
  Timeouts,     \* whether a user may take longer than the 10 minutes the CLI waits
  MaxFaults     \* bound on answers that cannot be written

ASSUME ConfirmConstants ==
  /\ NQuestions \in Nat
  /\ Polls \in {"timer", "task"}
  /\ Timeouts \in BOOLEAN
  /\ MaxFaults \in Nat

VARIABLES
  file,      \* what the handshake file holds
  cli,       \* where the CLI is
  q,         \* the question it is at
  verdict,   \* what host_confirm has returned for each question
  watching,  \* the host's watch of the file is on
  pending, answered,   \* m_confirmPending, m_confirmAnswered
  seen,      \* what the poll under way has read
  prompts,   \* the prompts on their way to the user interface
  ui,        \* where the user interface is
  shown,     \* the prompt it shows
  choice,    \* the user's answer to it
  decided,   \* history: what the user decided when shown each question
  faults

clivars == <<cli, q, verdict>>
pollvars == <<seen, prompts>>
uivars == <<ui, shown, choice, decided, faults>>
vars == <<file, clivars, watching, pending, answered, pollvars, uivars>>

Questions == 1..NQuestions
Answers == {"yes", "no"}

\* What the file holds, or what was read of it: no file, nothing, a question, an answer.
Text == [kind : {"none", "missing", "empty", "question"} \cup Answers, n : 0..NQuestions]
Just(kind) == [kind |-> kind, n |-> 0]

TypeOK ==
  /\ file \in Text /\ file.kind # "none"
  /\ cli \in {"work", "ask", "lost", "poll", "end"} \cup Answers
  /\ q \in 0..NQuestions
  /\ verdict \in [Questions -> {"none", "timeout"} \cup Answers]
  /\ {watching, pending, answered} \subseteq BOOLEAN
  /\ seen \in Text /\ shown \in Text /\ prompts \in Seq(Text)
  /\ ui \in {"idle", "dialog", "remove", "create", "write", "flag"}
  /\ choice \in Answers
  /\ decided \in [Questions -> {"none"} \cup Answers]
  /\ faults \in 0..MaxFaults

Init ==
  /\ file = Just("missing")
  /\ cli = "work" /\ q = 0 /\ verdict = [i \in Questions |-> "none"]
  /\ watching = TRUE /\ pending = FALSE /\ answered = FALSE
  /\ seen = Just("none") /\ prompts = <<>>
  /\ ui = "idle" /\ shown = Just("none") /\ choice = "no"
  /\ decided = [i \in Questions |-> "none"]
  /\ faults = 0

-----------------------------------------------------------------------------
(***************************************************************************)
(* The CLI.                                                                *)
(***************************************************************************)
\* Mutant: one question too many.
OpenOneMore ==
  /\ cli = "work" /\ q <= NQuestions
  /\ q' = q + 1
  /\ file' = Just("empty")
  /\ cli' = "ask"
  /\ UNCHANGED <<verdict, watching, pending, answered, pollvars, uivars>>

\* The next question: the file is opened and truncated ...
Open ==
  /\ cli = "work" /\ q < NQuestions
  /\ q' = q + 1
  /\ file' = Just("empty")
  /\ cli' = "ask"
  /\ UNCHANGED <<verdict, watching, pending, answered, pollvars, uivars>>

\* ... and written, over whatever has come into it in the meantime; a file the host has
\* removed in between takes the question with it.
Ask ==
  /\ cli \in {"ask", "lost"}
  /\ file' = IF cli = "ask" THEN [kind |-> "question", n |-> q] ELSE file
  /\ cli' = "poll"
  /\ UNCHANGED <<q, verdict, watching, pending, answered, pollvars, uivars>>

\* Mutant: whatever does not begin with "y" is a no, the question included.
PollFirstCharacter ==
  /\ cli = "poll" /\ file.kind \in {"question"} \cup Answers
  /\ cli' = IF file.kind = "yes" THEN "yes" ELSE "no"
  /\ UNCHANGED <<file, q, verdict, watching, pending, answered, pollvars, uivars>>

\* Only a line y, yes, n or no is an answer.
Poll ==
  /\ cli = "poll" /\ file.kind \in Answers
  /\ cli' = file.kind
  /\ UNCHANGED <<file, q, verdict, watching, pending, answered, pollvars, uivars>>

\* The answer is eaten: the file is truncated, and created if need be.
Clear ==
  /\ cli \in Answers
  /\ file' = Just("empty")
  /\ verdict' = [verdict EXCEPT ![q] = cli]
  /\ cli' = "work"
  /\ UNCHANGED <<q, watching, pending, answered, pollvars, uivars>>

\* No answer within 10 minutes; the question stays in the file.  A caller that works on
\* several files goes on with the next one, and its question.
TimeOut ==
  /\ Timeouts
  /\ cli = "poll"
  /\ verdict' = [verdict EXCEPT ![q] = "timeout"]
  /\ cli' = "work"
  /\ UNCHANGED <<file, q, watching, pending, answered, pollvars, uivars>>

End ==
  /\ cli = "work" /\ q = NQuestions
  /\ cli' = "end"
  /\ UNCHANGED <<file, q, verdict, watching, pending, answered, pollvars, uivars>>

Cli == Open \/ Ask \/ Poll \/ Clear \/ End

-----------------------------------------------------------------------------
(***************************************************************************)
(* The host.  The Qt timer shares its thread with the user interface and   *)
(* does not fire again while its own slot, and so the dialog, is open; the *)
(* WinUI task runs beside the user interface.                              *)
(***************************************************************************)
UiFree == ui = "idle" /\ prompts = <<>>

\* Neither reads a file the host itself is writing.
PollRead ==
  /\ watching /\ seen.kind = "none"
  /\ Polls = "timer" => UiFree
  /\ Polls = "task" => ui # "write"
  /\ seen' = file
  /\ UNCHANGED <<file, clivars, watching, pending, answered, prompts, uivars>>

\* A file that cannot be opened tells the Qt host nothing and the WinUI host as much as
\* an empty one.
CountsAsEmpty(text) ==
  text.kind = "empty" \/ (text.kind = "missing" /\ Polls = "task")

\* Mutant: the poll does not wait for the answer to be taken.
PollActAlways ==
  /\ watching /\ seen.kind # "none"
  /\ IF CountsAsEmpty(seen)
       THEN pending' = FALSE /\ answered' = FALSE /\ UNCHANGED prompts
       ELSE IF seen.kind # "missing"
         THEN pending' = TRUE /\ prompts' = Append(prompts, seen) /\ UNCHANGED answered
         ELSE UNCHANGED <<pending, answered, prompts>>
  /\ seen' = Just("none")
  /\ UNCHANGED <<file, clivars, watching, uivars>>

\* An empty file ends the question in hand; a question is passed on if none is in hand.
PollAct ==
  /\ watching /\ seen.kind # "none"
  /\ IF CountsAsEmpty(seen)
       THEN pending' = FALSE /\ answered' = FALSE /\ UNCHANGED prompts
       ELSE IF seen.kind # "missing" /\ ~pending
         THEN pending' = TRUE /\ prompts' = Append(prompts, seen) /\ UNCHANGED answered
         ELSE UNCHANGED <<pending, answered, prompts>>
  /\ seen' = Just("none")
  /\ UNCHANGED <<file, clivars, watching, uivars>>

\* onConfirmPrompt: a modal dialog with the text read.
Show ==
  /\ ui = "idle" /\ prompts # <<>>
  /\ ui' = "dialog"
  /\ shown' = Head(prompts)
  /\ prompts' = Tail(prompts)
  /\ UNCHANGED <<file, clivars, watching, pending, answered, seen, choice, decided, faults>>

\* Mutant: the flag for "answered" is tested the wrong way round.
AcceptsSwapped == watching /\ pending /\ answered

\* The first line of answerConfirm.
Accepts == watching /\ pending /\ ~answered

\* The user answers, and answerConfirm replaces the file by the answer.
Decide ==
  /\ ui = "dialog"
  /\ \E a \in Answers :
       /\ choice' = a
       /\ decided' = IF shown.kind = "question" THEN [decided EXCEPT ![shown.n] = a]
                                                ELSE decided
  /\ ui' = IF Accepts THEN "remove" ELSE "idle"
  /\ UNCHANGED <<file, clivars, watching, pending, answered, pollvars, shown, faults>>

\* A stream the CLI has open on the file stays open, on a file without a name.
Remove ==
  /\ ui = "remove"
  /\ file' = Just("missing")
  /\ cli' = IF cli = "ask" THEN "lost" ELSE cli
  /\ ui' = "create"
  /\ UNCHANGED <<q, verdict, watching, pending, answered, pollvars, shown, choice, decided, faults>>

\* A file that cannot be created ends the question in hand.
Create ==
  /\ ui = "create"
  /\ \/ file' = Just("empty") /\ ui' = "write" /\ UNCHANGED <<pending, faults>>
     \/ /\ faults < MaxFaults
        /\ faults' = faults + 1
        /\ pending' = FALSE
        /\ ui' = "idle"
        /\ UNCHANGED file
  /\ UNCHANGED <<clivars, watching, answered, pollvars, shown, choice, decided>>

Write ==
  /\ ui = "write"
  /\ file' = Just(choice)
  /\ ui' = "flag"
  /\ UNCHANGED <<clivars, watching, pending, answered, pollvars, shown, choice, decided, faults>>

Flag ==
  /\ ui = "flag"
  /\ answered' = TRUE
  /\ ui' = "idle"
  /\ UNCHANGED <<file, clivars, watching, pending, pollvars, shown, choice, decided, faults>>

\* The CLI has ended: the watch stops and the file is removed.
Finish ==
  /\ watching /\ cli = "end"
  /\ Polls = "timer" => ui \in {"idle", "dialog"} /\ seen.kind = "none"
  /\ watching' = FALSE
  /\ file' = Just("missing")
  /\ pending' = FALSE /\ answered' = FALSE
  /\ seen' = Just("none")
  /\ UNCHANGED <<clivars, prompts, uivars>>

Host ==
  PollRead \/ PollAct \/ Show \/ Decide \/ Remove \/ Create \/ Write \/ Flag \/ Finish

Next == Cli \/ TimeOut \/ Host

Spec == Init /\ [][Next]_vars

\* Both programs run, and the user answers every dialog.
FairSpec ==
  /\ Spec
  /\ WF_vars(Cli)
  /\ WF_vars(PollRead) /\ WF_vars(PollAct)
  /\ WF_vars(Show \/ Decide \/ Remove \/ Create \/ Write \/ Flag) /\ WF_vars(Finish)

-----------------------------------------------------------------------------
(***************************************************************************)
(* Why OnlyQuestionsShown holds with the timer: an answer is in the file,  *)
(* or read from it, only while its question is in hand.                    *)
(***************************************************************************)
InHand ==
  /\ file.kind \in Answers \/ seen.kind \in Answers => pending
  /\ ui \in {"remove", "create", "write"} => pending
  /\ ui = "create" => file.kind \notin Answers
  /\ seen.kind # "none" => UiFree
  /\ seen.kind = "empty" => file.kind \notin Answers
  /\ \A k \in 1..Len(prompts) : prompts[k].kind = "question"
  /\ ui = "dialog" => shown.kind = "question"

(***************************************************************************)
(* Properties.                                                             *)
(***************************************************************************)
\* The CLI acts only on what the user decided about this very question: no answer is
\* left over from an earlier one (main.cpp line 156), guessed, or made from the question.
\* That is so until the first time-out, after which an answer may come late.
InTime == \A i \in Questions : verdict[i] # "timeout"

VerdictIsUsers ==
  InTime => \A i \in Questions : verdict[i] \in Answers => decided[i] = verdict[i]

\* The user is never shown an answer as if it were a question (the "strictly serial"
\* states of ProcessCommandExecutor.cpp line 76 and CliProcessService.cs line 45).
OnlyQuestionsShown == ui = "dialog" => shown.kind = "question"

\* Why VerdictIsUsers holds with the timer: until a time-out all that is on its way is
\* about the question the CLI waits on, and an answer in the file is the user's.
Turns ==
  /\ file.kind = "question" => cli = "poll" /\ file.n = q
  /\ file.kind \in Answers =>
       cli \in {"poll"} \cup Answers /\ decided[q] = file.kind /\ ui \in {"flag", "idle"}
  /\ cli \in Answers => file.kind = cli
  /\ seen.kind = "question" => file.kind = "question" /\ seen.n = q
  /\ \A k \in 1..Len(prompts) : file.kind = "question" /\ prompts[k].n = q
  /\ ui = "dialog" => file.kind = "question" /\ shown.n = q
  /\ ui \in {"remove", "create", "write"} => cli = "poll" /\ decided[q] = choice
  /\ cli # "lost"
  /\ \A i \in Questions : verdict[i] \in Answers => decided[i] = verdict[i]

\* A question has no verdict before it has been waited on.
Ahead ==
  /\ \A i \in Questions : i > q => verdict[i] = "none"
  /\ cli \notin {"work", "end"} => q # 0 /\ verdict[q] = "none"

\* One prompt at a time.
OnePrompt == Len(prompts) <= 1 /\ (ui # "idle" => prompts = <<>>)

InTurn == Ahead /\ OnePrompt /\ (InTime => Turns)

\* What the user decides about a question reaches the CLI, unless it cannot be written.
UserIsHeard ==
  \A i \in Questions : decided[i] # "none" ~> verdict[i] # "none" \/ faults > 0

\* Every question asked reaches the user ("the CLI writes a question, the host shows a
\* dialog", ProcessCommandExecutor.cpp line 75).
EveryQuestionShown ==
  \A i \in Questions : (q = i) ~> (decided[i] # "none")
=============================================================================
