----------------------- MODULE ConfirmHandshakeProofs -----------------------
(***************************************************************************)
(* What holds of the confirmation handshake with the Qt host for any       *)
(* number of questions, answered, unanswered or answered too late.         *)
(***************************************************************************)
EXTENDS ConfirmHandshake, SequenceTheorems, TLAPS

LEMMA JustIsText ==
  ASSUME NEW k \in {"none", "missing", "empty", "question"} \cup Answers
  PROVE  Just(k) \in Text /\ Just(k).kind = k
  BY ConfirmConstants DEF Just, Text

LEMMA TypeStep == TypeOK /\ [Next]_vars => TypeOK'
<1> SUFFICES ASSUME TypeOK, [Next]_vars PROVE TypeOK'
  OBVIOUS
<1> USE DEF TypeOK, clivars, pollvars, uivars
<1>1. CASE Open
  <2>1. q' \in 0..NQuestions
    BY <1>1, ConfirmConstants DEF Open
  <2>2. file' \in Text /\ file'.kind # "none"
    BY <1>1, JustIsText DEF Open
  <2> QED
    BY <1>1, <2>1, <2>2 DEF Open
<1>2. CASE Ask
  <2>1. [kind |-> "question", n |-> q] \in Text
    BY DEF Text
  <2>2. file' \in Text /\ file'.kind # "none"
    BY <1>2, <2>1 DEF Ask
  <2> QED
    BY <1>2, <2>2 DEF Ask
<1>3. CASE Poll \/ End
  BY <1>3 DEF Poll, End
<1>4. CASE Clear
  <2>1. file' \in Text /\ file'.kind # "none"
    BY <1>4, JustIsText DEF Clear
  <2>2. verdict' \in [Questions -> {"none", "timeout"} \cup Answers]
    BY <1>4 DEF Clear
  <2> QED
    BY <1>4, <2>1, <2>2 DEF Clear
<1>5. CASE TimeOut
  BY <1>5 DEF TimeOut
<1>6. CASE PollRead
  BY <1>6 DEF PollRead
<1>7. CASE PollAct
  <2>1. seen' \in Text
    BY <1>7, JustIsText DEF PollAct
  <2>2. prompts' \in Seq(Text)
    BY <1>7 DEF PollAct
  <2>3. {watching', pending', answered'} \subseteq BOOLEAN
    BY <1>7 DEF PollAct
  <2> QED
    BY <1>7, <2>1, <2>2, <2>3 DEF PollAct
<1>8. CASE Show
  <2>1. shown' \in Text /\ prompts' \in Seq(Text)
    BY <1>8, HeadTailProperties DEF Show
  <2> QED
    BY <1>8, <2>1 DEF Show
<1>9. CASE Decide
  <2>1. PICK a \in Answers :
          /\ choice' = a
          /\ decided' = IF shown.kind = "question" THEN [decided EXCEPT ![shown.n] = a]
                                                    ELSE decided
    BY <1>9 DEF Decide
  <2> QED
    BY <1>9, <2>1 DEF Decide
<1>10. CASE Remove
  <2>1. file' \in Text /\ file'.kind # "none"
    BY <1>10, JustIsText DEF Remove
  <2> QED
    BY <1>10, <2>1 DEF Remove
<1>11. CASE Create
  <2>1. file' \in Text /\ file'.kind # "none"
    BY <1>11, JustIsText DEF Create
  <2>2. faults' \in 0..MaxFaults
    BY <1>11, ConfirmConstants DEF Create
  <2> QED
    BY <1>11, <2>1, <2>2 DEF Create
<1>12. CASE Write
  <2>1. file' \in Text /\ file'.kind # "none"
    BY <1>12, JustIsText DEF Write, Answers
  <2> QED
    BY <1>12, <2>1 DEF Write
<1>13. CASE Flag
  BY <1>13 DEF Flag
<1>14. CASE Finish
  <2>1. file' \in Text /\ file'.kind # "none" /\ seen' \in Text
    BY <1>14, JustIsText DEF Finish
  <2> QED
    BY <1>14, <2>1 DEF Finish
<1>15. CASE UNCHANGED vars
  BY <1>15 DEF vars
<1> QED
  BY <1>1, <1>2, <1>3, <1>4, <1>5, <1>6, <1>7, <1>8, <1>9, <1>10, <1>11, <1>12, <1>13,
     <1>14, <1>15 DEF Next, Cli, Host

\* Every variable of the handshake keeps its type: in particular the CLI never goes
\* beyond its last question.
THEOREM HandshakeTypes == Spec => []TypeOK
<1>1. Init => TypeOK
  <2> SUFFICES ASSUME Init PROVE TypeOK
    OBVIOUS
  <2>1. /\ file \in Text /\ file.kind # "none" /\ seen \in Text /\ shown \in Text
    BY JustIsText DEF Init
  <2>2. q \in 0..NQuestions /\ faults \in 0..MaxFaults
    BY ConfirmConstants DEF Init
  <2>5. {watching, pending, answered} \subseteq BOOLEAN
    BY DEF Init
  <2>3. /\ verdict \in [Questions -> {"none", "timeout"} \cup Answers]
        /\ decided \in [Questions -> {"none"} \cup Answers]
    BY DEF Init
  <2>4. prompts \in Seq(Text)
    BY DEF Init
  <2> QED
    BY <2>1, <2>2, <2>3, <2>4, <2>5 DEF Init, TypeOK, Answers
<1> QED
  BY <1>1, TypeStep, PTL DEF Spec

-----------------------------------------------------------------------------
LEMMA InHandStep ==
  ASSUME Polls = "timer", TypeOK, InHand, [Next]_vars
  PROVE  InHand'
<1> USE DEF InHand, TypeOK, clivars, pollvars, uivars, UiFree, Just, Answers
<1>1. CASE Open
  BY <1>1 DEF Open
<1>2. CASE Ask
  BY <1>2 DEF Ask
<1>3. CASE Poll \/ End
  BY <1>3 DEF Poll, End
<1>4. CASE Clear
  BY <1>4 DEF Clear
<1>5. CASE TimeOut
  BY <1>5 DEF TimeOut
<1>6. CASE PollRead
  BY <1>6 DEF PollRead
<1>7. CASE PollAct
  <2>1. CASE CountsAsEmpty(seen)
    BY <1>7, <2>1 DEF PollAct, CountsAsEmpty
  <2>2. CASE ~CountsAsEmpty(seen) /\ seen.kind # "missing" /\ ~pending
    <3>1. seen.kind = "question"
      BY <1>7, <2>2 DEF PollAct, CountsAsEmpty, Text
    <3>2. prompts' = Append(prompts, seen) /\ prompts = <<>>
      BY <1>7, <2>2 DEF PollAct
    <3>3. prompts' = <<seen>>
      BY <3>2
    <3>4. \A k \in 1..Len(prompts') : prompts'[k].kind = "question"
      BY <3>1, <3>3
    <3> QED
      BY <1>7, <2>2, <3>4 DEF PollAct
  <2>3. CASE ~CountsAsEmpty(seen) /\ (seen.kind = "missing" \/ pending)
    BY <1>7, <2>3 DEF PollAct
  <2> QED
    BY <2>1, <2>2, <2>3
<1>8. CASE Show
  <2>1. Len(prompts) \in Nat /\ Len(prompts) > 0
        /\ shown' = prompts[1] /\ Len(prompts') = Len(prompts) - 1
        /\ \A k \in 1..Len(prompts') : prompts'[k] = prompts[k + 1]
    BY <1>8, HeadTailProperties, EmptySeq DEF Show
  <2>2. shown'.kind = "question"
    BY <2>1
  <2>3. \A k \in 1..Len(prompts') : prompts'[k].kind = "question"
    BY <2>1
  <2> QED
    BY <1>8, <2>2, <2>3 DEF Show
<1>9. CASE Decide
  BY <1>9 DEF Decide, Accepts
<1>10. CASE Remove
  BY <1>10 DEF Remove
<1>11. CASE Create
  BY <1>11 DEF Create
<1>12. CASE Write
  BY <1>12 DEF Write
<1>13. CASE Flag
  BY <1>13 DEF Flag
<1>14. CASE Finish
  BY <1>14 DEF Finish
<1>15. CASE UNCHANGED vars
  BY <1>15 DEF vars
<1> QED
  BY <1>1, <1>2, <1>3, <1>4, <1>5, <1>6, <1>7, <1>8, <1>9, <1>10, <1>11, <1>12, <1>13,
     <1>14, <1>15 DEF Next, Cli, Host

\* With the Qt host the user never meets an answer in place of a question, whatever the
\* number of questions and however late the answers.
THEOREM UserMeetsQuestions ==
  ASSUME Polls = "timer"
  PROVE  Spec => []OnlyQuestionsShown
<1>1. Init => InHand
  BY DEF Init, InHand, UiFree, Just, Answers
<1>2. TypeOK /\ InHand /\ [Next]_vars => InHand'
  BY InHandStep
<1>3. InHand => OnlyQuestionsShown
  BY DEF InHand, OnlyQuestionsShown
<1> QED
  BY <1>1, <1>2, <1>3, HandshakeTypes, PTL DEF Spec

-----------------------------------------------------------------------------
(***************************************************************************)
(* Whose turn it is.                                                       *)
(***************************************************************************)
LEMMA OnePromptStep ==
  ASSUME Polls = "timer", TypeOK, InHand, OnePrompt, [Next]_vars
  PROVE  OnePrompt'
<1> USE DEF OnePrompt, UiFree, clivars, pollvars, uivars
<1>1. CASE UNCHANGED <<prompts, ui>>
  BY <1>1
<1>2. CASE PollAct
  <2>1. prompts = <<>> /\ ui = "idle"
    BY <1>2 DEF PollAct, InHand
  <2>2. prompts' = prompts \/ prompts' = <<seen>>
    BY <1>2, <2>1 DEF PollAct
  <2>3. Len(<<>>) <= 1 /\ Len(<<seen>>) <= 1
    OBVIOUS
  <2> QED
    BY <1>2, <2>1, <2>2, <2>3 DEF PollAct
<1>3. CASE Show
  <2>1. prompts \in Seq(Text) /\ prompts # <<>>
    BY <1>3 DEF Show, TypeOK
  <2>2. Tail(prompts) \in Seq(Text) /\ Len(Tail(prompts)) = Len(prompts) - 1 /\ Len(prompts) \in Nat
    BY <2>1, HeadTailProperties
  <2>3. Len(Tail(prompts)) = 0
    BY <2>1, <2>2, EmptySeq
  <2>4. prompts' = <<>>
    BY <1>3, <2>2, <2>3, EmptySeq DEF Show
  <2> QED
    BY <1>3, <2>4
<1>4. CASE Decide \/ Remove \/ Create \/ Write \/ Flag
  BY <1>4 DEF Decide, Remove, Create, Write, Flag
<1>5. CASE Cli \/ TimeOut \/ PollRead \/ Finish \/ UNCHANGED vars
  BY <1>1, <1>5 DEF Cli, Open, Ask, Poll, Clear, End, TimeOut, PollRead, Finish, vars
<1> QED
  BY <1>2, <1>3, <1>4, <1>5 DEF Next, Host

LEMMA NoTimeOut ==
  ASSUME TypeOK, Ahead, InTime'
  PROVE  ~TimeOut
<1> SUFFICES ASSUME TimeOut PROVE FALSE
  OBVIOUS
<1>1. q \in Questions /\ verdict' = [verdict EXCEPT ![q] = "timeout"]
  BY ConfirmConstants DEF TimeOut, Ahead, TypeOK, Questions
<1>2. verdict'[q] = "timeout"
  BY <1>1 DEF TypeOK
<1> QED
  BY <1>1, <1>2 DEF InTime

LEMMA AheadStep ==
  ASSUME TypeOK, Ahead, [Next]_vars
  PROVE  Ahead' /\ (InTime' => InTime)
<1> USE DEF Ahead, InTime, TypeOK, clivars, pollvars, uivars
<1>0. q \in 0..NQuestions /\ NQuestions \in Nat /\ Questions = 1..NQuestions
  BY ConfirmConstants DEF Questions
<1>1. CASE Open
  <2>1. cli' = "ask" /\ q' = q + 1 /\ verdict' = verdict /\ q' \in Questions
    BY <1>0, <1>1 DEF Open
  <2> QED
    BY <1>0, <2>1
<1>2. CASE Ask \/ Poll \/ End \/ Remove
  <2>1. q' = q /\ verdict' = verdict /\ (cli' \notin {"work", "end"} => cli \notin {"work", "end"})
    BY <1>2 DEF Ask, Poll, End, Remove, Answers
  <2> QED
    BY <2>1
<1>3. CASE Clear \/ TimeOut
  <2>1. /\ q' = q /\ cli' = "work" /\ q \in Questions /\ verdict[q] = "none"
    BY <1>0, <1>3 DEF Clear, TimeOut, Answers
  <2>3. PICK v : verdict' = [verdict EXCEPT ![q] = v]
    BY <1>3, Zenon DEF Clear, TimeOut
  <2>2. \A i \in Questions \ {q} : verdict'[i] = verdict[i]
    BY <2>1, <2>3
  <2> QED
    BY <1>0, <2>1, <2>2
<1>4. CASE UNCHANGED <<cli, q, verdict>>
  BY <1>4
<1>5. CASE PollRead \/ PollAct \/ Show \/ Decide \/ Create \/ Write \/ Flag \/ Finish \/ UNCHANGED vars
  BY <1>4, <1>5 DEF PollRead, PollAct, Show, Decide, Create, Write, Flag, Finish, vars
<1> QED
  BY <1>1, <1>2, <1>3, <1>5 DEF Next, Cli, Host

LEMMA TurnsStep ==
  ASSUME Polls = "timer", TypeOK, InHand, Ahead, OnePrompt, Turns, [Next]_vars, ~TimeOut
  PROVE  Turns'
<1> USE DEF Turns, clivars, pollvars, uivars, Answers
<1>0. Len(<<>>) = 0
  OBVIOUS
<1>1. CASE Open
  BY <1>1 DEF Open, Just
<1>2. CASE Ask
  <2>1. file' = [kind |-> "question", n |-> q] /\ cli = "ask"
    BY <1>2 DEF Ask
  <2> QED
    BY <1>2, <2>1 DEF Ask
<1>3. CASE Poll \/ End
  BY <1>3 DEF Poll, End
<1>4. CASE Clear
  <2>1. /\ q \in Questions /\ decided[q] = cli /\ file.kind = cli /\ ui \in {"flag", "idle"}
        /\ verdict' = [verdict EXCEPT ![q] = cli] /\ UNCHANGED <<decided, q, seen, prompts, ui, shown, choice>>
        /\ file' = Just("empty") /\ cli' = "work"
    BY <1>4 DEF Clear, Ahead, TypeOK, Questions
  <2>2. \A i \in Questions : verdict'[i] \in Answers => decided'[i] = verdict'[i]
    BY <2>1 DEF TypeOK
  <2> QED
    BY <1>4, <2>1, <2>2 DEF Just, Clear
<1>5. CASE PollRead
  BY <1>5 DEF PollRead
<1>6. CASE PollAct
  <2>1. seen' = Just("none") /\ UNCHANGED <<file, cli, q, verdict, ui, shown, choice, decided>>
        /\ ui = "idle" /\ prompts = <<>>
    BY <1>6 DEF PollAct, InHand, UiFree
  <2>2. CASE prompts' = prompts
    BY <2>1, <2>2 DEF Just
  <2>3. CASE prompts' # prompts
    <3>1. /\ prompts' = Append(prompts, seen) /\ ~CountsAsEmpty(seen)
          /\ seen.kind # "missing" /\ ~pending /\ seen.kind # "none"
      BY <1>6, <2>3 DEF PollAct
    <3>2. seen.kind = "question"
      BY <3>1 DEF CountsAsEmpty, InHand, TypeOK, Text
    <3>3. prompts' = <<seen>>
      BY <2>1, <3>1
    <3>4. \A k \in 1..Len(prompts') : file'.kind = "question" /\ prompts'[k].n = q'
      BY <2>1, <3>2, <3>3
    <3> QED
      BY <2>1, <3>4 DEF Just
  <2> QED
    BY <2>2, <2>3
<1>7. CASE Show
  <2>1. prompts \in Seq(Text) /\ prompts # <<>>
    BY <1>7 DEF Show, TypeOK
  <2>2. 1 \in 1..Len(prompts) /\ shown' = prompts[1] /\ Len(prompts') = Len(prompts) - 1
    BY <1>7, <2>1, HeadTailProperties, EmptySeq DEF Show
  <2>3. Len(prompts') = 0
    BY <2>1, <2>2, LenProperties DEF OnePrompt
  <2>4. file.kind = "question" /\ shown'.n = q
    BY <2>2
  <2> QED
    BY <1>7, <2>3, <2>4 DEF Show
<1>8. CASE Decide
  <2>1. shown.kind = "question" /\ shown.n = q /\ file.kind = "question" /\ cli = "poll"
    BY <1>8 DEF Decide, InHand
  <2>2. q \in Questions /\ verdict[q] = "none"
    BY <2>1 DEF Ahead, TypeOK, Questions
  <2>3. PICK a \in Answers : choice' = a /\ decided' = [decided EXCEPT ![q] = a]
    BY <1>8, <2>1 DEF Decide
  <2>4. decided'[q] = choice' /\ \A i \in Questions \ {q} : decided'[i] = decided[i]
    BY <2>2, <2>3 DEF TypeOK
  <2>5. \A i \in Questions : verdict[i] \in Answers => decided'[i] = verdict[i]
    BY <2>2, <2>4
  <2> QED
    BY <1>8, <2>1, <2>4, <2>5 DEF Decide
<1>9. CASE Remove
  <2>1. /\ ui = "remove" /\ cli = "poll" /\ prompts = <<>> /\ seen.kind = "none"
    BY <1>9 DEF Remove, OnePrompt, InHand, UiFree
  <2> QED
    BY <1>0, <1>9, <2>1 DEF Remove, Just
<1>10. CASE Create
  <2>1. ui = "create" /\ cli = "poll" /\ prompts = <<>> /\ seen.kind = "none"
    BY <1>10 DEF Create, OnePrompt, InHand, UiFree
  <2> QED
    BY <1>0, <1>10, <2>1 DEF Create, Just
<1>11. CASE Write
  <2>1. ui = "write" /\ cli = "poll" /\ prompts = <<>> /\ seen.kind = "none" /\ choice \in Answers
    BY <1>11 DEF Write, OnePrompt, InHand, UiFree, TypeOK
  <2> QED
    BY <1>0, <1>11, <2>1 DEF Write, Just
<1>12. CASE Flag
  BY <1>12 DEF Flag
<1>13. CASE Finish
  BY <1>13 DEF Finish, Just
<1>14. CASE UNCHANGED vars
  BY <1>14 DEF vars
<1> QED
  BY <1>1, <1>2, <1>3, <1>4, <1>5, <1>6, <1>7, <1>8, <1>9, <1>10, <1>11, <1>12, <1>13, <1>14
  DEF Next, Cli, Host

\* With the Qt host the CLI acts only on what the user decided about this very question, for
\* any number of questions, until the first time-out.
THEOREM VerdictsAreUsers ==
  ASSUME Polls = "timer"
  PROVE  Spec => []VerdictIsUsers
<1>1. Init => InHand
  BY DEF Init, InHand, UiFree, Just, Answers
<1>2. TypeOK /\ InHand /\ [Next]_vars => InHand'
  BY InHandStep
<1>3. Init => InTurn
  <2> SUFFICES ASSUME Init PROVE InTurn
    OBVIOUS
  <2>1. Len(prompts) = 0 /\ prompts = <<>>
    BY DEF Init
  <2> QED
    BY <2>1 DEF Init, InTurn, Ahead, OnePrompt, Turns, Just, Answers
<1>4. TypeOK /\ InHand /\ InTurn /\ [Next]_vars => InTurn'
  BY AheadStep, NoTimeOut, OnePromptStep, TurnsStep DEF InTurn
<1>5. InTurn => VerdictIsUsers
  BY DEF InTurn, Turns, VerdictIsUsers
<1> QED
  BY <1>1, <1>2, <1>3, <1>4, <1>5, HandshakeTypes, PTL DEF Spec
=============================================================================
