---------------------------- MODULE RosterProofs ----------------------------
(***************************************************************************)
(* Turns of a roster of any length: its types, whose answers are taken,    *)
(* and that a roster of distinct names passes the turn to everyone.        *)
(***************************************************************************)
EXTENDS Roster, SessionProofs

(* The names of a roster are texts. *)
LEMMA NamesAreText == \A i \in Position : order[i] \in Names /\ order[i] \in STRING
  BY OrderType DEF Position, Names

(* The turn passes to a place of the roster (AdvanceTurn). *)
LEMMA NextPlace ==
  ASSUME NEW i \in Position
  PROVE  /\ i < Len(order) => i % Len(order) = i
         /\ i = Len(order) => i % Len(order) = 0
         /\ (i % Len(order)) + 1 \in Position
<1>1. Len(order) \in Nat /\ i \in 1 .. Len(order)
  BY OrderType DEF Position
<1> HIDE DEF Position
<1>2. (i < Len(order) => i % Len(order) = i) /\ (i = Len(order) => i % Len(order) = 0)
  BY <1>1
<1>3. CASE i < Len(order)
  <2>1. i % Len(order) = i BY <1>2, <1>3
  <2>2. i + 1 \in 1 .. Len(order) BY <1>1, <1>3
  <2> QED BY <1>2, <2>1, <2>2 DEF Position
<1>4. CASE i = Len(order)
  <2>1. i % Len(order) = 0 BY <1>2, <1>4
  <2>2. 0 + 1 \in 1 .. Len(order) BY <1>1
  <2> QED BY <1>2, <2>1, <2>2 DEF Position
<1> QED BY <1>1, <1>3, <1>4

(* Whatever a caller does with a learner's session, it stays one           *)
(* (Roster.Session).                                                       *)
LEMMA DirectType ==
  ASSUME TypeOK, NEW name \in Names, Direct(name)
  PROVE  sessions' \in [Names -> Session]
<1> DEFINE s == sessions[name]
<1>1. s \in Session BY DEF TypeOK
<1>2. \A a \in Answers : RecordDiagnosticResponse(s, a) \in Session
  BY <1>1, RecordDiagnosticResponseType, TextType
<1>3. CheckAnswer(s) \in Session BY <1>1, CheckAnswerType
<1>4. ASSUME NEW q \in Questions
      PROVE  /\ AskQuestion(s, q.question, q.expectedAnswer) \in Session
             /\ AskTransferQuestion(s, q.question, q.expectedAnswer) \in Session
  <2>1. q.question \in STRING /\ q.expectedAnswer \in STRING BY TextType
  <2> QED BY <1>1, <2>1, AskQuestionType, AskTransferQuestionType
<1>5. PICK t \in Session : sessions' = [sessions EXCEPT ![name] = t]
  BY <1>2, <1>3, <1>4 DEF Direct
<1> QED BY <1>5 DEF TypeOK

(* A roster's sessions, turn and errors have their types (Roster). *)
THEOREM TypeCorrect == Spec => []TypeOK
<1>1. Init => TypeOK
  <2> SUFFICES ASSUME Init PROVE TypeOK OBVIOUS
  <2>1. \A l \in Names : New(l) \in Session
    BY NamesAreText, NewType DEF Names
  <2>2. order # <<>> => 1 \in Position
    BY OrderType DEF Position
  <2>3. active \in IF order = <<>> THEN {NoText} ELSE Names
    BY <2>2, NamesAreText DEF Init
  <2> QED BY <2>1, <2>3 DEF Init, TypeOK, RosterErrors
<1>2. TypeOK /\ [Next]_vars => TypeOK'
  <2> SUFFICES ASSUME TypeOK, [Next]_vars PROVE TypeOK' OBVIOUS
  <2>1. CASE AdvanceTurn
    <3>1. PICK i \in Position : active' = NextAfter(i)
      BY <2>1 DEF AdvanceTurn
    <3>2. active' \in Names /\ order # <<>>
      BY <2>1, <3>1, NextPlace, NamesAreText, OrderType DEF NextAfter, AdvanceTurn
    <3> QED BY <2>1, <3>2 DEF AdvanceTurn, TypeOK
  <2>2. ASSUME NEW name \in Names \cup Strangers, NEW a \in Answers, SubmitAnswerFor(name, a)
        PROVE  TypeOK'
    <3>1. SubmitErr(name) \in RosterErrors BY DEF SubmitErr, RosterErrors
    <3>2. SubmitErr(name) = NoError => name \in Names
      BY DEF SubmitErr, NoError
    <3>3. name \in Names => SubmitAnswer(sessions[name], a) \in Session
      BY SubmitAnswerType, TextType DEF TypeOK
    <3> QED BY <2>2, <3>1, <3>2, <3>3 DEF SubmitAnswerFor, TypeOK
  <2>3. ASSUME NEW name \in Names, Direct(name) PROVE TypeOK'
    BY <2>3, DirectType DEF Direct, TypeOK
  <2>4. CASE UNCHANGED vars BY <2>4 DEF vars, TypeOK
  <2> QED BY <2>1, <2>2, <2>3, <2>4 DEF Next
<1> QED BY <1>1, <1>2, PTL DEF Spec

-----------------------------------------------------------------------------
(* An answer reaches no session but that of the learner whose turn it is   *)
(* (SubmitAnswerFor), for every roster.                                    *)
THEOREM AnswersAreInTurn == Spec => AnswersInTurn
<1>1. TypeOK /\ [Next]_vars =>
        [\A l \in Names : Given(sessions'[l]) # Given(sessions[l]) /\ sessions'[l].hasAnswer
                            => l = active]_vars
  <2> SUFFICES ASSUME TypeOK, Next, NEW l \in Names,
                      Given(sessions'[l]) # Given(sessions[l]), sessions'[l].hasAnswer
               PROVE  l = active
    OBVIOUS
  <2>1. CASE AdvanceTurn BY <2>1 DEF AdvanceTurn
  <2>2. ASSUME NEW name \in Names \cup Strangers, NEW a \in Answers, SubmitAnswerFor(name, a)
        PROVE  l = active
    BY <2>2 DEF SubmitAnswerFor, SubmitErr, NoError, TypeOK
  <2>3. ASSUME NEW name \in Names, Direct(name) PROVE l = active
    <3> DEFINE s == sessions[name]
    <3>1. s \in Session BY DEF TypeOK
    <3>2. PICK t : /\ sessions' = [sessions EXCEPT ![name] = t]
                   /\ \/ \E a \in Answers : t = RecordDiagnosticResponse(s, a)
                      \/ t = CheckAnswer(s)
                      \/ \E q \in Questions : t = AskQuestion(s, q.question, q.expectedAnswer)
                      \/ \E q \in Questions :
                           t = AskTransferQuestion(s, q.question, q.expectedAnswer)
      BY <2>3 DEF Direct
    <3>3. t.hasAnswer => Given(t) = Given(s)
      BY <3>1, <3>2 DEF RecordDiagnosticResponse, CheckAnswer, AskQuestion, AskTransferQuestion,
                        Given, Session
    <3>4. \/ l = name /\ sessions'[l] = t
          \/ sessions'[l] = sessions[l]
      BY <3>2 DEF TypeOK
    <3> QED BY <3>3, <3>4
  <2> QED BY <2>1, <2>2, <2>3 DEF Next
<1> QED BY <1>1, TypeCorrect, PTL DEF Spec, AnswersInTurn

-----------------------------------------------------------------------------
(* How long ago the turn was at place j, when it is at place i. *)
Ago(i, j) == IF j <= i THEN i - j ELSE Len(order) + i - j

(* The turn is at a place of the roster, and no learner has waited longer  *)
(* than since the turn was at the learner's place.                         *)
TurnInv ==
  order # <<>> =>
    \E i \in Position :
      /\ active = order[i]
      /\ \A j \in Position : waited[order[j]] \in Nat /\ waited[order[j]] <= Ago(i, j)

(* A turn that is passed on keeps it so, in a roster of distinct names     *)
(* (AdvanceTurn).                                                          *)
LEMMA AdvanceKeepsTurn ==
  ASSUME Distinct, TypeOK, TurnInv, AdvanceTurn
  PROVE  TurnInv'
<1> DEFINE n == Len(order)
<1>1. n \in Nat /\ n >= 2 /\ order # <<>>
  BY OrderType DEF AdvanceTurn
<1>2. PICK i \in Position :
        /\ active = order[i]
        /\ \A j \in Position : waited[order[j]] \in Nat /\ waited[order[j]] <= Ago(i, j)
  BY <1>1 DEF TurnInv
<1> DEFINE k == (i % n) + 1
<1>3. k \in Position /\ (i < n => k = i + 1) /\ (i = n => k = 1)
  <2>1. i < n => i % n = i BY NextPlace
  <2>2. i = n => i % n = 0 BY NextPlace
  <2>3. i < n => k = i + 1 BY <2>1
  <2>4. i = n => k = 0 + 1 BY <2>2
  <2>5. k \in Position BY NextPlace
  <2> QED BY <2>3, <2>4, <2>5
<1>4. active' = order[k]
  BY <1>2 DEF AdvanceTurn, NextAfter, Distinct
<1>5. ASSUME NEW j \in Position
      PROVE  waited'[order[j]] \in Nat /\ waited'[order[j]] <= Ago(k, j)
  <2>1. order[j] \in Names BY NamesAreText
  <2>2. waited'[order[j]] = IF j = k THEN 0 ELSE waited[order[j]] + 1
    BY <1>3, <1>4, <2>1 DEF AdvanceTurn, Distinct
  <2>3. waited[order[j]] \in Nat /\ waited[order[j]] <= Ago(i, j)
    BY <1>2
  <2>4. i \in 1 .. n /\ j \in 1 .. n /\ k \in 1 .. n
    BY <1>3 DEF Position
  <2> HIDE DEF k
  <2>5. j # k => Ago(i, j) + 1 <= Ago(k, j)
    BY <1>1, <1>3, <2>4 DEF Ago
  <2>6. Ago(k, j) \in Nat /\ Ago(i, j) \in Nat
    BY <1>1, <2>4 DEF Ago
  <2> HIDE DEF n
  <2>7. CASE j = k BY <2>2, <2>6, <2>7
  <2>8. CASE j # k BY <2>2, <2>3, <2>5, <2>6, <2>8
  <2> QED BY <2>7, <2>8
<1>6. \E m \in Position :
        /\ active' = order[m]
        /\ \A j \in Position : waited'[order[j]] \in Nat /\ waited'[order[j]] <= Ago(m, j)
  BY <1>3, <1>4, <1>5
<1> QED BY <1>6 DEF TurnInv, Ago

(* In a roster of distinct names everyone has had the turn within one      *)
(* round, however long the roster ("wrapping around to the first learner   *)
(* after the last": AdvanceTurn).                                          *)
THEOREM TurnsGoRound == ASSUME Distinct PROVE Spec => []EveryoneGetsTurn
<1>1. Init => TurnInv
  <2> SUFFICES ASSUME Init, order # <<>> PROVE TurnInv BY DEF TurnInv
  <2>1. Len(order) \in Nat /\ 1 \in Position
    BY OrderType DEF Position
  <2>2. \A j \in Position : waited[order[j]] = 0 /\ 0 <= Ago(1, j)
    BY <2>1, NamesAreText DEF Init, Position, Ago
  <2> QED BY <2>1, <2>2 DEF Init, TurnInv
<1>2. TypeOK /\ TurnInv /\ [Next]_vars => TurnInv'
  <2> SUFFICES ASSUME TypeOK, TurnInv, [Next]_vars PROVE TurnInv' OBVIOUS
  <2>1. CASE AdvanceTurn BY <2>1, AdvanceKeepsTurn
  <2>2. ASSUME NEW name \in Names \cup Strangers, NEW a \in Answers, SubmitAnswerFor(name, a)
        PROVE  TurnInv'
    BY <2>2 DEF SubmitAnswerFor, TurnInv
  <2>3. ASSUME NEW name \in Names, Direct(name) PROVE TurnInv'
    BY <2>3 DEF Direct, TurnInv
  <2>4. CASE UNCHANGED vars BY <2>4 DEF vars, TurnInv
  <2> QED BY <2>1, <2>2, <2>3, <2>4 DEF Next
<1>3. TurnInv => EveryoneGetsTurn
  <2> SUFFICES ASSUME TurnInv, NEW j \in Position PROVE waited[order[j]] < Len(order)
    BY DEF EveryoneGetsTurn, Names
  <2>1. Len(order) \in Nat /\ j \in 1 .. Len(order) /\ order # <<>>
    BY OrderType DEF Position
  <2>2. PICK i \in Position : waited[order[j]] \in Nat /\ waited[order[j]] <= Ago(i, j)
    BY <2>1 DEF TurnInv
  <2>3. i \in 1 .. Len(order) BY DEF Position
  <2>4. Ago(i, j) < Len(order) /\ Ago(i, j) \in Nat BY <2>1, <2>3 DEF Ago
  <2> QED BY <2>1, <2>2, <2>4
<1> QED BY <1>1, <1>2, <1>3, TypeCorrect, PTL DEF Spec

=============================================================================
