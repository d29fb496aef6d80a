------------------------------- MODULE Content -------------------------------
(***************************************************************************)
(* The tutor's learner-facing content (tutor/turn.go, tutor/content.go):   *)
(* per topic and grade band a diagnostic prompt, an explanation, a         *)
(* completion message, practice questions and one transfer question, each  *)
(* question with its expected answer; and how the tutor picks from it.     *)
(***************************************************************************)
EXTENDS Integers, Sequences

CONSTANTS
  contentByTopic,  \* topic -> grade band -> bundle
  Curriculum       \* the <<subject, topic>> pairs offered to clients

defaultBand == "JSS1-3"

qa == [question : STRING, expectedAnswer : STRING]

topicContent ==
  [diagnosticPrompt : STRING,
   explanation      : STRING,
   completion       : STRING,
   practice         : Seq(qa),
   transfer         : qa]

SupportedTopics == DOMAIN contentByTopic

BandsOf(topic) == DOMAIN contentByTopic[topic]

PracticeOf(topic, band) ==
  LET p == contentByTopic[topic][band].practice IN {p[i] : i \in DOMAIN p}

(***************************************************************************)
(* What the catalog's authors keep true: every topic has the default band, *)
(* every bundle at least two practice questions, the first two different   *)
(* ones, and no practice question of a topic is a transfer question of it, *)
(* in whichever band ("deliberately different from every practice          *)
(* question").                                                             *)
(***************************************************************************)
ASSUME ContentShape ==
  \A topic \in SupportedTopics :
    /\ defaultBand \in BandsOf(topic)
    /\ \A band \in BandsOf(topic) :
         LET c == contentByTopic[topic][band]
         IN  /\ c \in topicContent
             /\ Len(c.practice) >= 2
             /\ c.practice[1].question # c.practice[2].question
             /\ \A b \in BandsOf(topic) : \A p \in PracticeOf(topic, b) :
                  p.question # c.transfer.question

curriculumContains(subject, topic) == <<subject, topic>> \in Curriculum

contentForErr(topic, band) ==
  IF topic \in SupportedTopics /\ {band, defaultBand} \cap BandsOf(topic) # {}
  THEN "none"
  ELSE "ErrTopicNotYetSupported"

BandUsed(topic, band) == IF band \in BandsOf(topic) THEN band ELSE defaultBand

contentFor(topic, band) == contentByTopic[topic][BandUsed(topic, band)]

diagnosticPrompt(topic, band) == contentFor(topic, band).diagnosticPrompt

explanation(topic, band) == contentFor(topic, band).explanation

completionMessage(topic, band) == contentFor(topic, band).completion

transferQuestion(topic, band) == contentFor(topic, band).transfer

firstPracticeQuestion(topic, band) == contentFor(topic, band).practice[1]

(* Mutant: practice starts over after every miss. *)
nextIsFirst(topic, band, last) == contentFor(topic, band).practice[1]

(* The first practice question other than last, the first of all if none. *)
nextPracticeQuestion(topic, band, last) ==
  LET p == contentFor(topic, band).practice
      other == {i \in DOMAIN p : p[i].question # last}
  IN  IF other = {} THEN p[1]
      ELSE p[CHOOSE i \in other : \A j \in other : i <= j]

=============================================================================
