------------------------------- MODULE Catalog -------------------------------
(***************************************************************************)
(* The catalog the server ships (tutor/content.go, additionByBand and      *)
(* Curriculum in tutor/turn.go).  The code only compares texts, and no two *)
(* texts of the catalog are equal, so a question stands as its topic, band *)
(* and place; the expected answers are the real ones, since two questions  *)
(* may share one.                                                          *)
(***************************************************************************)
EXTENDS Sequences, TLC

Text(topic, band, name) == topic \o ", " \o band \o ": " \o name

Question(topic, band, name, answer) ==
  [question |-> Text(topic, band, name), expectedAnswer |-> answer]

(* A bundle, from the answers to its practice and transfer questions. *)
Bundle(topic, band, practice, transfer) ==
  [diagnosticPrompt |-> Text(topic, band, "what do you know"),
   explanation      |-> Text(topic, band, "explanation"),
   completion       |-> Text(topic, band, "mastered"),
   practice         |-> [i \in DOMAIN practice |->
                           Question(topic, band, <<"1st", "2nd", "3rd">>[i], practice[i])],
   transfer         |-> Question(topic, band, "transfer", transfer)]

ByBand(topic, primary, jss, sss) ==
  "Primary 4-6" :> Bundle(topic, "Primary 4-6", primary[1], primary[2])
  @@ "JSS1-3" :> Bundle(topic, "JSS1-3", jss[1], jss[2])
  @@ "SSS1-3" :> Bundle(topic, "SSS1-3", sss[1], sss[2])

additionByBand == ByBand("Addition",
  << <<"10", "10", "7">>, "11" >>,
  << <<"10", "10", "7">>, "11" >>,
  << <<"10", "10", "7">>, "11" >>)

subtractionByBand == ByBand("Subtraction",
  << <<"5", "4", "7">>, "7" >>,
  << <<"5", "9", "12">>, "8" >>,
  << <<"9", "15", "23">>, "36" >>)

multiplicationByBand == ByBand("Multiplication",
  << <<"12", "15", "16">>, "24" >>,
  << <<"42", "48", "63">>, "65" >>,
  << <<"96", "90", "100">>, "153" >>)

divisionByBand == ByBand("Division",
  << <<"4", "5", "2">>, "5" >>,
  << <<"4", "9", "7">>, "8" >>,
  << <<"12", "21", "15">>, "30" >>)

partsOfSpeechByBand == ByBand("Parts of Speech",
  << <<"runs", "cat", "big">>, "cooks" >>,
  << <<"completed", "book", "tall">>, "loudly" >>,
  << <<"approved", "obsolete", "persuasively">>, "because" >>)

FullCatalog ==
  "Addition" :> additionByBand
  @@ "Subtraction" :> subtractionByBand
  @@ "Multiplication" :> multiplicationByBand
  @@ "Division" :> divisionByBand
  @@ "Parts of Speech" :> partsOfSpeechByBand

FullCurriculum ==
  {"Mathematics"} \X {"Addition", "Subtraction", "Multiplication", "Division"}
  \cup {<<"English Language", "Parts of Speech">>}

(***************************************************************************)
(* The explanations that state the answer to a question of the same        *)
(* bundle: "If you share 12 sweets among 3 friends, each friend gets 4"    *)
(* and the first practice question of that band, and so on.                *)
(***************************************************************************)
WorkedOut ==
  {<<Text(e[1], e[2], "explanation"), Text(e[1], e[2], e[3])>> : e \in
     {<<"Addition", "SSS1-3", "1st">>, <<"Subtraction", "JSS1-3", "1st">>,
      <<"Division", "Primary 4-6", "1st">>, <<"Division", "JSS1-3", "1st">>,
      <<"Parts of Speech", "Primary 4-6", "2nd">>}}

=============================================================================
