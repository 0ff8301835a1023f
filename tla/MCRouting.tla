----------------------------- MODULE MCRouting -----------------------------
(* Routing on a small instance.                                            *)
EXTENDS Routing, TLC

LOCAL S == INSTANCE SequencesExt

CONSTANTS c1, c2

SomeSubjects == {"alpha", "beta"}

\* One sentence for each way through the expressions.
Sentences ==
  {{"work", "alpha"}, {"topic", "alpha", "decides", "qmark"}, {"prefers", "personal"},
   {"explicit"}, {"asking", "profile", "personal"},
   {"lookup", "topic", "alpha"}, {"noise", "decides", "work"}, {"automem", "status"},
   {"chatty", "work"}, {"opening", "prefers", "lengthy"}, {"closing", "decides", "stop"},
   {"amend", "personal", "role"}}

AssistantTexts ==
  {<<>>, <<{"progress", "beta"}>>, <<{"quiet"}>>, <<{"profile"}, {"asking", "prefers"}>>}

\* What may follow another sentence in a message.
Seconds ==
  {{"work", "alpha"}, {"prefers", "personal"}, {"asking", "profile", "personal"},
   {"opening", "prefers", "lengthy"}, {"closing", "decides", "stop"}, {"explicit"}}

\* The first client posts everything, the second works on the same subjects.
SomeTurns ==
  [c \in {c1, c2} |->
     IF c = c1
       THEN [message : S!SeqOf(Sentences, 1), assistant : AssistantTexts,
             hints : {{}, {"explicit_long_term"}, {"task_like"}}]
            \cup [message : {<<s, t>> : s \in Sentences, t \in Seconds},
                  assistant : {<<>>, <<{"progress", "beta"}>>}, hints : {{}}]
       ELSE [message : {<<{"work", "alpha"}>>, <<{"work", "beta"}>>},
             assistant : {<<>>}, hints : {{}}]]

\* The second client can leave more tasks than are read.
SomeTaken == (c1 :> 1) @@ (c2 :> 2)
=============================================================================
