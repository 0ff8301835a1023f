------------------------------- MODULE Routing -------------------------------
(***************************************************************************)
(* What becomes of a turn: POST /v1/memory-route decides between a         *)
(* long-term entry, a task, both and nothing, and the client then posts    *)
(* the entries to /v1/memories and the task to /v1/task-summaries, where   *)
(* every text is judged again.  Regular expressions decide first and a     *)
(* language model may overrule them, differently at every call.            *)
(*                                                                         *)
(* A sentence is the set of the kinds of words the expressions look for in *)
(* it; a text is a sequence of sentences.                                  *)
(***************************************************************************)
EXTENDS Integers, Sequences, FiniteSets

CONSTANTS
  Clients,   \* the adapters that post turns
  Subjects,  \* what a task can be about
  Turns,     \* Turns[c]: the turns client c may post
  Judges,    \* the configurations considered: "off", "on"
  Limit,     \* tasks that fetch_tasks reads: 50
  MaxTurns   \* MaxTurns[c] is a bound: turns of client c

Kinds ==
  {"noise",    \* scaffolding: transport metadata, cron templates, banners
   "reply",    \* a reply marker of the gateway, NO_REPLY
   "qmark",    \* it ends in a question mark
   "stop",     \* it ends in another mark that ends a sentence
   "asking",   \* a question of the long list: what is my name
   "opening",  \* it begins with the words of a question
   "closing",  \* it ends with the words of a question, but for the mark
   "explicit", \* asks to remember for the long term
   "profile",  \* gives the user's name
   "role",     \* gives the user's role
   "company",  \* gives the user's company
   "prefers",  \* states a preference
   "decides",  \* states a decision, a rule or the project's context
   "automem",  \* a word only the judge takes for a fact
   "lengthy",  \* too long for a preference, or speaks of this conversation
   "personal", \* words that speak against a task unless work is mentioned
   "work",     \* words of work: continue, fix, implement
   "amend",    \* words of work too, which make up for personal ones only to the judge
   "topic",    \* words of the system: routing, backend, the next step
   "lookup",   \* asks for the next step or the state of some task
   "status",   \* asks for the current tasks
   "chatty",   \* begins or ends like conversation
   "progress", \* reports something done, blocked or next
   "quiet"}    \* says that there is no task

Words == Kinds \cup Subjects
Sentence == SUBSET Words
Marks == {"qmark", "stop"}
Questions == {"asking", "opening", "closing"}

Untitled == {"untitled"}
Titles == Sentence \cup {Untitled}
NoTask == {"none"}
Tasks == Titles \cup {NoTask}

\* What the model writes in the place of a text: anything, also a question.
ModelTexts == {{"rewritten"}, {"rewritten", "asking"}}

Turn == [message : Seq(Sentence), assistant : Seq(Sentence),
         hints : SUBSET {"explicit_long_term", "task_like"}]

ASSUME RoutingConstantsOK ==
  /\ Subjects \cap (Kinds \cup {"rewritten", "untitled", "none"}) = {}
  /\ \A c \in Clients : Turns[c] \subseteq Turn
  /\ Judges \subseteq {"off", "on"}
  /\ Limit \in Nat \ {0}
  /\ \A c \in Clients : MaxTurns[c] \in Nat

VARIABLES
  judge,       \* is a language model configured?  Never changes
  active,      \* the active tasks of kind work, each its title
  closed,      \* the tasks that have been closed, likewise
  clients,     \* client -> the turn it is posting, and how far it is
  taken,       \* client -> turns so far (bounded by MaxTurns)
  blind        \* history: a turn was resolved before another's task was written,
               \* or with more active tasks than are read

vars == <<judge, active, closed, clients, taken, blind>>

-----------------------------------------------------------------------------
(* The expressions *)

WordsOf(text) == UNION {text[i] : i \in DOMAIN text}
Says(text, kinds) == WordsOf(text) \cap kinds # {}
Empty(text) == text = <<>>

DetectNoise(words) == words \cap {"noise", "reply"} # {}

\* Some questions are found anywhere in a text, others only where it begins or
\* where it ends with no mark behind them.
IsQueryLike(text) ==
  \/ Says(text, {"asking"})
  \/ ~Empty(text) /\ LET first == text[1]
                        last == text[Len(text)]
                    IN \/ "opening" \in first
                       \/ "qmark" \in last
                       \/ "closing" \in last /\ "stop" \notin last

\* split_sentences cuts at the marks, which are then gone.
SplitSentences(text) == {text[i] \ Marks : i \in DOMAIN text}

InferCategory(words) ==
  IF "profile" \in words THEN "user_profile"
  ELSE IF "prefers" \in words THEN "preference"
  ELSE IF words \cap {"decides", "company"} # {} THEN "decision"
  ELSE IF "role" \in words THEN "user_profile" ELSE "none"

Entry(words, category) == [text |-> words, category |-> category]
Entries == [text : SUBSET (Words \cup {"rewritten"}),
            category : {"user_profile", "preference", "decision"}]

CanonicalizeItemMutant(text) ==
  IF IsQueryLike(text) THEN {} ELSE {Entry(WordsOf(text), InferCategory(WordsOf(text)))}

\* An explicit request is one item, for its line breaks are gone by now; a name,
\* a role and a company are cut out of it, and the rest is then not looked at.
CanonicalizeItem(text) ==
  LET cut == WordsOf(text) \cap {"profile", "role", "company"} IN
  IF IsQueryLike(text) THEN {}
  ELSE IF cut # {} THEN {Entry({k}, InferCategory({k})) : k \in cut}
  ELSE IF InferCategory(WordsOf(text)) = "none" THEN {}
  ELSE {Entry(WordsOf(text), InferCategory(WordsOf(text)))}

SentenceEntriesMutant(text) ==
  {Entry(s, InferCategory(s)) :
     s \in {t \in SplitSentences(text) : InferCategory(t) # "none"}}

SentenceEntries(text) ==
  {Entry(s, InferCategory(s)) :
     s \in {t \in SplitSentences(text) : /\ t \cap Questions = {}
                                         /\ InferCategory(t) # "none"}}

ExtractLongTermEntries(text) ==
  IF Empty(text) THEN {}
  ELSE IF Says(text, {"explicit"}) THEN CanonicalizeItem(text)
  ELSE SentenceEntries(text)

\* The router and the judge have an expression each for what is a task: they
\* differ in the words that outweigh personal ones ...
SaysTask(message, assistant, outweighing) ==
  /\ Says(message, {"personal"}) => Says(message, outweighing)
  /\ Says(message, {"work", "amend", "topic"}) \/ Says(assistant, {"progress"})

\* ... and only the router's has exceptions.
LooksTaskWorthy(message, assistant) ==
  /\ ~Says(message, {"explicit", "status"})
  /\ ~Says(assistant, {"quiet"})
  /\ SaysTask(message, assistant, {"work"})

-----------------------------------------------------------------------------
(* The route *)

\* route_memory: where the entries of a turn come from.
LongTermEntries(turn) ==
  LET own == ExtractLongTermEntries(turn.message) IN
  IF own = {} /\ "explicit_long_term" \in turn.hints
    THEN ExtractLongTermEntries(turn.assistant)
    ELSE own

TaskLike(turn) ==
  "task_like" \in turn.hints \/ LooksTaskWorthy(turn.message, turn.assistant)

FallbackRoute(turn) ==
  LET entries == LongTermEntries(turn) # {} IN
  IF entries /\ TaskLike(turn) THEN "mixed"
  ELSE IF entries THEN "long_term"
  ELSE IF TaskLike(turn) THEN "task" ELSE "drop"

\* A word of a fact in a message that is no question.
DurableKind(turn) ==
  /\ ~IsQueryLike(turn.message)
  /\ Says(turn.message,
          {"profile", "role", "company", "prefers", "decides", "automem"})

HeuristicRouteHintMutant(turn) ==
  IF "explicit_long_term" \in turn.hints \/ DurableKind(turn) THEN "long_term"
  ELSE IF TaskLike(turn) THEN "task" ELSE "drop"
HeuristicRouteTaskMutant(turn) ==
  IF LongTermEntries(turn) # {} \/ DurableKind(turn) THEN "long_term"
  ELSE IF TaskLike(turn) THEN "task" ELSE "drop"

HeuristicRoute(turn) ==
  LET explicit == \/ "explicit_long_term" \in turn.hints
                  \/ LongTermEntries(turn) # {}
      like == \/ TaskLike(turn)
              \/ SaysTask(turn.message, turn.assistant, {"work", "amend"})
  IN IF explicit /\ like THEN "mixed"
     ELSE IF explicit \/ DurableKind(turn)
       THEN IF like /\ ~Empty(turn.assistant) THEN "mixed" ELSE "long_term"
     ELSE IF like THEN "task" ELSE "drop"

\* The hard rules of judge_route_candidate.
RouteIsHard(turn) ==
  \/ DetectNoise(WordsOf(turn.message)) /\ Empty(turn.assistant)
  \/ Empty(turn.message) /\ Empty(turn.assistant)

\* A confident drop is final, and so is everything when the judge is off.
NotJudged(turn) == judge = "off" \/ FallbackRoute(turn) = "drop"

AsksModel(turn) == ~NotJudged(turn) /\ ~RouteIsHard(turn)

\* The route when the model is not asked, or gives no usable answer.
PlainRoute(turn) ==
  IF NotJudged(turn) THEN FallbackRoute(turn)
  ELSE IF RouteIsHard(turn) THEN "drop"
  ELSE HeuristicRoute(turn)

Routes == {"drop", "long_term", "task", "mixed"}

-----------------------------------------------------------------------------
(* The task *)

\* Titles are those that sanitize_task_title leaves as they are.
DeriveTitle(message) ==
  IF Empty(message) THEN Untitled ELSE message[1] \ Marks

SummaryOf(turn) ==
  IF Empty(turn.assistant) THEN WordsOf(turn.message) ELSE WordsOf(turn.assistant)

\* classify_task_kind and should_materialize_task
IsWork(title, summary) ==
  (title \cup summary) \cap {"noise", "quiet"} = {} /\ "chatty" \notin title

MaterializeLookupMutant(title, turn) == title # NoTask /\ IsWork(title, SummaryOf(turn))

Materializes(title, turn) ==
  /\ title # NoTask
  /\ IsWork(title, SummaryOf(turn))
  /\ ~Says(turn.message, {"lookup"})

\* task_candidate_score is above the threshold of a task whose title stands in the
\* message; of any other task the score is left open, for it depends on how many
\* words the message shares with the title, the aliases and the last summary.
TitledMutant(message, seen) == {t \in seen : t = DeriveTitle(message)}
Titled(message, seen) == {t \in seen : t \in SplitSentences(message)}

\* fetch_tasks reads the tasks updated last; which these are is left open.
Readable ==
  IF Cardinality(active) <= Limit THEN {active}
  ELSE {seen \in SUBSET active : Cardinality(seen) = Limit}

\* resolve_task: the titles it may answer with, the one with the highest score.
\* A lookup question needs a higher score, and makes no task when it misses.
ResolveTask(turn, seen) ==
  LET title == DeriveTitle(turn.message)
      otherwise ==
        IF Says(turn.message, {"lookup"}) THEN {NoTask}
        ELSE IF Titled(turn.message, seen) # {} THEN {}
        ELSE IF Materializes(title, turn) THEN {title} ELSE {NoTask}
  IN IF LooksTaskWorthy(turn.message, turn.assistant)
       THEN seen \cup otherwise ELSE {NoTask}

\* The task of the answer: evaluated once more under the resolved title.
TaskFor(route, resolved, turn) ==
  IF route \in {"task", "mixed"} /\ Materializes(resolved, turn)
    THEN resolved ELSE NoTask

-----------------------------------------------------------------------------
(* The clients *)

Places == {"idle", "entries", "summary", "upsert", "fields", "done", "failed"}
Fields == {"summary", "progress"}

Client ==
  [pc : Places,
   turn : Turn,
   entries : SUBSET Entries,  \* the entries of the answer
   todo : SUBSET Entries,     \* those not posted yet
   task : Tasks,              \* the task of the answer, or NoTask
   worth : Tasks,             \* history: what resolve_task made of the turn
   fields : SUBSET Fields,    \* fields of the summary that were approved
   kept : SUBSET Entries,     \* entries stored
   wrote : Tasks,             \* the task written, or NoTask
   notes : SUBSET Fields,     \* fields stored as memories of the task
   judged : BOOLEAN]          \* history: the model had a say in this turn

NoTurn == [message |-> <<>>, assistant |-> <<>>, hints |-> {}]
IdleClient ==
  [pc |-> "idle", turn |-> NoTurn, entries |-> {}, todo |-> {}, task |-> NoTask,
   worth |-> NoTask, fields |-> {}, kept |-> {}, wrote |-> NoTask, notes |-> {},
   judged |-> FALSE]

Init ==
  /\ judge \in Judges
  /\ active = {}
  /\ closed = {}
  /\ clients = [c \in Clients |-> IdleClient]
  /\ taken = [c \in Clients |-> 0]
  /\ blind = FALSE

Goto(c, new) == clients' = [clients EXCEPT ![c] = new]
Resting(c) == clients[c].pc \in {"idle", "done", "failed"}
Pending(c) == clients[c].pc \in {"entries", "summary", "upsert"}

\* Where a client goes when no entry is left to post.
AfterEntries(cl) ==
  [cl EXCEPT !.pc = IF cl.todo # {} THEN "entries"
                    ELSE IF cl.task # NoTask THEN "summary" ELSE "done"]

\* The client after the answer of /v1/memory-route.  A mixed turn without
\* entries is answered with drop, its task notwithstanding.
Answered(turn, route, resolved, judged) ==
  LET task == TaskFor(route, resolved, turn)
      entries == IF route \in {"long_term", "mixed"} THEN LongTermEntries(turn)
                                                     ELSE {}
  IN AfterEntries([IdleClient EXCEPT
       !.turn = turn, !.entries = entries, !.todo = entries,
       !.task = IF route = "mixed" /\ entries = {} THEN NoTask ELSE task,
       !.worth = TaskFor("task", resolved, turn), !.judged = judged])

\* POST /v1/memory-route
RouteMemory(c) ==
  /\ Resting(c)
  /\ taken[c] < MaxTurns[c]
  /\ taken' = [taken EXCEPT ![c] = @ + 1]
  /\ \E turn \in Turns[c], seen \in Readable :
     \E resolved \in ResolveTask(turn, seen) :
       \/ Goto(c, Answered(turn, PlainRoute(turn), resolved, FALSE))
       \/ /\ AsksModel(turn)
          /\ \E route \in Routes : Goto(c, Answered(turn, route, resolved, TRUE))
       \/ /\ AsksModel(turn)  \* an answer _call_llm does not expect
          /\ Goto(c, [IdleClient EXCEPT !.pc = "failed", !.turn = turn,
                                        !.judged = TRUE])
  /\ blind' = \/ blind
              \/ Cardinality(active) > Limit
              \/ \E d \in Clients : Pending(d)
  /\ UNCHANGED <<judge, active, closed>>

\* govern_text_decision: the hard rules drop noise, and a preference is decided
\* without the model, also against it; of any other text the model may say anything.
SureNoise(words, category) ==
  DetectNoise(words) \/ (category = "preference" /\ "lengthy" \in words)
AsksAbout(words, category) ==
  judge = "on" /\ ~DetectNoise(words) /\ category # "preference"

\* POST /v1/memories for one entry
PostEntry(c) ==
  LET cl == clients[c] IN
  /\ cl.pc = "entries"
  /\ \E e \in cl.todo :
       LET next == [cl EXCEPT !.todo = @ \ {e}]
           judged == [next EXCEPT !.judged = TRUE]
       IN \/ Goto(c, AfterEntries(IF SureNoise(e.text, e.category) THEN next
                                  ELSE [next EXCEPT !.kept = @ \cup {e}]))
          \/ /\ AsksAbout(e.text, e.category)
             /\ \/ Goto(c, AfterEntries(judged))
                \/ \E text \in {e.text} \cup ModelTexts :
                     Goto(c, AfterEntries([judged EXCEPT
                               !.kept = @ \cup {[e EXCEPT !.text = text]}]))
                \/ Goto(c, [judged EXCEPT !.pc = "failed"])
  /\ UNCHANGED <<judge, active, closed, taken, blind>>

\* derive_task_summary: every turn has a summary, some report progress.
SummaryFields(turn) ==
  {"summary"} \cup (IF Says(turn.assistant, {"progress"}) THEN {"progress"} ELSE {})

\* POST /v1/task-summaries: the task is evaluated again, then every field of
\* the summary is judged, and nothing is written when none is approved.
JudgeFields(c) ==
  LET cl == clients[c]
      fields == SummaryFields(cl.turn)
      noise == SureNoise(SummaryOf(cl.turn), "task")
      Approve(some, judged) ==
        Goto(c, [cl EXCEPT !.fields = some, !.judged = @ \/ judged,
                           !.pc = IF some = {} THEN "done" ELSE "upsert"])
  IN
  /\ cl.pc = "summary"
  /\ \/ Approve(IF noise \/ ~Materializes(cl.task, cl.turn) THEN {} ELSE fields,
                FALSE)
     \/ /\ AsksAbout(SummaryOf(cl.turn), "task")
        /\ Materializes(cl.task, cl.turn)
        /\ \/ \E some \in SUBSET fields : Approve(some, TRUE)
           \/ Goto(c, [cl EXCEPT !.pc = "failed", !.judged = TRUE])
  /\ UNCHANGED <<judge, active, closed, taken, blind>>

\* upsert_task: a task that was closed is written and stays closed.
UpsertTask(c) ==
  LET cl == clients[c] IN
  /\ cl.pc = "upsert"
  /\ active' = active \cup ({cl.task} \ closed)
  /\ Goto(c, [cl EXCEPT !.pc = "fields", !.wrote = cl.task])
  /\ UNCHANGED <<judge, closed, taken, blind>>

\* The approved fields are stored, each judged once more.
StoreField(c) ==
  LET cl == clients[c] IN
  /\ cl.pc = "fields"
  /\ \E f \in cl.fields :
       LET next == [cl EXCEPT !.fields = @ \ {f},
                              !.pc = IF cl.fields = {f} THEN "done" ELSE "fields"]
       IN \/ Goto(c, [next EXCEPT !.notes = @ \cup {f}])
          \/ /\ AsksAbout(SummaryOf(cl.turn), "task")
             /\ \/ Goto(c, [next EXCEPT !.judged = TRUE])
                \/ Goto(c, [next EXCEPT !.judged = TRUE, !.pc = "failed"])
  /\ UNCHANGED <<judge, active, closed, taken, blind>>

\* A task is closed by someone else.
CloseTask ==
  /\ \E t \in active :
       /\ active' = active \ {t}
       /\ closed' = closed \cup {t}
  /\ UNCHANGED <<judge, clients, taken, blind>>

Next ==
  \/ \E c \in Clients :
       \/ RouteMemory(c)
       \/ PostEntry(c)
       \/ JudgeFields(c)
       \/ UpsertTask(c)
       \/ StoreField(c)
  \/ CloseTask

Spec == Init /\ [][Next]_vars

-----------------------------------------------------------------------------
(* Properties *)

\* Answers, tasks and stored entries have the shape the handlers give them.
TypeOK ==
  /\ judge \in {"off", "on"}
  /\ active \subseteq Tasks
  /\ closed \subseteq Tasks
  /\ clients \in [Clients -> Client]
  /\ taken \in [Clients -> Nat]
  /\ blind \in BOOLEAN

\* An explicit request to remember something, and a question about a task, write
\* no task: neither the hints of the adapter nor the model can make them one.
OnlyWorkWritesTask ==
  \A c \in Clients :
    clients[c].wrote # NoTask =>
      ~Says(clients[c].turn.message, {"explicit", "status", "lookup"})

\* A question by its words is kept as a fact only when the model wrote it in the
\* place of one, or when an explicit request has it somewhere in the middle: none
\* of those that are known wherever they stand, and no sentence of another text,
\* whichever of the two texts it was taken from.
QuestionsByWordsAreNotKept ==
  \A c \in Clients : \A e \in clients[c].kept :
    \/ e.text \cap Questions = {}
    \/ "explicit" \in e.text /\ "asking" \notin e.text
    \/ "rewritten" \in e.text

\* When the model has no say, every entry extracted from a turn is stored, unless
\* it is noise, or a preference that is too long to be one, or the message is noise
\* and there is no answer: the judge's own heuristics lose none, and the governance
\* of the store none of another category.
NothingExtractedIsLost ==
  \A c \in Clients :
    LET cl == clients[c] IN
    cl.pc = "done" /\ ~cl.judged =>
      \/ RouteIsHard(cl.turn)
      \/ \A e \in LongTermEntries(cl.turn) :
           \/ e \in cl.kept
           \/ DetectNoise(e.text)
           \/ e.category = "preference" /\ "lengthy" \in e.text

\* When the model has no say, a turn that is worth a task is written to it with
\* every field, unless the judge's expressions saw a fact in the turn that the
\* extraction did not find, or the summary is noise.
TaskIsLostOnlyToAFact ==
  \A c \in Clients :
    LET cl == clients[c] IN
    cl.pc = "done" /\ ~cl.judged /\ cl.worth # NoTask =>
      \/ cl.wrote = cl.worth /\ cl.notes = SummaryFields(cl.turn)
      \/ RouteIsHard(cl.turn) \/ DetectNoise(SummaryOf(cl.turn))
      \/ /\ LongTermEntries(cl.turn) = {}
         /\ DurableKind(cl.turn) \/ "explicit_long_term" \in cl.turn.hints

\* As long as every turn is resolved against all active tasks, none of another
\* turn on its way and not more than are read, a turn that has the title of an
\* active task in any of its sentences goes on with a task and begins none.
NamedTaskIsContinued ==
  [][\A c \in Clients :
       UpsertTask(c) /\ ~blind =>
         \/ active' \subseteq active
         \/ \A t \in active : \A i \in DOMAIN clients[c].turn.message :
              t # clients[c].turn.message[i] \ Marks]_vars
=============================================================================
