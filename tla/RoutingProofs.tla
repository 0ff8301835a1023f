---------------------------- MODULE RoutingProofs ----------------------------
(***************************************************************************)
(* What the way of a turn keeps to for every set of turns, of subjects and *)
(* of clients, whatever the model answers.                                 *)
(***************************************************************************)
EXTENDS Routing, FiniteSetTheorems, TLAPS

LEMMA WordsAreWords ==
  ASSUME NEW text \in Seq(Sentence) PROVE WordsOf(text) \subseteq Words
  <1>1. \A i \in DOMAIN text : text[i] \subseteq Words
    BY DEF Sentence
  <1>2. QED
    BY <1>1 DEF WordsOf

LEMMA TitlesAreTitles ==
  ASSUME NEW text \in Seq(Sentence) PROVE DeriveTitle(text) \in Titles
  <1>1. CASE text = <<>>
    BY <1>1 DEF DeriveTitle, Empty, Titles
  <1>2. CASE text # <<>>
    <2>1. text[1] \in Sentence
      BY <1>2
    <2>2. QED
      BY <1>2, <2>1 DEF DeriveTitle, Empty, Sentence, Titles
  <1>3. QED
    BY <1>1, <1>2

LEMMA CategoriesAreKnown ==
  ASSUME NEW words, InferCategory(words) # "none"
  PROVE InferCategory(words) \in {"user_profile", "preference", "decision"}
  BY DEF InferCategory

\* An entry that is no question, or one in the middle of an explicit request.
NoQuestion(e) ==
  e.text \cap Questions = {} \/ ("explicit" \in e.text /\ "asking" \notin e.text)

\* What is extracted from a text is an entry, and no question but for that.
LEMMA ExtractionIsSound ==
  ASSUME NEW text \in Seq(Sentence),
         NEW e \in ExtractLongTermEntries(text)
  PROVE e \in Entries /\ NoQuestion(e)
  <1>1. CASE Says(text, {"explicit"}) /\ e \in CanonicalizeItem(text)
    <2>1. "asking" \notin WordsOf(text) /\ "explicit" \in WordsOf(text)
      BY <1>1 DEF CanonicalizeItem, IsQueryLike, Says
    <2>2. ASSUME NEW k \in {"profile", "role", "company"}, e = Entry({k}, InferCategory({k}))
          PROVE  e \in Entries /\ NoQuestion(e)
      BY <2>2 DEF Entry, Entries, InferCategory, Words, Kinds, NoQuestion, Questions
    <2>3. CASE e = Entry(WordsOf(text), InferCategory(WordsOf(text)))
               /\ InferCategory(WordsOf(text)) # "none"
      BY <2>1, <2>3, WordsAreWords, CategoriesAreKnown DEF Entry, Entries, NoQuestion
    <2>4. QED
      BY <1>1, <2>2, <2>3 DEF CanonicalizeItem
  <1>2. CASE e \in SentenceEntries(text)
    <2>1. PICK s \in SplitSentences(text) :
            /\ s \cap Questions = {} /\ InferCategory(s) # "none"
            /\ e = Entry(s, InferCategory(s))
      BY <1>2 DEF SentenceEntries
    <2>2. s \subseteq Words
      BY <2>1 DEF SplitSentences, Sentence
    <2>3. QED
      BY <2>1, <2>2, CategoriesAreKnown DEF Entry, Entries, NoQuestion
  <1>3. QED
    BY <1>1, <1>2 DEF ExtractLongTermEntries

LEMMA EntriesAreSound ==
  ASSUME NEW turn \in Turn, NEW e \in LongTermEntries(turn)
  PROVE e \in Entries /\ NoQuestion(e)
  <1>1. turn.message \in Seq(Sentence) /\ turn.assistant \in Seq(Sentence)
    BY DEF Turn
  <1>2. QED
    BY <1>1, ExtractionIsSound DEF LongTermEntries

LEMMA TurnsAreTurns ==
  ASSUME NEW c \in Clients, NEW turn \in Turns[c]
  PROVE turn \in Turn
  BY RoutingConstantsOK

LEMMA SeenIsActive ==
  ASSUME NEW seen \in Readable PROVE seen \subseteq active
  BY DEF Readable

\* resolve_task answers with an active task or with the title of the message.
LEMMA ResolutionIsKnown ==
  ASSUME NEW turn \in Turn, active \subseteq Tasks,
         NEW seen \in Readable, NEW resolved \in ResolveTask(turn, seen)
  PROVE resolved \in Tasks
  <1>1. DeriveTitle(turn.message) \in Titles
    BY TitlesAreTitles DEF Turn
  <1>2. resolved \in seen \cup {NoTask, DeriveTitle(turn.message)}
    BY DEF ResolveTask
  <1>3. QED
    BY <1>1, <1>2, SeenIsActive DEF Tasks

-----------------------------------------------------------------------------
(* Types *)

\* A client is a record of the shape the code gives it, and so is what is left
\* of it after any of the updates below.
LEMMA AfterEntriesKeepsShape ==
  ASSUME NEW cl \in Client PROVE AfterEntries(cl) \in Client
  BY DEF AfterEntries, Client, Places

LEMMA IdleIsClient == IdleClient \in Client
  BY DEF IdleClient, Client, Places, NoTurn, Turn, Tasks, Sentence, Entries, Fields

LEMMA AnswerIsClient ==
  ASSUME NEW turn \in Turn, NEW route, NEW resolved \in Tasks,
         NEW judged \in BOOLEAN
  PROVE Answered(turn, route, resolved, judged) \in Client
  <1> DEFINE task(r) == TaskFor(r, resolved, turn)
             entries == IF route \in {"long_term", "mixed"} THEN LongTermEntries(turn)
                                                            ELSE {}
             cl == [IdleClient EXCEPT
                      !.turn = turn, !.entries = entries, !.todo = entries,
                      !.task = IF route = "mixed" /\ entries = {} THEN NoTask ELSE task(route),
                      !.worth = task("task"), !.judged = judged]
  <1>1. \A r : task(r) \in Tasks
    BY DEF TaskFor, Tasks
  <1>2. entries \subseteq Entries
    BY EntriesAreSound
  <1>3. NoTask \in Tasks
    BY DEF Tasks
  <1> HIDE DEF task, entries
  <1>4. cl \in Client
    BY <1>1, <1>2, <1>3, IdleIsClient DEF Client
  <1>5. Answered(turn, route, resolved, judged) = AfterEntries(cl)
    BY DEF Answered, task, entries
  <1>6. QED
    BY <1>4, <1>5, AfterEntriesKeepsShape

LEMMA RoutingTyped ==
  ASSUME TypeOK, NEW c \in Clients, RouteMemory(c) PROVE TypeOK'
  <1>1. PICK turn \in Turns[c], seen \in Readable :
          \E resolved \in ResolveTask(turn, seen) :
            \/ Goto(c, Answered(turn, PlainRoute(turn), resolved, FALSE))
            \/ \E route \in Routes : Goto(c, Answered(turn, route, resolved, TRUE))
            \/ Goto(c, [IdleClient EXCEPT !.pc = "failed", !.turn = turn,
                                          !.judged = TRUE])
    BY DEF RouteMemory
  <1>2. turn \in Turn
    BY TurnsAreTurns
  <1>3. PICK resolved \in ResolveTask(turn, seen) :
            \/ Goto(c, Answered(turn, PlainRoute(turn), resolved, FALSE))
            \/ \E route \in Routes : Goto(c, Answered(turn, route, resolved, TRUE))
            \/ Goto(c, [IdleClient EXCEPT !.pc = "failed", !.turn = turn,
                                          !.judged = TRUE])
    BY <1>1
  <1>4. resolved \in Tasks
    BY <1>2, ResolutionIsKnown DEF TypeOK
  <1>5. \A route : \A judged \in BOOLEAN : Answered(turn, route, resolved, judged) \in Client
    BY <1>2, <1>4, AnswerIsClient
  <1>6. [IdleClient EXCEPT !.pc = "failed", !.turn = turn, !.judged = TRUE] \in Client
    BY <1>2, IdleIsClient DEF Client, Places
  <1>7. \E cl \in Client : clients' = [clients EXCEPT ![c] = cl]
    BY <1>3, <1>5, <1>6 DEF Goto
  <1>8. taken' \in [Clients -> Nat] /\ blind' \in BOOLEAN
    BY DEF RouteMemory, TypeOK
  <1>9. UNCHANGED <<judge, active, closed>>
    BY DEF RouteMemory
  <1>10. QED
    BY <1>7, <1>8, <1>9 DEF TypeOK

LEMMA PostTyped ==
  ASSUME TypeOK, NEW c \in Clients, PostEntry(c) PROVE TypeOK'
  <1> DEFINE cl == clients[c]
  <1>1. cl \in Client
    BY DEF TypeOK
  <1>2. PICK e \in cl.todo :
          LET next == [cl EXCEPT !.todo = @ \ {e}]
              judged == [next EXCEPT !.judged = TRUE]
          IN \/ Goto(c, AfterEntries(IF SureNoise(e.text, e.category) THEN next
                                     ELSE [next EXCEPT !.kept = @ \cup {e}]))
             \/ Goto(c, AfterEntries(judged))
             \/ \E text \in {e.text} \cup ModelTexts :
                  Goto(c, AfterEntries([judged EXCEPT
                            !.kept = @ \cup {[e EXCEPT !.text = text]}]))
             \/ Goto(c, [judged EXCEPT !.pc = "failed"])
    BY DEF PostEntry
  <1> DEFINE next == [cl EXCEPT !.todo = @ \ {e}]
             judged == [next EXCEPT !.judged = TRUE]
             edited(text) == [judged EXCEPT !.kept = @ \cup {[e EXCEPT !.text = text]}]
  <1>3. e \in Entries
    BY <1>1 DEF Client
  <1>4. \A text \in {e.text} \cup ModelTexts : [e EXCEPT !.text = text] \in Entries
    BY <1>3 DEF Entries, ModelTexts, Words, Kinds
  <1>5. next \in Client /\ judged \in Client
    BY <1>1 DEF Client
  <1>6. [next EXCEPT !.kept = @ \cup {e}] \in Client
    BY <1>3, <1>5 DEF Client
  <1>7. ASSUME NEW text \in {e.text} \cup ModelTexts PROVE edited(text) \in Client
    <2> DEFINE put == [e EXCEPT !.text = text]
    <2>1. put \in Entries
      BY <1>4
    <2> HIDE DEF put, judged
    <2>2. [judged EXCEPT !.kept = @ \cup {put}] \in Client
      BY <1>5, <2>1 DEF Client
    <2>3. QED
      BY <2>2 DEF put
  <1>8. [judged EXCEPT !.pc = "failed"] \in Client
    BY <1>5 DEF Client, Places
  <1> HIDE DEF next, judged, edited
  <1>9. \E new \in Client : clients' = [clients EXCEPT ![c] = new]
    BY <1>2, <1>5, <1>6, <1>7, <1>8, AfterEntriesKeepsShape DEF Goto, next, judged, edited
  <1>10. QED
    BY <1>9 DEF PostEntry, TypeOK

LEMMA SummaryTyped ==
  ASSUME TypeOK, NEW c \in Clients,
         JudgeFields(c) \/ UpsertTask(c) \/ StoreField(c)
  PROVE TypeOK'
  <1> DEFINE cl == clients[c]
  <1>1. cl \in Client /\ cl.task \in Tasks
    BY DEF TypeOK, Client
  <1>2. CASE JudgeFields(c)
    <2>1. SummaryFields(cl.turn) \subseteq Fields
      BY DEF SummaryFields, Fields
    <2>2. \E some \in SUBSET Fields, judged \in BOOLEAN, pc \in Places :
            clients' = [clients EXCEPT ![c] =
                          [cl EXCEPT !.fields = some, !.judged = judged, !.pc = pc]]
      <3>1. CASE \E some \in SUBSET Fields, judged \in BOOLEAN :
                   Goto(c, [cl EXCEPT !.fields = some, !.judged = @ \/ judged,
                                      !.pc = IF some = {} THEN "done" ELSE "upsert"])
        <4>1. PICK some \in SUBSET Fields, judged \in BOOLEAN :
                   Goto(c, [cl EXCEPT !.fields = some, !.judged = @ \/ judged,
                                      !.pc = IF some = {} THEN "done" ELSE "upsert"])
          BY <3>1
        <4>2. cl.judged \/ judged \in BOOLEAN
          BY <1>1 DEF Client
        <4>3. (IF some = {} THEN "done" ELSE "upsert") \in Places
          BY DEF Places
        <4>4. QED
          BY <4>1, <4>2, <4>3 DEF Goto
      <3>2. CASE Goto(c, [cl EXCEPT !.pc = "failed", !.judged = TRUE])
        <4>1. cl.fields \in SUBSET Fields
          BY <1>1 DEF Client
        <4>2. [cl EXCEPT !.pc = "failed", !.judged = TRUE]
                = [cl EXCEPT !.fields = cl.fields, !.judged = TRUE, !.pc = "failed"]
          BY <1>1 DEF Client
        <4>3. QED
          BY <3>2, <4>1, <4>2 DEF Goto, Places
      <3>3. QED
        BY <1>2, <2>1, <3>1, <3>2 DEF JudgeFields
    <2>3. \E new \in Client : clients' = [clients EXCEPT ![c] = new]
      BY <1>1, <2>2 DEF Client
    <2>4. QED
      BY <1>2, <2>3 DEF JudgeFields, TypeOK
  <1>3. CASE UpsertTask(c)
    <2>1. [cl EXCEPT !.pc = "fields", !.wrote = cl.task] \in Client
      BY <1>1 DEF Client, Places
    <2>2. active' \subseteq Tasks
      BY <1>1, <1>3 DEF UpsertTask, TypeOK
    <2>3. QED
      BY <1>3, <2>1, <2>2 DEF UpsertTask, Goto, TypeOK
  <1>4. CASE StoreField(c)
    <2>1. PICK f \in cl.fields :
            LET next == [cl EXCEPT !.fields = @ \ {f},
                           !.pc = IF cl.fields = {f} THEN "done" ELSE "fields"]
            IN \/ Goto(c, [next EXCEPT !.notes = @ \cup {f}])
               \/ Goto(c, [next EXCEPT !.judged = TRUE])
               \/ Goto(c, [next EXCEPT !.judged = TRUE, !.pc = "failed"])
      BY <1>4 DEF StoreField
    <2> DEFINE next == [cl EXCEPT !.fields = @ \ {f},
                          !.pc = IF cl.fields = {f} THEN "done" ELSE "fields"]
    <2>2. next \in Client /\ f \in Fields
      BY <1>1 DEF Client, Places
    <2> HIDE DEF next
    <2>3. /\ [next EXCEPT !.notes = @ \cup {f}] \in Client
          /\ [next EXCEPT !.judged = TRUE] \in Client
          /\ [next EXCEPT !.judged = TRUE, !.pc = "failed"] \in Client
      BY <2>2 DEF Client, Places
    <2>4. \E new \in Client : clients' = [clients EXCEPT ![c] = new]
      BY <2>1, <2>3 DEF Goto, next
    <2>5. QED
      BY <1>4, <2>4 DEF StoreField, TypeOK
  <1>5. QED
    BY <1>2, <1>3, <1>4

LEMMA TypeInvariance == TypeOK /\ [Next]_vars => TypeOK'
  <1> SUFFICES ASSUME TypeOK, [Next]_vars PROVE TypeOK'
    OBVIOUS
  <1>1. CASE CloseTask
    BY <1>1 DEF CloseTask, TypeOK
  <1>2. CASE UNCHANGED vars
    BY <1>2 DEF vars, TypeOK
  <1>3. QED
    BY <1>1, <1>2, RoutingTyped, PostTyped, SummaryTyped DEF Next

LEMMA TypesAtFirst == Init => TypeOK
  <1> SUFFICES ASSUME Init PROVE TypeOK
    OBVIOUS
  <1>1. judge \in {"off", "on"}
    BY RoutingConstantsOK DEF Init
  <1>2. clients \in [Clients -> Client]
    BY IdleIsClient DEF Init
  <1>3. taken \in [Clients -> Nat] /\ blind \in BOOLEAN
    BY DEF Init
  <1>4. active \subseteq Tasks /\ closed \subseteq Tasks
    BY DEF Init
  <1>5. QED
    BY <1>1, <1>2, <1>3, <1>4 DEF TypeOK

\* Answers, tasks and stored entries keep their shape, the categories of the
\* stored entries included, for every set of turns.
THEOREM TypesHold == Spec => []TypeOK
  BY TypesAtFirst, TypeInvariance, PTL DEF Spec

-----------------------------------------------------------------------------
(* What a client keeps to on its own *)

NoQuestions(cl) ==
  /\ \A e \in cl.todo : NoQuestion(e)
  /\ \A e \in cl.kept : NoQuestion(e) \/ "rewritten" \in e.text

TaskIsWork(cl) ==
  cl.task # NoTask \/ cl.wrote # NoTask =>
    ~Says(cl.turn.message, {"explicit", "status", "lookup"})

\* Between the answer and the last entry, what was extracted is stored or still
\* to be posted.
LosesNothing(cl) ==
  /\ cl.pc \in {"summary", "upsert", "fields", "done"} => cl.todo = {}
  /\ ~cl.judged /\ cl.pc \notin {"idle", "failed"} =>
       \/ RouteIsHard(cl.turn)
       \/ \A e \in LongTermEntries(cl.turn) :
            SureNoise(e.text, e.category) \/ e \in cl.kept \cup cl.todo

Careful(cl) == NoQuestions(cl) /\ TaskIsWork(cl) /\ LosesNothing(cl)

\* A task that is answered with is worth being one by the words of the message.
LEMMA ResolvedIsWork ==
  ASSUME NEW turn \in Turn, NEW seen, NEW resolved \in ResolveTask(turn, seen),
         NEW route, TaskFor(route, resolved, turn) # NoTask
  PROVE ~Says(turn.message, {"explicit", "status", "lookup"})
  <1>1. resolved # NoTask /\ Materializes(resolved, turn)
    BY DEF TaskFor, Materializes, NoTask
  <1>2. LooksTaskWorthy(turn.message, turn.assistant)
    BY <1>1 DEF ResolveTask
  <1>3. ~Says(turn.message, {"explicit", "status"})
    BY <1>2 DEF LooksTaskWorthy
  <1>4. ~Says(turn.message, {"lookup"})
    BY <1>1 DEF Materializes
  <1>5. QED
    BY <1>3, <1>4 DEF Says

\* Without the model, a turn with entries is answered with them, unless a hard
\* rule drops the turn.
LEMMA PlainRouteKeepsEntries ==
  ASSUME NEW turn, LongTermEntries(turn) # {}, ~RouteIsHard(turn)
  PROVE PlainRoute(turn) \in {"long_term", "mixed"}
  BY DEF PlainRoute, FallbackRoute, HeuristicRoute

LEMMA AnswerIsCareful ==
  ASSUME NEW turn \in Turn, NEW seen, NEW resolved \in ResolveTask(turn, seen),
         NEW route, NEW judged \in BOOLEAN, judged \/ route = PlainRoute(turn)
  PROVE Careful(Answered(turn, route, resolved, judged))
  <1> DEFINE entries == IF route \in {"long_term", "mixed"} THEN LongTermEntries(turn)
                                                            ELSE {}
             task == IF route = "mixed" /\ entries = {} THEN NoTask
                     ELSE TaskFor(route, resolved, turn)
             cl == Answered(turn, route, resolved, judged)
  <1>1. /\ cl.turn = turn /\ cl.todo = entries /\ cl.kept = {}
        /\ cl.task = task /\ cl.wrote = NoTask /\ cl.judged = judged
        /\ cl.pc # "entries" => entries = {}
    BY DEF Answered, AfterEntries, IdleClient
  <1>2. NoQuestions(cl)
    BY <1>1, EntriesAreSound DEF NoQuestions
  <1>3. TaskIsWork(cl)
    BY <1>1, ResolvedIsWork DEF TaskIsWork
  <1>4. ~judged /\ ~RouteIsHard(turn) => entries = LongTermEntries(turn)
    BY PlainRouteKeepsEntries
  <1> HIDE DEF task, entries, cl
  <1>5. LosesNothing(cl)
    BY <1>1, <1>4 DEF LosesNothing
  <1>6. QED
    BY <1>2, <1>3, <1>5 DEF Careful, cl

\* A client that fails, or has not begun, has nothing left to lose.
LEMMA FailureIsCareful ==
  ASSUME NEW turn
  PROVE Careful([IdleClient EXCEPT !.pc = "failed", !.turn = turn, !.judged = TRUE])
  BY DEF Careful, NoQuestions, TaskIsWork, LosesNothing, IdleClient

LEMMA IdleIsCareful == Careful(IdleClient)
  BY DEF Careful, NoQuestions, TaskIsWork, LosesNothing, IdleClient

\* Once the entries are posted, none is left.
LEMMA AfterEntriesIsCareful ==
  ASSUME NEW cl \in Client, NoQuestions(cl), TaskIsWork(cl),
         ~cl.judged =>
           \/ RouteIsHard(cl.turn)
           \/ \A e \in LongTermEntries(cl.turn) :
                SureNoise(e.text, e.category) \/ e \in cl.kept \cup cl.todo
  PROVE Careful(AfterEntries(cl))
  <1> DEFINE new == AfterEntries(cl)
  <1>1. /\ new.turn = cl.turn /\ new.todo = cl.todo /\ new.kept = cl.kept
        /\ new.task = cl.task /\ new.wrote = cl.wrote /\ new.judged = cl.judged
        /\ new.pc # "entries" => cl.todo = {}
    BY DEF AfterEntries, Client
  <1> HIDE DEF new
  <1>2. NoQuestions(new) /\ TaskIsWork(new)
    BY <1>1 DEF NoQuestions, TaskIsWork
  <1>3. LosesNothing(new)
    BY <1>1 DEF LosesNothing
  <1>4. QED
    BY <1>2, <1>3 DEF Careful, new

\* A question can only be what the model wrote itself; a posted entry is stored
\* unless it is noise or the model had its say.
LEMMA PostIsCareful ==
  ASSUME TypeOK, NEW c \in Clients, PostEntry(c), Careful(clients[c])
  PROVE \E new : clients' = [clients EXCEPT ![c] = new] /\ Careful(new)
  <1> DEFINE cl == clients[c]
  <1>1. cl \in Client /\ cl.pc = "entries"
    BY DEF TypeOK, PostEntry
  <1>2. PICK e \in cl.todo :
          LET next == [cl EXCEPT !.todo = @ \ {e}]
              judged == [next EXCEPT !.judged = TRUE]
          IN \/ Goto(c, AfterEntries(IF SureNoise(e.text, e.category) THEN next
                                     ELSE [next EXCEPT !.kept = @ \cup {e}]))
             \/ Goto(c, AfterEntries(judged))
             \/ \E text \in {e.text} \cup ModelTexts :
                  Goto(c, AfterEntries([judged EXCEPT
                            !.kept = @ \cup {[e EXCEPT !.text = text]}]))
             \/ Goto(c, [judged EXCEPT !.pc = "failed"])
    BY DEF PostEntry
  <1> DEFINE next == [cl EXCEPT !.todo = @ \ {e}]
             judged == [next EXCEPT !.judged = TRUE]
  <1>3. e \in Entries /\ NoQuestion(e)
    BY <1>1 DEF Client, Careful, NoQuestions
  <1>4. ASSUME NEW text \in {e.text} \cup ModelTexts
        PROVE  LET put == [e EXCEPT !.text = text] IN
               put \in Entries /\ (NoQuestion(put) \/ "rewritten" \in put.text)
    <2>1. CASE text = e.text
      <3>1. [e EXCEPT !.text = text] = e
        BY <1>3, <2>1 DEF Entries
      <3>2. QED
        BY <1>3, <3>1
    <2>2. CASE text \in ModelTexts
      BY <1>3, <2>2 DEF Entries, ModelTexts, Words, Kinds
    <2>3. QED
      BY <2>1, <2>2
  <1>5. /\ NoQuestions(cl) /\ TaskIsWork(cl)
        /\ ~cl.judged => \/ RouteIsHard(cl.turn)
                         \/ \A f \in LongTermEntries(cl.turn) :
                              SureNoise(f.text, f.category) \/ f \in cl.kept \cup cl.todo
    BY <1>1 DEF Careful, LosesNothing
  <1> DEFINE stored == [next EXCEPT !.kept = @ \cup {e}]
             edited(text) == [judged EXCEPT !.kept = @ \cup {[e EXCEPT !.text = text]}]
             failed == [judged EXCEPT !.pc = "failed"]
  <1>6. /\ next \in Client /\ next.turn = cl.turn /\ next.task = cl.task
        /\ next.wrote = cl.wrote /\ next.judged = cl.judged
        /\ next.kept = cl.kept /\ next.todo = cl.todo \ {e}
    BY <1>1 DEF Client
  <1>7. /\ judged \in Client /\ judged.turn = cl.turn /\ judged.task = cl.task
        /\ judged.wrote = cl.wrote /\ judged.judged
        /\ judged.kept = cl.kept /\ judged.todo = cl.todo \ {e}
    BY <1>1 DEF Client
  <1> HIDE DEF next, judged
  <1>8. CASE Goto(c, AfterEntries(next)) /\ SureNoise(e.text, e.category)
    <2>1. NoQuestions(next) /\ TaskIsWork(next)
      BY <1>5, <1>6 DEF NoQuestions, TaskIsWork
    <2>2. Careful(AfterEntries(next))
      BY <1>5, <1>6, <1>8, <2>1, AfterEntriesIsCareful
    <2>3. QED
      BY <1>8, <2>2 DEF Goto
  <1>9. CASE Goto(c, AfterEntries(stored))
    <2>1. /\ stored \in Client /\ stored.turn = cl.turn /\ stored.task = cl.task
          /\ stored.wrote = cl.wrote /\ stored.judged = cl.judged
          /\ stored.kept = cl.kept \cup {e} /\ stored.todo = cl.todo \ {e}
      BY <1>3, <1>6 DEF Client
    <2> HIDE DEF stored
    <2>2. NoQuestions(stored) /\ TaskIsWork(stored)
      BY <1>3, <1>5, <2>1 DEF NoQuestions, TaskIsWork
    <2>3. Careful(AfterEntries(stored))
      BY <1>5, <2>1, <2>2, AfterEntriesIsCareful
    <2>4. QED
      BY <1>9, <2>3 DEF Goto
  <1>10. CASE Goto(c, AfterEntries(judged))
    <2>1. NoQuestions(judged) /\ TaskIsWork(judged)
      BY <1>5, <1>7 DEF NoQuestions, TaskIsWork
    <2>2. QED
      BY <1>7, <1>10, <2>1, AfterEntriesIsCareful DEF Goto
  <1>11. CASE \E text \in {e.text} \cup ModelTexts : Goto(c, AfterEntries(edited(text)))
    <2>1. PICK text \in {e.text} \cup ModelTexts : Goto(c, AfterEntries(edited(text)))
      BY <1>11
    <2> DEFINE put == [e EXCEPT !.text = text]
               new == edited(text)
    <2>2. put \in Entries /\ (NoQuestion(put) \/ "rewritten" \in put.text)
      BY <1>4
    <2> HIDE DEF put
    <2>3. /\ new \in Client /\ new.turn = cl.turn /\ new.task = cl.task
          /\ new.wrote = cl.wrote /\ new.judged
          /\ new.kept = cl.kept \cup {put} /\ new.todo = cl.todo \ {e}
      BY <1>7, <2>2 DEF Client, put
    <2> HIDE DEF new, edited
    <2>4. NoQuestions(new) /\ TaskIsWork(new)
      BY <1>5, <2>2, <2>3 DEF NoQuestions, TaskIsWork
    <2>5. Careful(AfterEntries(new))
      BY <1>5, <2>3, <2>4, AfterEntriesIsCareful
    <2>6. Goto(c, AfterEntries(new))
      BY <2>1 DEF new
    <2>7. QED
      BY <2>5, <2>6 DEF Goto
  <1>12. CASE Goto(c, failed)
    <2>1. /\ failed.turn = cl.turn /\ failed.task = cl.task /\ failed.wrote = cl.wrote
          /\ failed.judged /\ failed.kept = cl.kept /\ failed.todo = cl.todo \ {e}
          /\ failed.pc = "failed"
      BY <1>7 DEF Client
    <2> HIDE DEF failed
    <2>2. Careful(failed)
      BY <1>5, <2>1 DEF Careful, NoQuestions, TaskIsWork, LosesNothing
    <2>3. QED
      BY <1>12, <2>2 DEF Goto
  <1>13. QED
    BY <1>2, <1>8, <1>9, <1>10, <1>11, <1>12
       DEF next, judged, stored, edited, failed

\* The summary of a turn, and the fields stored of it, leave its entries and its
\* task alone, and do not begin anew.
SameTurn(cl, new) ==
  /\ new.turn = cl.turn /\ new.todo = cl.todo /\ new.kept = cl.kept
  /\ new.task = cl.task /\ new.wrote \in {cl.wrote, cl.task}
  /\ cl.judged => new.judged
  /\ cl.pc # "summary" => new.pc \notin {"entries", "summary", "upsert"}

LEMMA SummaryKeepsTurn ==
  ASSUME TypeOK, NEW c \in Clients,
         JudgeFields(c) \/ UpsertTask(c) \/ StoreField(c)
  PROVE \E new : clients' = [clients EXCEPT ![c] = new] /\ SameTurn(clients[c], new)
  <1> DEFINE cl == clients[c]
  <1>1. cl \in Client
    BY DEF TypeOK
  <1>2. CASE JudgeFields(c)
    <2>1. CASE \E some, judged :
                 Goto(c, [cl EXCEPT !.fields = some, !.judged = @ \/ judged,
                                    !.pc = IF some = {} THEN "done" ELSE "upsert"])
      <3>1. PICK some, judged :
              clients' = [clients EXCEPT ![c] =
                [cl EXCEPT !.fields = some, !.judged = @ \/ judged,
                           !.pc = IF some = {} THEN "done" ELSE "upsert"]]
        BY <2>1 DEF Goto
      <3>2. SameTurn(cl, [cl EXCEPT !.fields = some, !.judged = @ \/ judged,
                                    !.pc = IF some = {} THEN "done" ELSE "upsert"])
        BY <1>1, <1>2 DEF Client, SameTurn, JudgeFields
      <3>3. QED
        BY <3>1, <3>2
    <2>2. CASE Goto(c, [cl EXCEPT !.pc = "failed", !.judged = TRUE])
      <3>1. SameTurn(cl, [cl EXCEPT !.pc = "failed", !.judged = TRUE])
        BY <1>1 DEF Client, SameTurn
      <3>2. QED
        BY <2>2, <3>1 DEF Goto
    <2>3. QED
      BY <1>2, <2>1, <2>2 DEF JudgeFields
  <1>3. CASE UpsertTask(c)
    <2>1. SameTurn(cl, [cl EXCEPT !.pc = "fields", !.wrote = cl.task])
      BY <1>1 DEF Client, SameTurn
    <2>2. QED
      BY <1>3, <2>1 DEF UpsertTask, Goto
  <1>4. CASE StoreField(c)
    <2>1. PICK f \in cl.fields :
            LET next == [cl EXCEPT !.fields = @ \ {f},
                           !.pc = IF cl.fields = {f} THEN "done" ELSE "fields"]
            IN \/ Goto(c, [next EXCEPT !.notes = @ \cup {f}])
               \/ Goto(c, [next EXCEPT !.judged = TRUE])
               \/ Goto(c, [next EXCEPT !.judged = TRUE, !.pc = "failed"])
      BY <1>4 DEF StoreField
    <2> DEFINE next == [cl EXCEPT !.fields = @ \ {f},
                          !.pc = IF cl.fields = {f} THEN "done" ELSE "fields"]
    <2>2. SameTurn(cl, next) /\ next \in Client
      BY <1>1 DEF Client, Places, SameTurn
    <2> HIDE DEF next
    <2>3. /\ SameTurn(cl, [next EXCEPT !.notes = @ \cup {f}])
          /\ SameTurn(cl, [next EXCEPT !.judged = TRUE])
          /\ SameTurn(cl, [next EXCEPT !.judged = TRUE, !.pc = "failed"])
      BY <2>2 DEF Client, SameTurn
    <2>4. QED
      BY <2>1, <2>3 DEF Goto, next
  <1>5. QED
    BY <1>2, <1>3, <1>4

LEMMA SummaryIsCareful ==
  ASSUME TypeOK, NEW c \in Clients, Careful(clients[c]),
         JudgeFields(c) \/ UpsertTask(c) \/ StoreField(c)
  PROVE \E new : clients' = [clients EXCEPT ![c] = new] /\ Careful(new)
  <1>1. clients[c].pc \in {"summary", "upsert", "fields"}
    BY DEF JudgeFields, UpsertTask, StoreField
  <1>2. PICK new : clients' = [clients EXCEPT ![c] = new] /\ SameTurn(clients[c], new)
    BY SummaryKeepsTurn
  <1>3. QED
    BY <1>1, <1>2 DEF Careful, NoQuestions, TaskIsWork, LosesNothing, SameTurn

LEMMA RouteIsCareful ==
  ASSUME TypeOK, NEW c \in Clients, RouteMemory(c)
  PROVE \E new : clients' = [clients EXCEPT ![c] = new] /\ Careful(new)
  BY TurnsAreTurns, AnswerIsCareful, FailureIsCareful DEF RouteMemory, Goto

CarefulInv == TypeOK /\ \A c \in Clients : Careful(clients[c])

LEMMA CarefulInvariance == CarefulInv /\ [Next]_vars => CarefulInv'
  <1> SUFFICES ASSUME CarefulInv, [Next]_vars PROVE CarefulInv'
    OBVIOUS
  <1>1. TypeOK'
    BY TypeInvariance DEF CarefulInv
  <1>2. CASE UNCHANGED clients
    BY <1>1, <1>2 DEF CarefulInv
  <1>3. CASE \E c \in Clients : \E new : clients' = [clients EXCEPT ![c] = new] /\ Careful(new)
    BY <1>1, <1>3 DEF CarefulInv, TypeOK
  <1>4. QED
    BY <1>2, <1>3, RouteIsCareful, PostIsCareful, SummaryIsCareful
       DEF CarefulInv, Next, vars, CloseTask

\* Neither a hint of the adapter nor the model makes a task of an explicit
\* request or of a question about a task.
THEOREM QuestionsWriteNoTask == Spec => []OnlyWorkWritesTask
  <1>1. Init => CarefulInv
    BY TypesAtFirst, IdleIsCareful DEF Init, CarefulInv
  <1>2. CarefulInv => OnlyWorkWritesTask
    BY DEF CarefulInv, Careful, TaskIsWork, OnlyWorkWritesTask
  <1>3. QED
    BY <1>1, <1>2, CarefulInvariance, PTL DEF Spec

\* Nothing that asks a question by its words becomes a fact, unless the model wrote
\* it or an explicit request has it in the middle.
THEOREM QuestionsBecomeNoFact == Spec => []QuestionsByWordsAreNotKept
  <1>1. Init => CarefulInv
    BY TypesAtFirst, IdleIsCareful DEF Init, CarefulInv
  <1>2. CarefulInv => QuestionsByWordsAreNotKept
    BY DEF CarefulInv, Careful, NoQuestions, NoQuestion, QuestionsByWordsAreNotKept
  <1>3. QED
    BY <1>1, <1>2, CarefulInvariance, PTL DEF Spec

\* What the extraction finds is stored, unless it is noise, an overlong preference
\* or the model had a say.
THEOREM ExtractedIsStored == Spec => []NothingExtractedIsLost
  <1>1. Init => CarefulInv
    BY TypesAtFirst, IdleIsCareful DEF Init, CarefulInv
  <1>2. CarefulInv => NothingExtractedIsLost
    BY DEF CarefulInv, Careful, LosesNothing, SureNoise, NothingExtractedIsLost
  <1>3. QED
    BY <1>1, <1>2, CarefulInvariance, PTL DEF Spec

-----------------------------------------------------------------------------
(* A turn that has the title of an active task *)

Unnamed(message) ==
  \A t \in active : \A i \in DOMAIN message : t # message[i] \ Marks

\* Until a turn is resolved blindly, one turn at a time is on its way: its task
\* exists already, or its message has the title of no active task.
AloneInv ==
  /\ TypeOK
  /\ IsFiniteSet(active)
  /\ \A c \in Clients : clients[c].pc \in {"summary", "upsert"} => clients[c].task # NoTask
  /\ ~blind =>
       /\ \A c, d \in Clients : Pending(c) /\ Pending(d) => c = d
       /\ \A c \in Clients : Pending(c) =>
            \/ clients[c].task \in active \cup closed \cup {NoTask}
            \/ Unnamed(clients[c].turn.message)

\* What resolve_task answers, having read all the active tasks, is one of them or
\* none, or the message has the title of none of them.
LEMMA ResolvedIsKnown ==
  ASSUME NEW turn, NEW resolved \in ResolveTask(turn, active)
  PROVE resolved \in active \cup {NoTask} \/ Unnamed(turn.message)
  BY DEF ResolveTask, Titled, SplitSentences, Unnamed

LEMMA RouteStaysAlone ==
  ASSUME AloneInv, NEW c \in Clients, RouteMemory(c) PROVE AloneInv'
  <1>1. TypeOK /\ TypeOK'
    BY RoutingTyped DEF AloneInv
  <1>2. active' = active /\ closed' = closed /\ IsFiniteSet(active')
    BY DEF AloneInv, RouteMemory
  <1> DEFINE Answer(turn, resolved) ==
               \/ \E route, judged : Goto(c, Answered(turn, route, resolved, judged))
               \/ Goto(c, [IdleClient EXCEPT !.pc = "failed", !.turn = turn,
                                             !.judged = TRUE])
  <1>0. PICK turn \in Turns[c], seen \in Readable :
          \E resolved \in ResolveTask(turn, seen) : Answer(turn, resolved)
    BY DEF RouteMemory
  <1>3. PICK resolved \in ResolveTask(turn, seen) : Answer(turn, resolved)
    BY <1>0
  <1>4. \/ clients'[c].pc = "failed"
        \/ /\ clients'[c].turn = turn
           /\ clients'[c].task \in {NoTask, resolved}
           /\ clients'[c].pc = "summary" => clients'[c].task # NoTask
           /\ clients'[c].pc # "upsert"
    <2>1. CASE \E route, judged : Goto(c, Answered(turn, route, resolved, judged))
      <3>1. PICK route, judged : Goto(c, Answered(turn, route, resolved, judged))
        BY <2>1
      <3> DEFINE new == Answered(turn, route, resolved, judged)
      <3>2. /\ new.turn = turn /\ new.task \in {NoTask, resolved}
            /\ new.pc = "summary" => new.task # NoTask
            /\ new.pc # "upsert"
        BY DEF Answered, AfterEntries, IdleClient, TaskFor
      <3>3. clients'[c] = new
        BY <1>1, <3>1 DEF Goto, TypeOK
      <3>4. QED
        BY <3>2, <3>3
    <2>2. CASE Goto(c, [IdleClient EXCEPT !.pc = "failed", !.turn = turn,
                                          !.judged = TRUE])
      BY <1>1, <2>2 DEF Goto, TypeOK, IdleClient
    <2>3. QED
      BY <1>3, <2>1, <2>2
  <1>5. \A d \in Clients \ {c} : clients'[d] = clients[d]
    BY <1>1, <1>3 DEF Goto, TypeOK
  <1>6. ASSUME NEW d \in Clients, clients'[d].pc \in {"summary", "upsert"}
        PROVE  clients'[d].task # NoTask
    BY <1>4, <1>5, <1>6 DEF AloneInv
  <1>7. ASSUME ~blind'
        PROVE  /\ \A d, e \in Clients : Pending(d)' /\ Pending(e)' => d = e
               /\ \A d \in Clients : Pending(d)' =>
                    \/ clients'[d].task \in active' \cup closed' \cup {NoTask}
                    \/ Unnamed(clients[d].turn.message)'
    <2>1. ~(Cardinality(active) > Limit) /\ \A d \in Clients : ~Pending(d)
      BY <1>7 DEF RouteMemory
    <2>2. seen = active
      BY <2>1, FS_CardinalityType, RoutingConstantsOK DEF AloneInv, Readable
    <2>3. \A d \in Clients : Pending(d)' => d = c
      BY <1>5, <2>1 DEF Pending
    <2>4. resolved \in active \cup {NoTask} \/ Unnamed(turn.message)
      BY <2>2, ResolvedIsKnown
    <2>5. Pending(c)' => \/ clients'[c].task \in active' \cup closed' \cup {NoTask}
                         \/ Unnamed(clients[c].turn.message)'
      BY <1>2, <1>4, <2>4 DEF Pending, Unnamed
    <2>6. QED
      BY <2>3, <2>5
  <1>8. QED
    BY <1>1, <1>2, <1>6, <1>7 DEF AloneInv

\* Posting an entry keeps the task and begins nothing; a client with a task is not
\* done when its entries are.
SameTask(cl, new) ==
  /\ new.turn = cl.turn /\ new.task = cl.task /\ new.worth = cl.worth
  /\ new.wrote = cl.wrote /\ new.notes = cl.notes
  /\ cl.judged => new.judged
  /\ new.pc \in {"entries", "summary", "failed"} \/ cl.task = NoTask
  /\ new.pc \in {"entries", "failed", "done"} \/ cl.task # NoTask

LEMMA PostKeepsTask ==
  ASSUME TypeOK, NEW c \in Clients, PostEntry(c)
  PROVE \E new : clients' = [clients EXCEPT ![c] = new] /\ SameTask(clients[c], new)
  <1> DEFINE cl == clients[c]
  <1>1. cl \in Client
    BY DEF TypeOK
  <1>2. cl.pc = "entries"
    BY DEF PostEntry
  <1>3. PICK e \in cl.todo :
          LET next == [cl EXCEPT !.todo = @ \ {e}]
              judged == [next EXCEPT !.judged = TRUE]
          IN \/ Goto(c, AfterEntries(IF SureNoise(e.text, e.category) THEN next
                                     ELSE [next EXCEPT !.kept = @ \cup {e}]))
             \/ Goto(c, AfterEntries(judged))
             \/ \E text \in {e.text} \cup ModelTexts :
                  Goto(c, AfterEntries([judged EXCEPT
                            !.kept = @ \cup {[e EXCEPT !.text = text]}]))
             \/ Goto(c, [judged EXCEPT !.pc = "failed"])
    BY DEF PostEntry
  <1> DEFINE next == [cl EXCEPT !.todo = @ \ {e}]
             judged == [next EXCEPT !.judged = TRUE]
             stored == [next EXCEPT !.kept = @ \cup {e}]
             edited(text) == [judged EXCEPT !.kept = @ \cup {[e EXCEPT !.text = text]}]
             failed == [judged EXCEPT !.pc = "failed"]
  <1>4. /\ next \in Client /\ SameTask(cl, AfterEntries(next))
        /\ judged \in Client /\ SameTask(cl, AfterEntries(judged))
        /\ SameTask(cl, failed)
    BY <1>1, <1>2 DEF AfterEntries, Client, SameTask
  <1>5. /\ SameTask(cl, AfterEntries(stored))
        /\ \A text : SameTask(cl, AfterEntries(edited(text)))
    BY <1>1, <1>2 DEF AfterEntries, Client, SameTask
  <1> HIDE DEF next, judged, stored, edited, failed
  <1>6. \/ Goto(c, AfterEntries(next)) \/ Goto(c, AfterEntries(judged))
        \/ Goto(c, AfterEntries(stored)) \/ \E text : Goto(c, AfterEntries(edited(text)))
        \/ Goto(c, failed)
    BY <1>3 DEF next, judged, stored, edited, failed
  <1>7. QED
    BY <1>4, <1>5, <1>6 DEF Goto

\* A step that keeps the turn and the task of a client and makes no turn pending
\* keeps the invariant.
LEMMA StepStaysAlone ==
  ASSUME AloneInv, TypeOK', NEW c \in Clients, NEW new,
         clients' = [clients EXCEPT ![c] = new],
         new.task = clients[c].task, new.turn = clients[c].turn,
         Pending(c)' => Pending(c), blind' = blind,
         active' = active, closed' = closed,
         new.pc \in {"summary", "upsert"} => new.task # NoTask
  PROVE AloneInv'
  <1>1. \A d \in Clients : /\ Pending(d)' => Pending(d)
                           /\ clients'[d].task = clients[d].task
                           /\ clients'[d].turn = clients[d].turn
    BY DEF AloneInv, TypeOK, Pending
  <1>2. \A d \in Clients :
          clients'[d].pc \in {"summary", "upsert"} => clients'[d].task # NoTask
    BY DEF AloneInv, TypeOK
  <1>3. QED
    BY <1>1, <1>2 DEF AloneInv, Unnamed

LEMMA UpsertStaysAlone ==
  ASSUME AloneInv, TypeOK', NEW c \in Clients, UpsertTask(c) PROVE AloneInv'
  <1>1. /\ Pending(c) /\ clients'[c].pc = "fields" /\ blind' = blind
        /\ active' = active \cup ({clients[c].task} \ closed)
        /\ \A d \in Clients \ {c} : clients'[d] = clients[d]
    BY DEF AloneInv, TypeOK, Client, UpsertTask, Pending, Goto
  <1>2. IsFiniteSet(active')
    BY <1>1, FS_AddElement, FS_Subset DEF AloneInv
  <1>3. \A d \in Clients :
          clients'[d].pc \in {"summary", "upsert"} => clients'[d].task # NoTask
    BY <1>1 DEF AloneInv
  <1>4. ~blind => \A d \in Clients : ~Pending(d)'
    BY <1>1 DEF AloneInv, Pending
  <1>5. QED
    BY <1>1, <1>2, <1>3, <1>4 DEF AloneInv

LEMMA AloneInvariance == AloneInv /\ [Next]_vars => AloneInv'
  <1> SUFFICES ASSUME AloneInv, [Next]_vars PROVE AloneInv'
    OBVIOUS
  <1>1. TypeOK /\ TypeOK'
    BY TypeInvariance DEF AloneInv
  <1>2. ASSUME NEW c \in Clients, PostEntry(c) PROVE AloneInv'
    <2>1. PICK new : clients' = [clients EXCEPT ![c] = new] /\ SameTask(clients[c], new)
      BY <1>1, <1>2, PostKeepsTask
    <2>2. /\ Pending(c) /\ blind' = blind /\ active' = active /\ closed' = closed
          /\ new.task = clients[c].task /\ new.turn = clients[c].turn
      BY <1>2, <2>1 DEF PostEntry, Pending, SameTask
    <2>3. new.pc \in {"summary", "upsert"} => new.task # NoTask
      BY <2>1 DEF SameTask
    <2>4. QED
      BY <1>1, <2>1, <2>2, <2>3, StepStaysAlone
  <1>3. ASSUME NEW c \in Clients, JudgeFields(c) \/ StoreField(c) PROVE AloneInv'
    <2>1. PICK new : clients' = [clients EXCEPT ![c] = new] /\ SameTurn(clients[c], new)
      BY <1>1, <1>3, SummaryKeepsTurn
    <2>2. /\ blind' = blind /\ active' = active /\ closed' = closed
          /\ new.task = clients[c].task /\ new.turn = clients[c].turn
      BY <1>3, <2>1 DEF JudgeFields, StoreField, SameTurn
    <2>3. Pending(c)' => Pending(c)
      BY <1>1, <1>3, <2>1 DEF JudgeFields, StoreField, SameTurn, Pending, TypeOK
    <2>4. new.pc \in {"summary", "upsert"} => new.task # NoTask
      BY <1>3, <2>1, <2>2 DEF JudgeFields, StoreField, SameTurn, AloneInv
    <2>5. QED
      BY <1>1, <2>1, <2>2, <2>3, <2>4, StepStaysAlone
  <1>4. CASE CloseTask
    <2>1. PICK t \in active : active' = active \ {t} /\ closed' = closed \cup {t}
      BY <1>4 DEF CloseTask
    <2>2. UNCHANGED <<clients, blind>>
      BY <1>4 DEF CloseTask
    <2>3. IsFiniteSet(active')
      BY <2>1, FS_Subset DEF AloneInv
    <2>4. QED
      BY <1>1, <2>1, <2>2, <2>3 DEF AloneInv, Pending, Unnamed
  <1>5. CASE UNCHANGED vars
    BY <1>1, <1>5 DEF AloneInv, vars, Pending, Unnamed
  <1>6. QED
    BY <1>1, <1>2, <1>3, <1>4, <1>5, RouteStaysAlone, UpsertStaysAlone DEF Next

\* A turn that has the title of an active task in one of its sentences begins no
\* task, unless it was resolved while another's was on its way, or with more tasks
\* than are read.
THEOREM NamedTasksGoOn == Spec => NamedTaskIsContinued
  <1>1. Init => AloneInv
    BY TypesAtFirst, FS_EmptySet DEF Init, AloneInv, Pending, IdleClient
  <1>2. ASSUME AloneInv, NEW c \in Clients, UpsertTask(c), ~blind
        PROVE  \/ active' \subseteq active
               \/ \A t \in active : \A i \in DOMAIN clients[c].turn.message :
                    t # clients[c].turn.message[i] \ Marks
    <2>1. /\ Pending(c) /\ clients[c].task # NoTask
          /\ active' = active \cup ({clients[c].task} \ closed)
      BY <1>2 DEF UpsertTask, Pending, AloneInv
    <2>2. clients[c].task \in active \cup closed \/ Unnamed(clients[c].turn.message)
      BY <1>2, <2>1 DEF AloneInv
    <2>3. QED
      BY <2>1, <2>2 DEF Unnamed
  <1>3. AloneInv /\ [Next]_vars =>
          [\A c \in Clients :
             UpsertTask(c) /\ ~blind =>
               \/ active' \subseteq active
               \/ \A t \in active : \A i \in DOMAIN clients[c].turn.message :
                    t # clients[c].turn.message[i] \ Marks]_vars
    BY <1>2
  <1>4. QED
    BY <1>1, <1>3, AloneInvariance, PTL DEF Spec, NamedTaskIsContinued

-----------------------------------------------------------------------------
(* The task of a turn *)

\* What a task that is worth writing may be lost to, the model aside.
Excused(turn) ==
  \/ RouteIsHard(turn) \/ DetectNoise(SummaryOf(turn))
  \/ LongTermEntries(turn) = {} /\ (DurableKind(turn) \/ "explicit_long_term" \in turn.hints)

\* Where the task of a turn is, until its last field is stored.
Kept(cl) ==
  /\ cl.pc \in {"entries", "summary", "upsert"} => cl.task = cl.worth /\ cl.notes = {}
  /\ cl.pc = "upsert" => cl.fields = SummaryFields(cl.turn)
  /\ cl.pc = "fields" => cl.wrote = cl.worth
                         /\ cl.fields \cup cl.notes = SummaryFields(cl.turn)
  /\ cl.pc = "done" => cl.wrote = cl.worth /\ cl.notes = SummaryFields(cl.turn)

LosesNoTask(cl) ==
  ~cl.judged /\ cl.worth # NoTask /\ cl.pc \notin {"idle", "failed"} =>
    Materializes(cl.worth, cl.turn) /\ (Excused(cl.turn) \/ Kept(cl))

\* Without the model, a turn that is worth a task is routed to it.
LEMMA PlainRouteKeepsTask ==
  ASSUME NEW turn, LooksTaskWorthy(turn.message, turn.assistant), ~Excused(turn)
  PROVE /\ PlainRoute(turn) \in {"task", "mixed"}
        /\ PlainRoute(turn) = "mixed" => LongTermEntries(turn) # {}
  <1>1. TaskLike(turn)
    BY DEF TaskLike
  <1>2. QED
    BY <1>1 DEF PlainRoute, FallbackRoute, HeuristicRoute, Excused

LEMMA AnswerLosesNoTask ==
  ASSUME NEW turn \in Turn, NEW seen, NEW resolved \in ResolveTask(turn, seen),
         NEW route, NEW judged \in BOOLEAN, judged \/ route = PlainRoute(turn)
  PROVE LosesNoTask(Answered(turn, route, resolved, judged))
  <1> DEFINE cl == Answered(turn, route, resolved, judged)
             worth == TaskFor("task", resolved, turn)
  <1>1. /\ cl.turn = turn /\ cl.worth = worth /\ cl.notes = {} /\ cl.judged = judged
        /\ cl.pc \in {"entries", "summary", "done"}
        /\ cl.pc = "done" => cl.task = NoTask
    BY DEF Answered, AfterEntries, IdleClient
  <1>2. SUFFICES ASSUME ~judged, worth # NoTask
                 PROVE Materializes(worth, turn) /\ (Excused(turn) \/ Kept(cl))
    BY <1>1 DEF LosesNoTask
  <1>3. worth = resolved /\ Materializes(resolved, turn)
    BY <1>2 DEF TaskFor
  <1>4. LooksTaskWorthy(turn.message, turn.assistant)
    BY <1>2, <1>3 DEF ResolveTask
  <1>5. ASSUME ~Excused(turn) PROVE cl.task = worth
    <2>1. route \in {"task", "mixed"} /\ (route = "mixed" => LongTermEntries(turn) # {})
      BY <1>2, <1>4, <1>5, PlainRouteKeepsTask
    <2>2. QED
      BY <2>1 DEF Answered, AfterEntries, IdleClient, TaskFor
  <1> HIDE DEF cl, worth
  <1>6. QED
    BY <1>1, <1>2, <1>3, <1>5 DEF Kept

LEMMA RouteLosesNoTask ==
  ASSUME TypeOK, NEW c \in Clients, RouteMemory(c)
  PROVE \E new : clients' = [clients EXCEPT ![c] = new] /\ LosesNoTask(new)
  <1>1. \A turn :
          LosesNoTask([IdleClient EXCEPT !.pc = "failed", !.turn = turn, !.judged = TRUE])
    BY DEF LosesNoTask, IdleClient
  <1>2. QED
    BY <1>1, TurnsAreTurns, AnswerLosesNoTask DEF RouteMemory, Goto

LEMMA PostLosesNoTask ==
  ASSUME TypeOK, NEW c \in Clients, PostEntry(c), LosesNoTask(clients[c])
  PROVE \E new : clients' = [clients EXCEPT ![c] = new] /\ LosesNoTask(new)
  <1>1. clients[c].pc = "entries"
    BY DEF PostEntry
  <1>2. PICK new : clients' = [clients EXCEPT ![c] = new] /\ SameTask(clients[c], new)
    BY PostKeepsTask
  <1>3. LosesNoTask(new)
    BY <1>1, <1>2 DEF LosesNoTask, Kept, SameTask
  <1>4. QED
    BY <1>2, <1>3

LEMMA JudgeLosesNoTask ==
  ASSUME TypeOK, NEW c \in Clients, JudgeFields(c), LosesNoTask(clients[c])
  PROVE \E new : clients' = [clients EXCEPT ![c] = new] /\ LosesNoTask(new)
  <1> DEFINE cl == clients[c]
             noise == SureNoise(SummaryOf(cl.turn), "task")
             plain == IF noise \/ ~Materializes(cl.task, cl.turn) THEN {}
                      ELSE SummaryFields(cl.turn)
             new(some, judged) == [cl EXCEPT !.fields = some, !.judged = @ \/ judged,
                                     !.pc = IF some = {} THEN "done" ELSE "upsert"]
  <1>1. cl \in Client /\ cl.pc = "summary"
    BY DEF TypeOK, JudgeFields
  <1>2. \/ Goto(c, new(plain, FALSE))
        \/ \E some : Goto(c, new(some, TRUE))
        \/ Goto(c, [cl EXCEPT !.pc = "failed", !.judged = TRUE])
    BY DEF JudgeFields
  <1>3. CASE Goto(c, new(plain, FALSE))
    <2>1. SummaryFields(cl.turn) # {}
      BY DEF SummaryFields
    <2>2. /\ new(plain, FALSE).turn = cl.turn /\ new(plain, FALSE).worth = cl.worth
          /\ new(plain, FALSE).task = cl.task /\ new(plain, FALSE).notes = cl.notes
          /\ new(plain, FALSE).fields = plain /\ (cl.judged => new(plain, FALSE).judged)
          /\ new(plain, FALSE).pc = IF plain = {} THEN "done" ELSE "upsert"
      BY <1>1 DEF Client
    <2>3. Excused(cl.turn) \/ ~noise
      BY DEF Excused, SureNoise
    <2> DEFINE next == new(plain, FALSE)
    <2> HIDE DEF new, noise
    <2>4. LosesNoTask(next)
      BY <1>1, <2>1, <2>2, <2>3 DEF LosesNoTask, Kept
    <2>5. QED
      BY <1>3, <2>4 DEF Goto
  <1>4. CASE \E some : Goto(c, new(some, TRUE))
    <2>1. PICK some : Goto(c, new(some, TRUE))
      BY <1>4
    <2>2. new(some, TRUE).judged
      BY <1>1 DEF Client
    <2> HIDE DEF new
    <2>3. LosesNoTask(new(some, TRUE))
      BY <2>2 DEF LosesNoTask
    <2>4. QED
      BY <2>1, <2>3 DEF Goto
  <1>5. CASE Goto(c, [cl EXCEPT !.pc = "failed", !.judged = TRUE])
    <2>1. LosesNoTask([cl EXCEPT !.pc = "failed", !.judged = TRUE])
      BY <1>1 DEF LosesNoTask, Client
    <2>2. QED
      BY <1>5, <2>1 DEF Goto
  <1>6. QED
    BY <1>2, <1>3, <1>4, <1>5

LEMMA WriteLosesNoTask ==
  ASSUME TypeOK, NEW c \in Clients, UpsertTask(c) \/ StoreField(c),
         LosesNoTask(clients[c])
  PROVE \E new : clients' = [clients EXCEPT ![c] = new] /\ LosesNoTask(new)
  <1> DEFINE cl == clients[c]
  <1>1. cl \in Client
    BY DEF TypeOK
  <1>2. CASE UpsertTask(c)
    <2>1. cl.pc = "upsert"
      BY <1>2 DEF UpsertTask
    <2>2. LosesNoTask([cl EXCEPT !.pc = "fields", !.wrote = cl.task])
      BY <1>1, <2>1 DEF LosesNoTask, Kept, Client
    <2>3. QED
      BY <1>2, <2>2 DEF UpsertTask, Goto
  <1>3. CASE StoreField(c)
    <2>1. PICK f \in cl.fields :
            LET next == [cl EXCEPT !.fields = @ \ {f},
                           !.pc = IF cl.fields = {f} THEN "done" ELSE "fields"]
            IN \/ Goto(c, [next EXCEPT !.notes = @ \cup {f}])
               \/ Goto(c, [next EXCEPT !.judged = TRUE])
               \/ Goto(c, [next EXCEPT !.judged = TRUE, !.pc = "failed"])
      BY <1>3 DEF StoreField
    <2> DEFINE next == [cl EXCEPT !.fields = @ \ {f},
                          !.pc = IF cl.fields = {f} THEN "done" ELSE "fields"]
               stored == [next EXCEPT !.notes = @ \cup {f}]
    <2>2. cl.pc = "fields"
      BY <1>3 DEF StoreField
    <2>3. /\ stored.turn = cl.turn /\ stored.worth = cl.worth /\ stored.wrote = cl.wrote
          /\ stored.judged = cl.judged /\ stored.fields = cl.fields \ {f}
          /\ stored.notes = cl.notes \cup {f}
          /\ stored.pc = IF cl.fields = {f} THEN "done" ELSE "fields"
      BY <1>1 DEF Client
    <2>4. /\ [next EXCEPT !.judged = TRUE].judged
          /\ [next EXCEPT !.judged = TRUE, !.pc = "failed"].judged
      BY <1>1 DEF Client
    <2> HIDE DEF next, stored
    <2>5. LosesNoTask(stored)
      BY <2>2, <2>3 DEF LosesNoTask, Kept
    <2>6. /\ LosesNoTask([next EXCEPT !.judged = TRUE])
          /\ LosesNoTask([next EXCEPT !.judged = TRUE, !.pc = "failed"])
      BY <2>4 DEF LosesNoTask
    <2>7. QED
      BY <2>1, <2>5, <2>6 DEF Goto, next, stored
  <1>4. QED
    BY <1>2, <1>3

TaskInv == TypeOK /\ \A c \in Clients : LosesNoTask(clients[c])

\* A turn worth a task is lost only to a fact its words promise, to noise or to the
\* model.
THEOREM TasksAreWritten == Spec => []TaskIsLostOnlyToAFact
  <1>1. Init => TaskInv
    BY TypesAtFirst DEF Init, TaskInv, LosesNoTask, IdleClient
  <1>2. TaskInv /\ [Next]_vars => TaskInv'
    <2> SUFFICES ASSUME TaskInv, [Next]_vars PROVE TaskInv'
      OBVIOUS
    <2>1. TypeOK /\ TypeOK'
      BY TypeInvariance DEF TaskInv
    <2>2. CASE UNCHANGED clients
      BY <2>1, <2>2 DEF TaskInv
    <2>3. CASE \E c \in Clients : \E new :
                 clients' = [clients EXCEPT ![c] = new] /\ LosesNoTask(new)
      BY <2>1, <2>3 DEF TaskInv, TypeOK
    <2>4. QED
      BY <2>1, <2>2, <2>3, RouteLosesNoTask, PostLosesNoTask, JudgeLosesNoTask,
         WriteLosesNoTask DEF TaskInv, Next, vars, CloseTask
  <1>3. TaskInv => TaskIsLostOnlyToAFact
    BY DEF TaskInv, LosesNoTask, Kept, Excused, TaskIsLostOnlyToAFact
  <1>4. QED
    BY <1>1, <1>2, <1>3, PTL DEF Spec
=============================================================================
