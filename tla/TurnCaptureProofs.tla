-------------------------- MODULE TurnCaptureProofs --------------------------
(***************************************************************************)
(* For every number of sessions, of captures in flight and of failures:    *)
(* what a mark of the capture stands for and, while captures come one      *)
(* after the other, that a keyed fact is kept once and a turn sent once.   *)
(***************************************************************************)
EXTENDS TurnCapture, TLAPS

Texts == Messages \X (Answers \cup {Null})

Flight ==
  [pc : Places, session : Sessions \cup {Null}, turn : Nat,
   message : Messages \cup {Null}, answer : Answers \cup {Null},
   owed : SUBSET Facts, todo : SUBSET Facts, cur : Facts \cup {Null},
   task : BOOLEAN, seen : [Sessions -> Texts \cup {Null}]]

\* Marks that stand for turns the service had.
Delivered(m, done) == \A s \in Sessions : m[s] # Null => m[s] \in done[s]

\* How far a capture is: what it no longer has to store is stored, and the marks
\* it is about to write are of turns the service had.
Sound(c, held, summaries, done) ==
  /\ c.pc # "idle" => c.session \in Sessions
  /\ c.pc \notin {"idle", "read"} => c.message \in Messages
  /\ c.pc = "adding" => c.cur \in c.todo
  /\ c.pc \in {"store", "adding", "summary", "markRead"} =>
       \A f \in c.owed : f \in c.todo \/ held[f] > 0
  /\ c.pc \in {"summary", "markRead"} => c.todo = {}
  /\ c.pc = "markRead" /\ c.task => <<c.session, Fingerprint(c)>> \in summaries
  /\ c.pc \in {"markOpen", "markWrite"} => Delivered(c.seen, done)

Shape ==
  /\ turns \in [Sessions -> Seq(Texts)]
  /\ lastPrompt \in [Sessions -> Messages \cup {Null}]
  /\ marks \in [Sessions -> Texts \cup {Null}]
  /\ hooks \in [Hooks -> Flight]
  /\ kept \in [Facts -> Nat]
  /\ late \in [Facts -> Nat]
  /\ delivered \in [Sessions -> SUBSET Texts]
  /\ agent \in [Sessions -> Agents]
  /\ \A s \in Sessions : agent[s] # "ready" => turns[s] # <<>>

CaptureInv ==
  /\ Shape
  /\ Delivered(marks, delivered)
  /\ \A h \in Hooks : Sound(hooks[h], kept, summarised, delivered)

-----------------------------------------------------------------------------
(* Captures *)

LEMMA NoCaptureIsSound ==
  /\ NoCapture \in Flight
  /\ \A held, summaries, done : Sound(NoCapture, held, summaries, done)
  BY DEF NoCapture, NoMarks, Flight, Places, Sound

\* What the service has, it keeps: a capture that waits stays sound.
LEMMA SoundStays ==
  ASSUME NEW c \in Flight, NEW held, NEW summaries, NEW done,
         NEW held2, NEW summaries2, NEW done2,
         \A f \in Facts : held[f] > 0 => held2[f] > 0,
         summaries \subseteq summaries2,
         \A s \in Sessions : done[s] \subseteq done2[s],
         Sound(c, held, summaries, done)
  PROVE Sound(c, held2, summaries2, done2)
  BY DEF Sound, Flight, Delivered

\* Storing what is left of a turn, then its summary, then the mark.
LEMMA AfterStoresIsSound ==
  ASSUME NEW c \in Flight, NEW held, NEW summaries, NEW done,
         c.session \in Sessions, c.message \in Messages,
         \A f \in c.owed : f \in c.todo \/ held[f] > 0
  PROVE /\ AfterStores(c) \in Flight
        /\ Sound(AfterStores(c), held, summaries, done)
  <1> DEFINE new == AfterStores(c)
  <1>1. /\ new \in Flight /\ new.session = c.session /\ new.message = c.message
        /\ new.owed = c.owed /\ new.todo = c.todo /\ new.task = c.task
        /\ new.pc \in {"store", "summary", "markRead"}
        /\ new.pc # "store" => c.todo = {}
        /\ new.pc = "markRead" => ~c.task
    BY DEF AfterStores, Flight, Places
  <1> HIDE DEF new
  <1>2. Sound(new, held, summaries, done)
    BY <1>1 DEF Sound
  <1>3. QED
    BY <1>1, <1>2 DEF new

\* A step that replaces one capture by a sound one, and takes nothing away from
\* the service.
LEMMA OneCaptureMoves ==
  ASSUME CaptureInv, NEW h \in Hooks, NEW new \in Flight, Goto(h, new),
         Sound(new, kept', summarised', delivered'),
         kept' \in [Facts -> Nat], late' \in [Facts -> Nat],
         \A f \in Facts : kept[f] > 0 => kept'[f] > 0,
         summarised \subseteq summarised',
         delivered' \in [Sessions -> SUBSET Texts],
         \A s \in Sessions : delivered[s] \subseteq delivered'[s],
         UNCHANGED <<turns, agent, lastPrompt>>,
         marks' \in [Sessions -> Texts \cup {Null}],
         Delivered(marks', delivered')
  PROVE CaptureInv'
  <1>1. hooks' \in [Hooks -> Flight]
    BY DEF CaptureInv, Shape, Goto
  <1>2. Shape'
    BY <1>1 DEF CaptureInv, Shape
  <1>3. ASSUME NEW g \in Hooks PROVE Sound(hooks'[g], kept', summarised', delivered')
    <2>1. CASE g = h
      BY <2>1 DEF Goto, CaptureInv, Shape
    <2>2. CASE g # h
      <3>1. hooks'[g] = hooks[g] /\ hooks[g] \in Flight
        BY <2>2 DEF Goto, CaptureInv, Shape
      <3>2. Sound(hooks[g], kept, summarised, delivered)
        BY DEF CaptureInv
      <3>3. QED
        BY <3>1, <3>2, SoundStays
    <2>3. QED
      BY <2>1, <2>2
  <1>4. QED
    BY <1>2, <1>3 DEF CaptureInv

\* The same, when the service has nothing new.
LEMMA OnlyCaptureMoves ==
  ASSUME CaptureInv, NEW h \in Hooks, NEW new \in Flight, Goto(h, new),
         Sound(new, kept, summarised, delivered),
         UNCHANGED <<turns, agent, lastPrompt, marks, kept, summarised, delivered>>,
         late' \in [Facts -> Nat]
  PROVE CaptureInv'
  BY OneCaptureMoves DEF CaptureInv, Shape

-----------------------------------------------------------------------------
(* The steps of a capture *)

LEMMA HookIsFlight ==
  ASSUME CaptureInv, NEW h \in Hooks
  PROVE /\ hooks[h] \in Flight
        /\ Sound(hooks[h], kept, summarised, delivered)
        /\ kept \in [Facts -> Nat] /\ late \in [Facts -> Nat]
        /\ delivered \in [Sessions -> SUBSET Texts]
        /\ Delivered(marks, delivered)
  BY DEF CaptureInv, Shape

LEMMA ReadPromptSound ==
  ASSUME CaptureInv, NEW h \in Hooks, ReadPrompt(h) PROVE CaptureInv'
  <1> DEFINE c == hooks[h]
             next == [c EXCEPT !.pc = "check", !.message = lastPrompt[c.session]]
             new == IF lastPrompt[c.session] = Null THEN NoCapture ELSE next
  <1>1. c \in Flight /\ c.session \in Sessions /\ c.pc = "read"
    BY HookIsFlight DEF ReadPrompt, Sound
  <1>2. lastPrompt[c.session] \in Messages \cup {Null}
    BY <1>1 DEF CaptureInv, Shape
  <1>3. lastPrompt[c.session] # Null =>
          next \in Flight /\ Sound(next, kept, summarised, delivered)
    BY <1>1, <1>2 DEF Flight, Places, Sound
  <1>4. new \in Flight /\ Sound(new, kept, summarised, delivered)
    BY <1>3, NoCaptureIsSound
  <1>5. Goto(h, new) /\ UNCHANGED <<turns, agent, lastPrompt, marks, kept, summarised, delivered, late>>
    BY DEF ReadPrompt, service, history
  <1>6. late' \in [Facts -> Nat]
    BY <1>5, HookIsFlight
  <1> HIDE DEF new
  <1>7. QED
    BY <1>4, <1>5, <1>6, OnlyCaptureMoves

LEMMA CheckSound ==
  ASSUME CaptureInv, NEW h \in Hooks, Check(h) PROVE CaptureInv'
  <1> DEFINE c == hooks[h]
             next == [c EXCEPT !.pc = "route"]
             new == IF c.message \in Noise \/ IsDuplicate(c) THEN NoCapture ELSE next
  <1>1. c \in Flight /\ Sound(c, kept, summarised, delivered) /\ c.pc = "check"
    BY HookIsFlight DEF Check
  <1>2. next \in Flight /\ Sound(next, kept, summarised, delivered)
    BY <1>1 DEF Flight, Places, Sound
  <1>3. new \in Flight /\ Sound(new, kept, summarised, delivered)
    BY <1>2, NoCaptureIsSound
  <1>4. Goto(h, new) /\ UNCHANGED <<turns, agent, lastPrompt, marks, kept, summarised, delivered, late>>
    BY DEF Check, service, history
  <1>5. late' \in [Facts -> Nat]
    BY <1>4, HookIsFlight
  <1> HIDE DEF new
  <1>6. QED
    BY <1>3, <1>4, <1>5, OnlyCaptureMoves

LEMMA RouteSound ==
  ASSUME CaptureInv, NEW h \in Hooks, Route(h) PROVE CaptureInv'
  <1> DEFINE c == hooks[h]
             next(entries, task) ==
               [c EXCEPT !.owed = entries, !.todo = entries, !.task = task]
  <1>1. /\ c \in Flight /\ c.pc = "route" /\ c.session \in Sessions
        /\ c.message \in Messages
    BY HookIsFlight DEF Route, Sound
  <1>2. PICK entries \in {{}, FactsOf[c.message]}, task \in BOOLEAN :
          Goto(h, AfterStores(next(entries, task)))
    BY DEF Route
  <1>3. entries \subseteq Facts
    BY <1>1, <1>2, CaptureConstantsOK
  <1>4. /\ next(entries, task) \in Flight /\ next(entries, task).session \in Sessions
        /\ next(entries, task).message \in Messages
        /\ next(entries, task).owed = entries /\ next(entries, task).todo = entries
    BY <1>1, <1>3 DEF Flight
  <1> HIDE DEF next
  <1>5. /\ AfterStores(next(entries, task)) \in Flight
        /\ Sound(AfterStores(next(entries, task)), kept, summarised, delivered)
    BY <1>4, AfterStoresIsSound
  <1>6. /\ UNCHANGED <<turns, agent, lastPrompt, marks, kept, summarised, delivered>>
        /\ late' \in [Facts -> Nat]
    BY HookIsFlight DEF Route, service, history
  <1>7. QED
    BY <1>2, <1>5, <1>6, OnlyCaptureMoves

LEMMA PostEntrySound ==
  ASSUME CaptureInv, NEW h \in Hooks, PostEntry(h) PROVE CaptureInv'
  <1> DEFINE c == hooks[h]
  <1>1. /\ c \in Flight /\ c.pc = "store" /\ c.session \in Sessions
        /\ c.message \in Messages /\ \A f \in c.owed : f \in c.todo \/ kept[f] > 0
    BY HookIsFlight DEF PostEntry, Sound
  <1>2. PICK f \in c.todo :
          Goto(h, IF Known(f) THEN AfterStores([c EXCEPT !.todo = @ \ {f}])
                              ELSE [c EXCEPT !.pc = "adding", !.cur = f])
    BY DEF PostEntry
  <1>3. /\ UNCHANGED <<turns, agent, lastPrompt, marks, kept, summarised, delivered>>
        /\ late' \in [Facts -> Nat]
    BY HookIsFlight DEF PostEntry, service, history
  <1>4. CASE Known(f)
    <2> DEFINE next == [c EXCEPT !.todo = @ \ {f}]
    <2>1. /\ next \in Flight /\ next.session \in Sessions /\ next.message \in Messages
          /\ next.owed = c.owed /\ next.todo = c.todo \ {f}
      BY <1>1 DEF Flight
    <2> HIDE DEF next
    <2>2. \A g \in next.owed : g \in next.todo \/ kept[g] > 0
      BY <1>1, <1>4, <2>1 DEF Known
    <2>3. /\ AfterStores(next) \in Flight
          /\ Sound(AfterStores(next), kept, summarised, delivered)
      BY <2>1, <2>2, AfterStoresIsSound
    <2>4. Goto(h, AfterStores(next))
      BY <1>2, <1>4 DEF next
    <2>5. QED
      BY <1>3, <2>3, <2>4, OnlyCaptureMoves
  <1>5. CASE ~Known(f)
    <2> DEFINE next == [c EXCEPT !.pc = "adding", !.cur = f]
    <2>1. next \in Flight /\ Sound(next, kept, summarised, delivered)
      BY <1>1 DEF Flight, Places, Sound
    <2>2. Goto(h, next)
      BY <1>2, <1>5
    <2> HIDE DEF next
    <2>3. QED
      BY <1>3, <2>1, <2>2, OnlyCaptureMoves
  <1>6. QED
    BY <1>4, <1>5

LEMMA AddEntrySound ==
  ASSUME CaptureInv, NEW h \in Hooks, AddEntry(h) PROVE CaptureInv'
  <1> DEFINE c == hooks[h]
             next == [c EXCEPT !.todo = @ \ {c.cur}, !.cur = Null]
  <1>1. /\ c \in Flight /\ c.pc = "adding" /\ c.session \in Sessions
        /\ c.message \in Messages /\ c.cur \in c.todo /\ c.cur \in Facts
        /\ \A f \in c.owed : f \in c.todo \/ kept[f] > 0
    BY HookIsFlight DEF AddEntry, Sound, Flight
  <1>2. /\ kept' \in [Facts -> Nat] /\ kept'[c.cur] > 0
        /\ \A f \in Facts : kept[f] > 0 => kept'[f] > 0
    BY <1>1, HookIsFlight DEF AddEntry
  <1>3. /\ next \in Flight /\ next.session \in Sessions /\ next.message \in Messages
        /\ next.owed = c.owed /\ next.todo = c.todo \ {c.cur} /\ c.owed \subseteq Facts
    BY <1>1 DEF Flight
  <1>4. Goto(h, AfterStores(next))
    BY DEF AddEntry
  <1> HIDE DEF next
  <1>5. \A f \in next.owed : f \in next.todo \/ kept'[f] > 0
    BY <1>1, <1>2, <1>3
  <1>6. /\ UNCHANGED <<turns, agent, lastPrompt, marks, late, summarised, delivered>>
    BY DEF AddEntry, history
  <1>7. /\ AfterStores(next) \in Flight
        /\ Sound(AfterStores(next), kept', summarised', delivered')
    BY <1>3, <1>5, AfterStoresIsSound
  <1>8. QED
    BY <1>2, <1>4, <1>6, <1>7, OneCaptureMoves DEF CaptureInv, Shape

LEMMA PostSummarySound ==
  ASSUME CaptureInv, NEW h \in Hooks, PostSummary(h) PROVE CaptureInv'
  <1> DEFINE c == hooks[h]
             next == [c EXCEPT !.pc = "markRead"]
  <1>1. c \in Flight /\ Sound(c, kept, summarised, delivered) /\ c.pc = "summary"
    BY HookIsFlight DEF PostSummary
  <1>2. next \in Flight /\ Fingerprint(next) = Fingerprint(c)
    BY <1>1 DEF Flight, Places, Fingerprint
  <1>3. UNCHANGED <<turns, agent, lastPrompt, marks, kept, late, delivered>>
    BY DEF PostSummary, history
  <1>4. summarised' = summarised \cup {<<c.session, Fingerprint(c)>>} /\ Goto(h, next)
    BY DEF PostSummary
  <1>5. Sound(next, kept', summarised', delivered')
    BY <1>1, <1>2, <1>3, <1>4 DEF Sound, Flight
  <1> HIDE DEF next
  <1>6. QED
    BY <1>2, <1>3, <1>4, <1>5, OneCaptureMoves DEF CaptureInv, Shape

\* A capture that comes to its mark has nothing left: its turn is delivered.
LEMMA AcknowledgeDelivers ==
  ASSUME CaptureInv, NEW h \in Hooks, hooks[h].pc = "markRead", Acknowledge(hooks[h])
  PROVE /\ delivered' \in [Sessions -> SUBSET Texts]
        /\ \A s \in Sessions : delivered[s] \subseteq delivered'[s]
        /\ hooks[h].session \in Sessions /\ Fingerprint(hooks[h]) \in Texts
        /\ Fingerprint(hooks[h]) \in delivered'[hooks[h].session]
  <1> DEFINE c == hooks[h]
  <1>1. c \in Flight /\ Sound(c, kept, summarised, delivered)
    BY HookIsFlight
  <1>2. c.session \in Sessions /\ c.message \in Messages /\ c.answer \in Answers \cup {Null}
    BY <1>1 DEF Sound, Flight
  <1>3. /\ \A f \in c.owed : kept[f] > 0
        /\ c.task => <<c.session, Fingerprint(c)>> \in summarised
    BY <1>1 DEF Sound
  <1>4. delivered' = [delivered EXCEPT ![c.session] = @ \cup {Fingerprint(c)}]
    BY <1>3 DEF Acknowledge
  <1>5. Fingerprint(c) \in Texts
    BY <1>2 DEF Fingerprint, Texts
  <1> HIDE DEF c
  <1>6. QED
    BY <1>2, <1>4, <1>5, HookIsFlight DEF c

LEMMA MarkInMemorySound ==
  ASSUME CaptureInv, NEW h \in Hooks, MarkInMemory(h) PROVE CaptureInv'
  <1> DEFINE c == hooks[h]
  <1>1. /\ delivered' \in [Sessions -> SUBSET Texts]
        /\ \A s \in Sessions : delivered[s] \subseteq delivered'[s]
        /\ c.session \in Sessions /\ Fingerprint(c) \in Texts
        /\ Fingerprint(c) \in delivered'[c.session]
    BY AcknowledgeDelivers DEF MarkInMemory
  <1>2. marks' = [marks EXCEPT ![c.session] = Fingerprint(c)] /\ Goto(h, NoCapture)
    BY DEF MarkInMemory
  <1>3. UNCHANGED <<turns, agent, lastPrompt, kept, late, summarised>>
    BY DEF MarkInMemory, service
  <1> HIDE DEF c
  <1>4. marks' \in [Sessions -> Texts \cup {Null}] /\ Delivered(marks', delivered')
    BY <1>1, <1>2 DEF CaptureInv, Shape, Delivered
  <1>5. QED
    BY <1>1, <1>2, <1>3, <1>4, NoCaptureIsSound, OneCaptureMoves DEF CaptureInv, Shape

LEMMA ReadMarksSound ==
  ASSUME CaptureInv, NEW h \in Hooks, ReadMarks(h) PROVE CaptureInv'
  <1> DEFINE c == hooks[h]
             seen == [LoadedMarks EXCEPT ![c.session] = Fingerprint(c)]
             next == [c EXCEPT !.pc = "markOpen", !.seen = seen]
  <1>1. /\ delivered' \in [Sessions -> SUBSET Texts]
        /\ \A s \in Sessions : delivered[s] \subseteq delivered'[s]
        /\ c.session \in Sessions /\ Fingerprint(c) \in Texts
        /\ Fingerprint(c) \in delivered'[c.session]
    BY AcknowledgeDelivers DEF ReadMarks
  <1>2. c \in Flight /\ Sound(c, kept, summarised, delivered) /\ c.pc = "markRead"
    BY HookIsFlight DEF ReadMarks
  <1>3. /\ LoadedMarks \in [Sessions -> Texts \cup {Null}]
        /\ Delivered(LoadedMarks, delivered)
    BY DEF CaptureInv, Shape, LoadedMarks, NoMarks, Delivered
  <1>4. seen \in [Sessions -> Texts \cup {Null}] /\ Delivered(seen, delivered')
    BY <1>1, <1>3 DEF Delivered
  <1> HIDE DEF seen
  <1>5. next \in Flight /\ Sound(next, kept, summarised, delivered')
    BY <1>2, <1>4 DEF Flight, Places, Sound
  <1>6. Goto(h, next)
    BY DEF ReadMarks, seen
  <1>7. UNCHANGED <<turns, agent, lastPrompt, marks, kept, late, summarised>>
    BY DEF ReadMarks, service
  <1>8. Delivered(marks, delivered')
    BY <1>1 DEF Delivered, CaptureInv
  <1> HIDE DEF next, c
  <1>9. QED
    BY <1>1, <1>5, <1>6, <1>7, <1>8, OneCaptureMoves DEF CaptureInv, Shape

LEMMA OpenMarksSound ==
  ASSUME CaptureInv, NEW h \in Hooks, OpenMarks(h) PROVE CaptureInv'
  <1> DEFINE next == [hooks[h] EXCEPT !.pc = "markWrite"]
  <1>1. next \in Flight /\ Sound(next, kept, summarised, delivered)
    BY HookIsFlight DEF OpenMarks, Flight, Places, Sound
  <1>2. /\ Goto(h, next) /\ late' \in [Facts -> Nat]
        /\ UNCHANGED <<turns, agent, lastPrompt, marks, kept, summarised, delivered>>
    BY HookIsFlight DEF OpenMarks, service, history
  <1> HIDE DEF next
  <1>3. QED
    BY <1>1, <1>2, OnlyCaptureMoves

LEMMA WriteMarksSound ==
  ASSUME CaptureInv, NEW h \in Hooks, WriteMarks(h) PROVE CaptureInv'
  <1>1. Delivered(hooks[h].seen, delivered) /\ hooks[h].seen \in [Sessions -> Texts \cup {Null}]
    BY HookIsFlight DEF WriteMarks, Sound, Flight
  <1>2. /\ Goto(h, NoCapture) /\ marks' = hooks[h].seen
        /\ UNCHANGED <<turns, agent, lastPrompt, kept, late, summarised, delivered>>
    BY DEF WriteMarks, service, history
  <1>3. QED
    BY <1>1, <1>2, NoCaptureIsSound, OneCaptureMoves DEF CaptureInv, Shape

LEMMA FailSound ==
  ASSUME CaptureInv, NEW h \in Hooks, CaptureFails(h) PROVE CaptureInv'
  <1>1. late' \in [Facts -> Nat]
    <2>1. late \in [Facts -> Nat]
      BY HookIsFlight
    <2>2. late' = late \/ \E f : late' = [late EXCEPT ![f] = @ + 1]
      BY DEF CaptureFails
    <2>3. QED
      BY <2>1, <2>2
  <1>2. /\ Goto(h, NoCapture)
        /\ UNCHANGED <<turns, agent, lastPrompt, marks, kept, summarised, delivered>>
    BY DEF CaptureFails, Failed
  <1>3. QED
    BY <1>1, <1>2, NoCaptureIsSound, OnlyCaptureMoves

-----------------------------------------------------------------------------
(* The session, the failures of the gateway and the late stores *)

LEMMA SessionKeepsService ==
  ASSUME CaptureInv, Shape', UNCHANGED <<marks, kept, summarised, delivered>>,
         \A h \in Hooks : hooks'[h] = hooks[h]
                          \/ Sound(hooks'[h], kept, summarised, delivered)
  PROVE CaptureInv'
  BY DEF CaptureInv, Delivered

LEMMA StartIsSound ==
  ASSUME CaptureInv, NEW s \in Sessions, NEW turn \in Texts,
         turns[s] \in Seq(Texts), Start(s, turn)
  PROVE /\ hooks' \in [Hooks -> Flight]
        /\ \A h \in Hooks : hooks'[h] = hooks[h]
                            \/ Sound(hooks'[h], kept, summarised, delivered)
  <1> DEFINE new == [NoCapture EXCEPT
                  !.pc = IF host = "claude-code" THEN "read" ELSE "check",
                  !.session = s, !.turn = Len(turns[s]),
                  !.message = IF host = "claude-code" THEN Null ELSE turn[1],
                  !.answer = turn[2]]
  <1>1. PICK h \in Hooks : Goto(h, new)
    BY DEF Start
  <1>2. turn[1] \in Messages /\ turn[2] \in Answers \cup {Null} /\ Len(turns[s]) \in Nat
    BY DEF Texts
  <1>3. new \in Flight
    BY <1>2, NoCaptureIsSound DEF Flight, Places
  <1>4. Sound(new, kept, summarised, delivered)
    BY <1>2 DEF NoCapture, Sound
  <1> HIDE DEF new
  <1>5. QED
    BY <1>1, <1>3, <1>4 DEF Goto, CaptureInv, Shape

LEMMA SubmitSound ==
  ASSUME CaptureInv, NEW s \in Sessions, NEW m \in Messages, Submit(s, m)
  PROVE CaptureInv'
  <1>1. <<m, Null>> \in Texts
    BY DEF Texts
  <1>2. turns[s] \in Seq(Texts)
    BY DEF CaptureInv, Shape
  <1>3. Append(turns[s], <<m, Null>>) \in Seq(Texts) \ {<<>>}
    BY <1>1, <1>2
  <1>4. turns' = [turns EXCEPT ![s] = Append(turns[s], <<m, Null>>)]
    BY DEF Submit
  <1>5. turns' \in [Sessions -> Seq(Texts)] /\ turns'[s] # <<>>
        /\ \A t \in Sessions : turns'[t] = turns[t] \/ t = s
    BY <1>3, <1>4 DEF CaptureInv, Shape
  <1>6. agent' \in [Sessions -> Agents] /\ \A t \in Sessions : agent'[t] = agent[t] \/ t = s
    BY DEF Submit, CaptureInv, Shape, Agents
  <1>7. UNCHANGED <<lastPrompt, marks, hooks, kept, late, summarised, delivered>>
    BY DEF Submit, service
  <1>8. Shape'
    BY <1>5, <1>6, <1>7 DEF CaptureInv, Shape
  <1>9. QED
    BY <1>7, <1>8, SessionKeepsService

LEMMA PromptFileSound ==
  ASSUME CaptureInv, NEW s \in Sessions,
         OpenPromptFile(s) \/ WritePromptFile(s) \/ PromptHookFails(s)
  PROVE CaptureInv'
  <1>1. turns[s] \in Seq(Texts) /\ turns[s] # <<>>
    BY DEF OpenPromptFile, WritePromptFile, PromptHookFails, CaptureInv, Shape
  <1>2. turns[s][Len(turns[s])][1] \in Messages
    <2>1. Len(turns[s]) \in DOMAIN turns[s]
      BY <1>1
    <2>2. turns[s][Len(turns[s])] \in Texts
      BY <1>1, <2>1
    <2>3. QED
      BY <2>2 DEF Texts
  <1>3. lastPrompt' \in [Sessions -> Messages \cup {Null}]
    BY <1>2 DEF OpenPromptFile, WritePromptFile, PromptHookFails, CaptureInv, Shape
  <1>4. /\ agent' \in [Sessions -> Agents]
        /\ \A t \in Sessions : agent'[t] = agent[t] \/ t = s
    BY DEF OpenPromptFile, WritePromptFile, PromptHookFails, CaptureInv, Shape, Agents
  <1>5. UNCHANGED <<turns, marks, hooks, kept, late, summarised, delivered>>
    BY DEF OpenPromptFile, WritePromptFile, PromptHookFails, service, history
  <1>6. Shape'
    BY <1>1, <1>3, <1>4, <1>5 DEF CaptureInv, Shape
  <1>7. QED
    BY <1>5, <1>6, SessionKeepsService

LEMMA EndSound ==
  ASSUME CaptureInv, NEW s \in Sessions, NEW a \in Answers, End(s, a)
  PROVE CaptureInv'
  <1> DEFINE n == Len(turns[s])
  <1>1. turns[s] \in Seq(Texts) /\ turns[s] # <<>>
    BY DEF End, CaptureInv, Shape
  <1>2. n \in Nat /\ n \in DOMAIN turns[s] /\ turns[s][n] \in Texts
    BY <1>1
  <1>3. <<turns[s][n][1], a>> \in Texts
    BY <1>2 DEF Texts
  <1>4. turns' = [turns EXCEPT ![s] = [turns[s] EXCEPT ![n] = [turns[s][n] EXCEPT ![2] = a]]]
    BY DEF End
  <1>5. [turns[s][n] EXCEPT ![2] = a] \in Texts
    BY <1>2 DEF Texts
  <1>6. [turns[s] EXCEPT ![n] = [turns[s][n] EXCEPT ![2] = a]] \in Seq(Texts) \ {<<>>}
    BY <1>1, <1>2, <1>5
  <1>7. turns' \in [Sessions -> Seq(Texts)] /\ turns'[s] # <<>>
        /\ \A t \in Sessions : turns'[t] = turns[t] \/ t = s
    BY <1>4, <1>6 DEF CaptureInv, Shape
  <1>8. /\ hooks' \in [Hooks -> Flight]
        /\ \A h \in Hooks : hooks'[h] = hooks[h]
                            \/ Sound(hooks'[h], kept, summarised, delivered)
    BY <1>1, <1>3, StartIsSound DEF End
  <1>9. /\ UNCHANGED <<lastPrompt, marks, kept, late, summarised, delivered>>
        /\ agent' \in [Sessions -> Agents]
        /\ \A t \in Sessions : agent'[t] = agent[t] \/ t = s
    BY DEF End, service, CaptureInv, Shape, Agents
  <1>10. Shape'
    BY <1>7, <1>8, <1>9 DEF CaptureInv, Shape
  <1>11. QED
    BY <1>8, <1>9, <1>10, SessionKeepsService

LEMMA ReportSound ==
  ASSUME CaptureInv, NEW s \in Sessions, Report(s) PROVE CaptureInv'
  <1>1. turns[s] \in Seq(Texts) /\ turns[s] # <<>>
    BY DEF Report, CaptureInv, Shape
  <1>2. turns[s][Len(turns[s])] \in Texts
    BY <1>1
  <1>3. /\ hooks' \in [Hooks -> Flight]
        /\ \A h \in Hooks : hooks'[h] = hooks[h]
                            \/ Sound(hooks'[h], kept, summarised, delivered)
    BY <1>1, <1>2, StartIsSound DEF Report
  <1>4. UNCHANGED <<turns, agent, lastPrompt, marks, kept, late, summarised, delivered>>
    BY DEF Report, service
  <1>5. Shape'
    BY <1>3, <1>4 DEF CaptureInv, Shape
  <1>6. QED
    BY <1>3, <1>4, <1>5, SessionKeepsService

LEMMA AddLateSound ==
  ASSUME CaptureInv, AddLate PROVE CaptureInv'
  <1>1. PICK f \in Facts :
          /\ late[f] > 0
          /\ late' = [late EXCEPT ![f] = @ - 1]
          /\ kept' = [kept EXCEPT ![f] = @ + 1]
    BY DEF AddLate
  <1>2. /\ late' \in [Facts -> Nat] /\ kept' \in [Facts -> Nat]
        /\ \A g \in Facts : kept[g] > 0 => kept'[g] > 0
    BY <1>1 DEF CaptureInv, Shape
  <1>3. UNCHANGED <<turns, agent, lastPrompt, marks, hooks, summarised, delivered>>
    BY DEF AddLate, history
  <1>4. Shape' /\ Delivered(marks', delivered')
    BY <1>2, <1>3 DEF CaptureInv, Shape
  <1>5. ASSUME NEW h \in Hooks PROVE Sound(hooks[h], kept', summarised, delivered)
    BY <1>2, HookIsFlight, SoundStays
  <1>6. QED
    BY <1>3, <1>4, <1>5 DEF CaptureInv

LEMMA RestartSound ==
  ASSUME CaptureInv, GatewayRestarts PROVE CaptureInv'
  <1>1. /\ marks' = NoMarks /\ hooks' = [h \in Hooks |-> NoCapture]
        /\ UNCHANGED <<turns, agent, lastPrompt, kept, late, summarised, delivered>>
    BY DEF GatewayRestarts, service
  <1>2. NoMarks \in [Sessions -> Texts \cup {Null}] /\ Delivered(NoMarks, delivered)
    BY DEF NoMarks, Delivered
  <1>3. Shape'
    BY <1>1, <1>2, NoCaptureIsSound DEF CaptureInv, Shape
  <1>4. QED
    BY <1>1, <1>2, <1>3, NoCaptureIsSound DEF CaptureInv

LEMMA CaptureInit == Init => CaptureInv
  <1> SUFFICES ASSUME Init PROVE CaptureInv
    OBVIOUS
  <1>1. Shape
    BY NoCaptureIsSound DEF Init, Shape, NoMarks, Agents
  <1>2. Delivered(marks, delivered)
    BY DEF Init, NoMarks, Delivered
  <1>3. \A h \in Hooks : Sound(hooks[h], kept, summarised, delivered)
    BY NoCaptureIsSound DEF Init
  <1>4. QED
    BY <1>1, <1>2, <1>3 DEF CaptureInv

LEMMA CaptureStep == CaptureInv /\ [Next]_vars => CaptureInv'
  <1> SUFFICES ASSUME CaptureInv, [Next]_vars PROVE CaptureInv'
    OBVIOUS
  <1>1. CASE UNCHANGED vars
    BY <1>1 DEF vars, service, history, CaptureInv, Shape, Delivered
  <1>2. ASSUME NEW h \in Hooks, Proceed(h) PROVE CaptureInv'
    BY <1>2, ReadPromptSound, CheckSound, RouteSound, PostEntrySound, AddEntrySound,
       PostSummarySound, MarkInMemorySound, ReadMarksSound, OpenMarksSound,
       WriteMarksSound DEF Proceed
  <1>3. QED
    BY <1>1, <1>2, SubmitSound, PromptFileSound, EndSound, ReportSound, FailSound,
       AddLateSound, RestartSound DEF Next

\* Whatever fails, is killed or is written back by another session's hook: a mark
\* that can be read stands for a turn the service had in full.
THEOREM MarksAreDelivered == Spec => []MarkedWasDelivered
  <1>1. CaptureInv => MarkedWasDelivered
    BY DEF CaptureInv, Delivered, MarkedWasDelivered, LoadedMarks, NoMarks
  <1>2. QED
    BY <1>1, CaptureInit, CaptureStep, PTL DEF Spec

-----------------------------------------------------------------------------
(* No keyed fact twice *)

\* As long as captures come one after the other, one is in flight, and a keyed fact
\* that it adds is not there yet.
OnceInv ==
  /\ CaptureInv
  /\ ~overlapped =>
       /\ \A f \in Facts : late[f] = 0 /\ (f \in Keyed => kept[f] <= 1)
       /\ \A g, h \in Hooks : InFlight(g) /\ InFlight(h) => g = h
       /\ \A h \in Hooks : hooks[h].pc = "adding" /\ hooks[h].cur \in Keyed =>
            kept[hooks[h].cur] = 0

\* A capture in flight that goes on without adding a fact.
LEMMA GoesOnOnce ==
  ASSUME OnceInv, CaptureInv', NEW h \in Hooks, NEW new, Goto(h, new), InFlight(h),
         new.pc = "adding" /\ new.cur \in Keyed => kept[new.cur] = 0,
         UNCHANGED <<kept, late, overlapped>>
  PROVE OnceInv'
  <1>1. \A g \in Hooks : hooks'[g] = hooks[g] \/ (g = h /\ hooks'[g] = new)
    BY DEF OnceInv, CaptureInv, Shape, Goto
  <1>2. \A g \in Hooks : InFlight(g)' => InFlight(g)
    BY <1>1 DEF InFlight
  <1>3. QED
    BY <1>1, <1>2 DEF OnceInv

LEMMA AddsOnce ==
  ASSUME OnceInv, CaptureInv', NEW h \in Hooks, AddEntry(h) PROVE OnceInv'
  <1> DEFINE c == hooks[h]
  <1>1. /\ c \in Flight /\ c.cur \in Facts /\ kept \in [Facts -> Nat]
        /\ InFlight(h) /\ c.pc = "adding"
    BY HookIsFlight DEF AddEntry, Sound, Flight, InFlight, OnceInv
  <1>2. kept' = [kept EXCEPT ![c.cur] = @ + 1] /\ UNCHANGED <<late, overlapped>>
    BY DEF AddEntry, history
  <1>3. PICK new : Goto(h, new) /\ new.pc # "adding"
    <2>1. AfterStores([c EXCEPT !.todo = @ \ {c.cur}, !.cur = Null]).pc # "adding"
      BY <1>1 DEF AfterStores, Flight
    <2>2. QED
      BY <2>1 DEF AddEntry
  <1>4. \A g \in Hooks : hooks'[g] = hooks[g] \/ (g = h /\ hooks'[g] = new)
    BY <1>3 DEF OnceInv, CaptureInv, Shape, Goto
  <1>5. \A g \in Hooks : InFlight(g)' => InFlight(g)
    BY <1>1, <1>4 DEF InFlight
  <1>6. SUFFICES ASSUME ~overlapped
                 PROVE /\ \A f \in Facts : late[f] = 0 /\ (f \in Keyed => kept'[f] <= 1)
                       /\ \A g \in Hooks : hooks'[g].pc # "adding"
    BY <1>2, <1>5 DEF OnceInv
  <1>7. \A f \in Facts : late[f] = 0 /\ (f \in Keyed => kept'[f] <= 1)
    BY <1>1, <1>2, <1>6 DEF OnceInv
  <1>8. \A g \in Hooks : hooks'[g].pc # "adding"
    BY <1>1, <1>3, <1>4, <1>6 DEF OnceInv, InFlight, Goto, CaptureInv, Shape
  <1>9. QED
    BY <1>7, <1>8

LEMMA ProceedsOnce ==
  ASSUME OnceInv, CaptureInv', NEW h \in Hooks, Proceed(h) PROVE OnceInv'
  <1> DEFINE c == hooks[h]
  <1>1. c \in Flight /\ InFlight(h)
    BY HookIsFlight DEF OnceInv, Proceed, ReadPrompt, Check, Route, PostEntry, AddEntry,
       PostSummary, MarkInMemory, ReadMarks, OpenMarks, WriteMarks, InFlight
  <1>2. \A some \in Flight : AfterStores(some).pc # "adding"
    BY DEF AfterStores, Flight
  <1>3. CASE PostEntry(h)
    <2>1. PICK f \in c.todo :
            Goto(h, IF Known(f) THEN AfterStores([c EXCEPT !.todo = @ \ {f}])
                                ELSE [c EXCEPT !.pc = "adding", !.cur = f])
      BY <1>3 DEF PostEntry
    <2>2. [c EXCEPT !.todo = @ \ {f}] \in Flight
      BY <1>1 DEF Flight
    <2>3. /\ [c EXCEPT !.pc = "adding", !.cur = f].cur = f
          /\ Known(f) \/ f \notin Keyed \/ kept[f] = 0
      BY <1>1, HookIsFlight DEF Known, Flight, OnceInv
    <2>4. UNCHANGED <<kept, late, overlapped>>
      BY <1>3 DEF PostEntry, service, history
    <2>5. CASE Known(f)
      BY <1>1, <1>2, <2>1, <2>2, <2>4, <2>5, GoesOnOnce
    <2>6. CASE ~Known(f)
      BY <1>1, <2>1, <2>3, <2>4, <2>6, GoesOnOnce
    <2>7. QED
      BY <2>5, <2>6
  <1>4. CASE AddEntry(h)
    BY <1>4, AddsOnce
  <1>5. CASE Route(h)
    <2>1. PICK entries \in {{}, FactsOf[c.message]}, task \in BOOLEAN :
            Goto(h, AfterStores([c EXCEPT !.owed = entries, !.todo = entries, !.task = task]))
      BY <1>5 DEF Route
    <2>2. AfterStores([c EXCEPT !.owed = entries, !.todo = entries, !.task = task]).pc
            # "adding"
      BY <1>1 DEF AfterStores, Flight
    <2>3. UNCHANGED <<kept, late, overlapped>>
      BY <1>5 DEF Route, service
    <2>4. QED
      BY <1>1, <2>1, <2>2, <2>3, GoesOnOnce
  <1>6. CASE ReadPrompt(h) \/ Check(h) \/ PostSummary(h) \/ MarkInMemory(h)
             \/ ReadMarks(h) \/ OpenMarks(h) \/ WriteMarks(h)
    <2>1. PICK new : Goto(h, new) /\ new.pc # "adding"
      <3>1. NoCapture.pc # "adding"
        BY DEF NoCapture
      <3>2. CASE ReadPrompt(h)
        <4> DEFINE next == [c EXCEPT !.pc = "check", !.message = lastPrompt[c.session]]
        <4>1. next.pc # "adding"
          BY <1>1 DEF Flight
        <4>2. Goto(h, NoCapture) \/ Goto(h, next)
          BY <3>2 DEF ReadPrompt
        <4> HIDE DEF next
        <4>3. QED
          BY <3>1, <4>1, <4>2
      <3>3. CASE Check(h)
        <4> DEFINE next == [c EXCEPT !.pc = "route"]
        <4>1. next.pc # "adding"
          BY <1>1 DEF Flight
        <4>2. Goto(h, NoCapture) \/ Goto(h, next)
          BY <3>3 DEF Check
        <4> HIDE DEF next
        <4>3. QED
          BY <3>1, <4>1, <4>2
      <3>4. CASE PostSummary(h) \/ OpenMarks(h)
        <4> DEFINE read == [c EXCEPT !.pc = "markRead"]
                   write == [c EXCEPT !.pc = "markWrite"]
        <4>1. read.pc # "adding" /\ write.pc # "adding"
          BY <1>1 DEF Flight
        <4>2. Goto(h, read) \/ Goto(h, write)
          BY <3>4 DEF PostSummary, OpenMarks
        <4> HIDE DEF read, write
        <4>3. QED
          BY <4>1, <4>2
      <3>5. CASE ReadMarks(h)
        <4> DEFINE next == [c EXCEPT !.pc = "markOpen",
                              !.seen = [LoadedMarks EXCEPT ![c.session] = Fingerprint(c)]]
        <4>1. next.pc # "adding" /\ Goto(h, next)
          BY <1>1, <3>5 DEF Flight, ReadMarks
        <4> HIDE DEF next
        <4>2. QED
          BY <4>1
      <3>6. CASE MarkInMemory(h) \/ WriteMarks(h)
        BY <3>1, <3>6 DEF MarkInMemory, WriteMarks
      <3>7. QED
        BY <1>6, <3>2, <3>3, <3>4, <3>5, <3>6
    <2>2. UNCHANGED <<kept, late, overlapped>>
      BY <1>6 DEF ReadPrompt, Check, PostSummary, MarkInMemory, ReadMarks, OpenMarks,
         WriteMarks, service, history
    <2>3. QED
      BY <1>1, <2>1, <2>2, GoesOnOnce
  <1>7. QED
    BY <1>3, <1>4, <1>5, <1>6 DEF Proceed

LEMMA StartsOnce ==
  ASSUME OnceInv, CaptureInv', NEW s \in Sessions, NEW turn, Start(s, turn),
         UNCHANGED <<kept, late>>
  PROVE OnceInv'
  <1>1. SUFFICES ASSUME ~overlapped'
                 PROVE /\ \A f \in Facts : late[f] = 0 /\ (f \in Keyed => kept[f] <= 1)
                       /\ \A g, h \in Hooks : InFlight(g)' /\ InFlight(h)' => g = h
                       /\ \A h \in Hooks : hooks'[h].pc # "adding"
    BY DEF OnceInv
  <1>2. ~overlapped /\ \A g \in Hooks : ~InFlight(g)
    BY <1>1 DEF Start
  <1>3. PICK new : (\E h \in Hooks : Goto(h, new)) /\ new.pc \in {"read", "check"}
    <2> DEFINE new == [NoCapture EXCEPT
                  !.pc = IF host = "claude-code" THEN "read" ELSE "check",
                  !.session = s, !.turn = Len(turns[s]),
                  !.message = IF host = "claude-code" THEN Null ELSE turn[1],
                  !.answer = turn[2]]
    <2>1. new.pc \in {"read", "check"}
      BY DEF NoCapture
    <2>2. \E h \in Hooks : Goto(h, new)
      BY DEF Start
    <2> HIDE DEF new
    <2>3. QED
      BY <2>1, <2>2
  <1>4. PICK h \in Hooks : Goto(h, new)
    BY <1>3
  <1>5. \A g \in Hooks : hooks'[g] = hooks[g] \/ (g = h /\ hooks'[g] = new)
    BY <1>4 DEF OnceInv, CaptureInv, Shape, Goto
  <1>6. QED
    BY <1>2, <1>3, <1>5 DEF OnceInv, InFlight

LEMMA OnceStep == OnceInv /\ [Next]_vars => OnceInv'
  <1> SUFFICES ASSUME OnceInv, [Next]_vars PROVE OnceInv'
    OBVIOUS
  <1>1. CaptureInv /\ CaptureInv'
    BY CaptureStep DEF OnceInv
  <1>2. CASE UNCHANGED <<hooks, kept, late, overlapped>>
    BY <1>1, <1>2 DEF OnceInv, InFlight
  <1>3. ASSUME NEW s \in Sessions, NEW a \in Answers, End(s, a) PROVE OnceInv'
    BY <1>1, <1>3, StartsOnce DEF End, service
  <1>4. ASSUME NEW s \in Sessions, Report(s) PROVE OnceInv'
    BY <1>1, <1>4, StartsOnce DEF Report, service
  <1>5. ASSUME NEW h \in Hooks, CaptureFails(h) PROVE OnceInv'
    <2>1. CASE UNCHANGED <<late, overlapped>>
      <3>1. NoCapture.pc # "adding"
        BY DEF NoCapture
      <3>2. InFlight(h) /\ Goto(h, NoCapture) /\ kept' = kept
        BY <1>5 DEF CaptureFails, InFlight, Failed
      <3>3. QED
        BY <1>1, <2>1, <3>1, <3>2, GoesOnOnce
    <2>2. CASE overlapped'
      BY <1>1, <2>2 DEF OnceInv
    <2>3. QED
      BY <1>5, <2>1, <2>2 DEF CaptureFails
  <1>6. CASE AddLate
    <2>1. overlapped' = overlapped /\ \E f \in Facts : late[f] > 0
      BY <1>6 DEF AddLate, history
    <2>2. overlapped
      BY <2>1 DEF OnceInv
    <2>3. QED
      BY <1>1, <2>1, <2>2 DEF OnceInv
  <1>7. CASE GatewayRestarts
    <2>1. /\ UNCHANGED <<kept, late, overlapped>>
          /\ \A h \in Hooks : hooks'[h] = NoCapture
      BY <1>7 DEF GatewayRestarts, service
    <2>2. NoCapture.pc = "idle"
      BY DEF NoCapture
    <2>3. QED
      BY <1>1, <2>1, <2>2 DEF OnceInv, InFlight
  <1>8. ASSUME NEW s \in Sessions,
               \/ \E m \in Messages : Submit(s, m)
               \/ OpenPromptFile(s) \/ WritePromptFile(s) \/ PromptHookFails(s)
        PROVE OnceInv'
    BY <1>2, <1>8 DEF Submit, OpenPromptFile, WritePromptFile, PromptHookFails, service,
       history
  <1>9. CASE UNCHANGED vars
    BY <1>2, <1>9 DEF vars, service, history
  <1>10. QED
    BY <1>1, <1>3, <1>4, <1>5, <1>6, <1>7, <1>8, <1>9, ProceedsOnce DEF Next

\* A capture that is repeated from the start leaves no keyed fact twice as long as
\* captures come one after the other.
THEOREM FactsAreKeptOnce == Spec => []FactsKeptOnce
  <1>1. Init => OnceInv
    BY CaptureInit DEF Init, OnceInv, InFlight, NoCapture
  <1>2. OnceInv => FactsKeptOnce
    BY CaptureConstantsOK DEF OnceInv, FactsKeptOnce
  <1>3. QED
    BY <1>1, <1>2, OnceStep, PTL DEF Spec

-----------------------------------------------------------------------------
(* No turn sent twice *)

\* Has the capture not been to the service yet?  Has it?
Early(c) == c.pc \in {"read", "check", "route"}
Sent(c) == c.pc # "idle" /\ ~Early(c)

\* Below, T is the turns of a session, a its agent, p its prompt file, m its
\* mark, H the captures and S how often turns were sent.

\* A turn that has ended.
Over(T, a, n) == n \in 1 .. Len(T) /\ (n = Len(T) => a = "ready")

\* The prompt file holds the prompt of the session's last turn.
FileHolds(T, a, p) ==
  host = "claude-code" /\ a \in {"ready", "working"} /\ T # <<>> => p = T[Len(T)][1]

\* A capture is about its own turn, and no later one has been sent.
OwnTurn(c, T, a, S) ==
  /\ Over(T, a, c.turn)
  /\ c.pc = "read" => /\ host = "claude-code" /\ c.turn = Len(T)
                      /\ c.answer = T[c.turn][2]
  /\ c.pc # "read" => Fingerprint(c) = T[c.turn]
  /\ \A t \in DOMAIN S :
       t[1] = c.session /\ (t[2] > c.turn \/ (t[2] = c.turn /\ c.pc = "route"))
         => S[t] = 0

\* A turn that was sent is on its way, or marked, or nobody asks for it any more.
Remembered(s, n, T, m, H) ==
  \/ \E h \in Hooks : H[h].session = s /\ H[h].turn = n /\ Sent(H[h])
  \/ m = T[n]
  \/ /\ n < Len(T)
     /\ \A h \in Hooks : H[h].session = s /\ H[h].turn = n => ~Early(H[h])

SentAtMostOnce(s, T, a, m, H, S) ==
  \A t \in DOMAIN S : t[1] = s =>
    S[t] = 0 \/ (S[t] = 1 /\ Over(T, a, t[2]) /\ Remembered(s, t[2], T, m, H))

\* What a capture is about to write back: the marks there are, and its own.
Marking(c, M) ==
  c.pc \in {"markOpen", "markWrite"} =>
    \A s \in Sessions : c.seen[s] = IF s = c.session THEN Fingerprint(c) ELSE M[s]

Calm == ~overlapped /\ faults = 0

MarkInv ==
  /\ torn => \E h \in Hooks : hooks[h].pc = "markWrite"
  /\ \A h \in Hooks : Marking(hooks[h], marks)

\* Of a session of which no turn was missed.
SessionInv(s) ==
  /\ FileHolds(turns[s], agent[s], lastPrompt[s])
  /\ \A h \in Hooks : InFlight(h) /\ hooks[h].session = s =>
       OwnTurn(hooks[h], turns[s], agent[s], sends)
  /\ SentAtMostOnce(s, turns[s], agent[s], marks[s], hooks, sends)

TurnInv ==
  /\ OnceInv
  /\ sends \in [Sessions \X (1 .. MaxTurns) -> Nat]
  /\ Calm => MarkInv /\ \A s \in Sessions \ missed : SessionInv(s)

LEMMA TurnParts ==
  ASSUME TurnInv, Calm
  PROVE  /\ MarkInv /\ \A s \in Sessions \ missed : SessionInv(s)
         /\ \A g, h \in Hooks : InFlight(g) /\ InFlight(h) => g = h
         /\ hooks \in [Hooks -> Flight] /\ marks \in [Sessions -> Texts \cup {Null}]
         /\ turns \in [Sessions -> Seq(Texts)]
         /\ agent \in [Sessions -> Agents]
         /\ lastPrompt \in [Sessions -> Messages \cup {Null}]
         /\ sends \in [Sessions \X (1 .. MaxTurns) -> Nat]
         /\ \A h \in Hooks : InFlight(h) => hooks[h].session \in Sessions
  BY DEF TurnInv, OnceInv, Calm, CaptureInv, Shape, Sound, InFlight

\* A turn of a session with an only capture c, which may be idle, is remembered.
RememberedBy(c, s, n, T, m) ==
  \/ c.session = s /\ c.turn = n /\ Sent(c)
  \/ m = T[n]
  \/ n < Len(T) /\ (c.session = s /\ c.turn = n => ~Early(c))

LEMMA OnlyOneRemembers ==
  ASSUME NEW H, NEW h \in Hooks, \A g \in Hooks \ {h} : H[g].pc = "idle",
         NEW s, NEW n, NEW T, NEW m
  PROVE  Remembered(s, n, T, m, H) <=> RememberedBy(H[h], s, n, T, m)
  BY DEF Remembered, RememberedBy, Sent, Early

\* The only capture in flight makes a step, or comes to its end.
LEMMA CaptureMovesOn ==
  ASSUME TurnInv, Calm, OnceInv', NEW h \in Hooks, InFlight(h), NEW new, Goto(h, new),
         UNCHANGED <<host, turns, agent, lastPrompt, missed>>,
         new.pc = "idle" \/ (new.session = hooks[h].session /\ new.turn = hooks[h].turn),
         \A s \in Sessions \ {hooks[h].session} : marks'[s] = marks[s],
         sends' \in [Sessions \X (1 .. MaxTurns) -> Nat],
         \A t \in DOMAIN sends : t[1] # hooks[h].session => sends'[t] = sends[t],
         torn' => new.pc = "markWrite",
         Marking(new, marks'),
         hooks[h].session \notin missed =>
           /\ new.pc # "idle" =>
                OwnTurn(new, turns[hooks[h].session], agent[hooks[h].session], sends')
           /\ \A t \in DOMAIN sends : t[1] = hooks[h].session =>
                sends'[t] = 0 \/
                  /\ sends'[t] = 1 /\ Over(turns[t[1]], agent[t[1]], t[2])
                  /\ RememberedBy(new, t[1], t[2], turns[t[1]], marks'[t[1]])
  PROVE  TurnInv'
  <1> DEFINE c == hooks[h]
  <1>1. /\ hooks'[h] = new /\ \A g \in Hooks \ {h} : hooks'[g] = hooks[g]
        /\ \A g \in Hooks \ {h} : hooks[g].pc = "idle" /\ hooks'[g].pc = "idle"
        /\ DOMAIN sends' = DOMAIN sends
    BY TurnParts DEF Goto, InFlight
  <1>2. MarkInv'
    BY <1>1 DEF MarkInv, Marking
  <1>3. ASSUME NEW s \in Sessions \ missed PROVE SessionInv(s)'
    <2>1. SessionInv(s)
      BY TurnParts
    <2>2. FileHolds(turns[s], agent[s], lastPrompt[s])'
      BY <2>1 DEF SessionInv, FileHolds
    <2>3. CASE s = c.session
      <3>1. ASSUME NEW g \in Hooks, InFlight(g)', hooks'[g].session = s
            PROVE  OwnTurn(hooks[g], turns[s], agent[s], sends)'
        BY <1>1, <2>3, <3>1 DEF InFlight, OwnTurn, Over, Fingerprint
      <3>2. SentAtMostOnce(s, turns[s], agent[s], marks[s], hooks, sends)'
        <4> SUFFICES ASSUME NEW t \in DOMAIN sends, t[1] = s
                     PROVE  sends'[t] = 0 \/
                              /\ sends'[t] = 1 /\ Over(turns[s], agent[s], t[2])
                              /\ Remembered(s, t[2], turns[s], marks'[s], hooks')
          BY <1>1 DEF SentAtMostOnce, Over, Remembered, Sent, Early
        <4>1. Remembered(s, t[2], turns[s], marks'[s], hooks')
                 <=> RememberedBy(new, s, t[2], turns[s], marks'[s])
          BY <1>1, OnlyOneRemembers
        <4>2. QED
          BY <2>3, <4>1
      <3>3. QED
        BY <2>2, <3>1, <3>2 DEF SessionInv
    <2>4. CASE s # c.session
      <3>1. ASSUME NEW g \in Hooks, InFlight(g)', hooks'[g].session = s PROVE FALSE
        BY <1>1, <2>4, <3>1 DEF InFlight
      <3>2. SentAtMostOnce(s, turns[s], agent[s], marks[s], hooks, sends)'
        <4> SUFFICES ASSUME NEW t \in DOMAIN sends, t[1] = s
                     PROVE  sends'[t] = 0 \/
                              /\ sends'[t] = 1 /\ Over(turns[s], agent[s], t[2])
                              /\ Remembered(s, t[2], turns[s], marks'[s], hooks')
          BY <1>1 DEF SentAtMostOnce, Over, Remembered, Sent, Early
        <4>1. /\ Remembered(s, t[2], turns[s], marks'[s], hooks')
                   <=> RememberedBy(new, s, t[2], turns[s], marks[s])
              /\ Remembered(s, t[2], turns[s], marks[s], hooks)
                   <=> RememberedBy(c, s, t[2], turns[s], marks[s])
          BY <1>1, <2>4, OnlyOneRemembers
        <4>2. RememberedBy(c, s, t[2], turns[s], marks[s])
                => RememberedBy(new, s, t[2], turns[s], marks[s])
          BY <2>4 DEF RememberedBy, Sent, Early
        <4>3. sends'[t] = sends[t]
          BY <2>4
        <4>4. QED
          BY <2>1, <4>1, <4>2, <4>3 DEF SessionInv, SentAtMostOnce
      <3>3. QED
        BY <2>2, <3>1, <3>2 DEF SessionInv
    <2>5. QED
      BY <2>3, <2>4
  <1>4. QED
    BY <1>2, <1>3 DEF TurnInv

\* What is known of the only capture in flight.
LEMMA OnlyCapture ==
  ASSUME TurnInv, Calm, NEW h \in Hooks, InFlight(h)
  PROVE  LET c == hooks[h]
             s == c.session
         IN /\ c \in Flight /\ s \in Sessions
            /\ torn => c.pc = "markWrite"
            /\ Marking(c, marks)
            /\ turns[s] \in Seq(Texts)
            /\ s \notin missed =>
                 /\ FileHolds(turns[s], agent[s], lastPrompt[s])
                 /\ OwnTurn(c, turns[s], agent[s], sends)
                 /\ \A t \in DOMAIN sends : t[1] = s =>
                      sends[t] = 0 \/
                        /\ sends[t] = 1 /\ Over(turns[s], agent[s], t[2])
                        /\ RememberedBy(c, s, t[2], turns[s], marks[s])
  <1> DEFINE c == hooks[h]
             s == c.session
  <1>1. /\ c \in Flight /\ s \in Sessions /\ turns[s] \in Seq(Texts)
        /\ \A g \in Hooks \ {h} : hooks[g].pc = "idle"
    BY TurnParts DEF InFlight
  <1>2. (torn => c.pc = "markWrite") /\ Marking(c, marks)
    BY <1>1, TurnParts DEF MarkInv
  <1>3. ASSUME s \notin missed
        PROVE  /\ FileHolds(turns[s], agent[s], lastPrompt[s])
               /\ OwnTurn(c, turns[s], agent[s], sends)
               /\ SentAtMostOnce(s, turns[s], agent[s], marks[s], hooks, sends)
    BY <1>1, <1>3, TurnParts DEF SessionInv
  <1>4. ASSUME NEW n
        PROVE  Remembered(s, n, turns[s], marks[s], hooks)
                 <=> RememberedBy(c, s, n, turns[s], marks[s])
    BY <1>1, OnlyOneRemembers
  <1>5. QED
    BY <1>1, <1>2, <1>3, <1>4 DEF SentAtMostOnce

\* A capture that has been to the service goes on with the same turn.
LEMMA SentGoesOn ==
  ASSUME TurnInv, Calm, OnceInv', NEW h \in Hooks, Sent(hooks[h]), NEW new, Goto(h, new),
         Sent(new), new.session = hooks[h].session, new.turn = hooks[h].turn,
         Fingerprint(new) = Fingerprint(hooks[h]),
         UNCHANGED <<host, turns, agent, lastPrompt, missed, marks, sends>>,
         torn' => new.pc = "markWrite", Marking(new, marks)
  PROVE  TurnInv'
  <1> DEFINE c == hooks[h]
             s == c.session
  <1>1. InFlight(h)
    BY DEF InFlight, Sent
  <1>2. ASSUME s \notin missed
        PROVE  /\ OwnTurn(new, turns[s], agent[s], sends')
               /\ \A t \in DOMAIN sends : t[1] = s =>
                    sends'[t] = 0 \/
                      /\ sends'[t] = 1 /\ Over(turns[s], agent[s], t[2])
                      /\ RememberedBy(new, s, t[2], turns[s], marks'[s])
    <2>1. /\ OwnTurn(c, turns[s], agent[s], sends)
          /\ \A t \in DOMAIN sends : t[1] = s =>
               sends[t] = 0 \/
                 /\ sends[t] = 1 /\ Over(turns[s], agent[s], t[2])
                 /\ RememberedBy(c, s, t[2], turns[s], marks[s])
      BY <1>1, <1>2, OnlyCapture
    <2>2. c.pc \notin {"read", "route"} /\ new.pc \notin {"read", "route"}
      BY DEF Sent, Early
    <2>3. OwnTurn(new, turns[s], agent[s], sends')
      BY <2>1, <2>2 DEF OwnTurn
    <2>4. QED
      BY <2>1, <2>3 DEF RememberedBy, Sent
  <1>3. /\ sends' \in [Sessions \X (1 .. MaxTurns) -> Nat]
        /\ \A t \in DOMAIN sends : t[1] # s => sends'[t] = sends[t]
        /\ \A r \in Sessions \ {s} : marks'[r] = marks[r]
        /\ Marking(new, marks')
    BY DEF TurnInv
  <1> HIDE DEF c
  <1>4. QED
    BY <1>1, <1>2, <1>3, CaptureMovesOn DEF c

\* A capture marks its turn, in memory or in the file, and ends.
LEMMA MarkingEnds ==
  ASSUME TurnInv, Calm, OnceInv', NEW h \in Hooks, Sent(hooks[h]), Goto(h, NoCapture),
         UNCHANGED <<host, turns, agent, lastPrompt, missed, sends>>, ~torn',
         marks'[hooks[h].session] = Fingerprint(hooks[h]),
         \A s \in Sessions \ {hooks[h].session} : marks'[s] = marks[s]
  PROVE  TurnInv'
  <1> DEFINE c == hooks[h]
             s == c.session
  <1>1. InFlight(h) /\ NoCapture.pc = "idle"
    BY DEF InFlight, Sent, NoCapture
  <1>2. ASSUME s \notin missed, NEW t \in DOMAIN sends, t[1] = s
        PROVE  sends'[t] = 0 \/
                 /\ sends'[t] = 1 /\ Over(turns[s], agent[s], t[2])
                 /\ RememberedBy(NoCapture, s, t[2], turns[s], marks'[s])
    <2>1. /\ OwnTurn(c, turns[s], agent[s], sends)
          /\ sends[t] = 0 \/ (sends[t] = 1 /\ Over(turns[s], agent[s], t[2]))
          /\ turns[s] \in Seq(Texts) /\ c \in Flight
      BY <1>1, <1>2, OnlyCapture
    <2>2. t[2] \in Nat /\ c.turn \in Nat /\ Len(turns[s]) \in Nat
      BY <2>1 DEF TurnInv, Flight
    <2>3. c.pc # "read" /\ c.turn <= Len(turns[s])
      BY <2>1, <2>2 DEF Sent, Early, OwnTurn, Over
    <2>4. CASE t[2] > c.turn
      BY <1>2, <2>1, <2>4 DEF OwnTurn
    <2>5. CASE t[2] = c.turn
      BY <1>2, <2>1, <2>3, <2>5 DEF OwnTurn, RememberedBy
    <2>6. CASE t[2] < c.turn
      BY <1>1, <2>1, <2>2, <2>3, <2>6 DEF RememberedBy, Early
    <2>7. QED
      BY <2>2, <2>4, <2>5, <2>6
  <1>3. /\ sends' \in [Sessions \X (1 .. MaxTurns) -> Nat]
        /\ \A t \in DOMAIN sends : t[1] # s => sends'[t] = sends[t]
        /\ Marking(NoCapture, marks')
    BY <1>1 DEF TurnInv, Marking
  <1> HIDE DEF c
  <1>4. QED
    BY <1>1, <1>2, <1>3, CaptureMovesOn DEF c

\* A capture that has not been to the service goes on with the same turn, or ends
\* because its turn need not be sent.
LEMMA EarlyGoesOn ==
  ASSUME TurnInv, Calm, OnceInv', NEW h \in Hooks, Early(hooks[h]), NEW new, Goto(h, new),
         UNCHANGED <<host, turns, agent, lastPrompt, missed, marks, torn, sends>>,
         \/ new.pc = "idle"
         \/ /\ Early(new)
            /\ new.session = hooks[h].session /\ new.turn = hooks[h].turn,
         hooks[h].session \notin missed =>
           /\ new.pc = "idle" =>
                hooks[h].turn < Len(turns[hooks[h].session])
                \/ marks[hooks[h].session] = turns[hooks[h].session][hooks[h].turn]
                \/ \A t \in DOMAIN sends :
                     t[1] = hooks[h].session /\ t[2] = hooks[h].turn => sends[t] = 0
           /\ new.pc # "idle" =>
                OwnTurn(new, turns[hooks[h].session], agent[hooks[h].session], sends)
  PROVE  TurnInv'
  <1> DEFINE c == hooks[h]
             s == c.session
  <1>1. InFlight(h) /\ new.pc \notin {"markOpen", "markWrite"} /\ c.pc # "markWrite"
    BY DEF InFlight, Early
  <1>2. ~torn' /\ Marking(new, marks')
    BY <1>1, OnlyCapture DEF Marking
  <1>3. ASSUME s \notin missed, NEW t \in DOMAIN sends, t[1] = s
        PROVE  sends'[t] = 0 \/
                 /\ sends'[t] = 1 /\ Over(turns[s], agent[s], t[2])
                 /\ RememberedBy(new, s, t[2], turns[s], marks'[s])
    <2>1. \/ sends[t] = 0
          \/ /\ sends[t] = 1 /\ Over(turns[s], agent[s], t[2])
             /\ RememberedBy(c, s, t[2], turns[s], marks[s])
      BY <1>1, <1>3, OnlyCapture
    <2>2. ASSUME sends[t] # 0, RememberedBy(c, s, t[2], turns[s], marks[s])
          PROVE  RememberedBy(new, s, t[2], turns[s], marks'[s])
      <3>1. \/ marks[s] = turns[s][t[2]]
            \/ t[2] < Len(turns[s]) /\ t[2] # c.turn
        BY <2>2 DEF RememberedBy, Sent
      <3>2. CASE new.pc = "idle"
        BY <3>1, <3>2 DEF RememberedBy, Early
      <3>3. CASE new.pc # "idle"
        BY <3>1, <3>3 DEF RememberedBy
      <3>4. QED
        BY <3>2, <3>3
    <2>3. QED
      BY <2>1, <2>2
  <1>4. /\ sends' \in [Sessions \X (1 .. MaxTurns) -> Nat]
        /\ \A t \in DOMAIN sends : t[1] # s => sends'[t] = sends[t]
        /\ \A r \in Sessions \ {s} : marks'[r] = marks[r]
    BY DEF TurnInv
  <1>5. s \notin missed /\ new.pc # "idle" => OwnTurn(new, turns[s], agent[s], sends')
    OBVIOUS
  <1>6. new.pc = "idle" \/ (new.session = s /\ new.turn = c.turn)
    OBVIOUS
  <1> HIDE DEF c
  <1>7. QED
    BY <1>1, <1>2, <1>3, <1>4, <1>5, <1>6, CaptureMovesOn DEF c

\* A hook of a session of which no turn was missed finds the prompt of its own turn.
LEMMA ReadPromptOnce ==
  ASSUME TurnInv, Calm, OnceInv', NEW h \in Hooks, ReadPrompt(h) PROVE TurnInv'
  <1> DEFINE c == hooks[h]
             s == c.session
             next == [c EXCEPT !.pc = "check", !.message = lastPrompt[s]]
             new == IF lastPrompt[s] = Null THEN NoCapture ELSE next
  <1>1. /\ c.pc = "read" /\ InFlight(h) /\ Early(c) /\ Goto(h, new)
        /\ UNCHANGED <<host, turns, agent, lastPrompt, missed, marks, torn, sends>>
    BY DEF ReadPrompt, InFlight, Early, history
  <1>2. /\ c \in Flight /\ s \in Sessions /\ turns[s] \in Seq(Texts)
        /\ s \notin missed => /\ FileHolds(turns[s], agent[s], lastPrompt[s])
                              /\ OwnTurn(c, turns[s], agent[s], sends)
    BY <1>1, OnlyCapture
  <1>3. /\ next.pc = "check" /\ next.session = s /\ next.turn = c.turn
        /\ next.message = lastPrompt[s] /\ next.answer = c.answer
    BY <1>2 DEF Flight
  <1>4. NoCapture.pc = "idle"
    BY DEF NoCapture
  <1>5. ASSUME s \notin missed
        PROVE  lastPrompt[s] # Null /\ OwnTurn(next, turns[s], agent[s], sends)
    <2> DEFINE T == turns[s]
    <2>1. /\ host = "claude-code" /\ c.turn = Len(T) /\ c.answer = T[c.turn][2]
          /\ Over(T, agent[s], c.turn) /\ FileHolds(T, agent[s], lastPrompt[s])
      BY <1>1, <1>2, <1>5 DEF OwnTurn
    <2>2. c.turn \in 1 .. Len(T) /\ T # <<>> /\ agent[s] = "ready"
      BY <1>2, <2>1 DEF Over
    <2>3. lastPrompt[s] = T[c.turn][1] /\ T[c.turn] \in Texts
      BY <1>2, <2>1, <2>2 DEF FileHolds
    <2>4. lastPrompt[s] # Null
      BY <2>3, CaptureConstantsOK DEF Texts
    <2>5. Fingerprint(next) = T[c.turn]
      BY <1>3, <2>1, <2>3 DEF Fingerprint, Texts
    <2> HIDE DEF next
    <2>6. OwnTurn(next, T, agent[s], sends)
      BY <1>1, <1>2, <1>3, <1>5, <2>1, <2>5 DEF OwnTurn
    <2>7. QED
      BY <2>4, <2>6
  <1>6. \/ new.pc = "idle"
        \/ Early(new) /\ new.session = s /\ new.turn = c.turn
    BY <1>3, <1>4 DEF Early
  <1>7. s \notin missed => new.pc # "idle" /\ OwnTurn(new, turns[s], agent[s], sends)
    BY <1>3, <1>5
  <1> HIDE DEF new, c
  <1>8. QED
    BY <1>1, <1>6, <1>7, EarlyGoesOn DEF c

\* A turn that was sent is still remembered when its end is reported again.
LEMMA CheckOnce ==
  ASSUME TurnInv, Calm, OnceInv', NEW h \in Hooks, Check(h) PROVE TurnInv'
  <1> DEFINE c == hooks[h]
             s == c.session
             next == [c EXCEPT !.pc = "route"]
             new == IF c.message \in Noise \/ IsDuplicate(c) THEN NoCapture ELSE next
  <1>1. /\ c.pc = "check" /\ InFlight(h) /\ Early(c) /\ Goto(h, new)
        /\ UNCHANGED <<host, turns, agent, lastPrompt, missed, marks, torn, sends>>
    BY DEF Check, InFlight, Early, history
  <1>2. /\ c \in Flight /\ s \in Sessions /\ turns[s] \in Seq(Texts) /\ ~torn
        /\ s \notin missed =>
             /\ OwnTurn(c, turns[s], agent[s], sends)
             /\ \A t \in DOMAIN sends : t[1] = s =>
                  \/ sends[t] = 0
                  \/ RememberedBy(c, s, t[2], turns[s], marks[s])
    BY <1>1, OnlyCapture
  <1>3. /\ next.pc = "route" /\ next.session = s /\ next.turn = c.turn
        /\ Fingerprint(next) = Fingerprint(c)
    BY <1>2 DEF Flight, Fingerprint
  <1>4. NoCapture.pc = "idle"
    BY DEF NoCapture
  <1>5. ASSUME s \notin missed, NEW t \in DOMAIN sends, t[1] = s, t[2] = c.turn,
               marks[s] # turns[s][c.turn]
        PROVE  sends[t] = 0
    BY <1>1, <1>2, <1>5 DEF RememberedBy, Sent
  <1>6. s \notin missed /\ ~IsDuplicate(c) => OwnTurn(next, turns[s], agent[s], sends)
    <2>1. SUFFICES ASSUME s \notin missed, ~IsDuplicate(c)
                   PROVE  OwnTurn(next, turns[s], agent[s], sends)
      OBVIOUS
    <2>2. OwnTurn(c, turns[s], agent[s], sends) /\ Fingerprint(c) = turns[s][c.turn]
      BY <1>1, <1>2, <2>1 DEF OwnTurn
    <2>3. marks[s] # turns[s][c.turn]
      BY <1>2, <2>1, <2>2 DEF IsDuplicate, LoadedMarks
    <2> HIDE DEF next
    <2>4. QED
      BY <1>3, <1>5, <2>1, <2>2, <2>3 DEF OwnTurn
  <1>7. s \notin missed /\ new.pc = "idle" =>
          \/ marks[s] = turns[s][c.turn]
          \/ \A t \in DOMAIN sends : t[1] = s /\ t[2] = c.turn => sends[t] = 0
    BY <1>5
  <1>8. \/ new.pc = "idle"
        \/ Early(new) /\ new.session = s /\ new.turn = c.turn
    BY <1>3, <1>4 DEF Early
  <1>9. s \notin missed /\ new.pc # "idle" => OwnTurn(new, turns[s], agent[s], sends)
    BY <1>4, <1>6
  <1> HIDE DEF new, c
  <1>10. QED
    BY <1>1, <1>7, <1>8, <1>9, EarlyGoesOn DEF c

LEMMA RouteOnce ==
  ASSUME TurnInv, Calm, OnceInv', NEW h \in Hooks, Route(h) PROVE TurnInv'
  <1> DEFINE c == hooks[h]
             s == c.session
             next(entries, task) ==
               AfterStores([c EXCEPT !.owed = entries, !.todo = entries, !.task = task])
  <1>1. /\ c.pc = "route" /\ InFlight(h) /\ Early(c)
        /\ UNCHANGED <<host, turns, agent, lastPrompt, missed, marks, torn>>
        /\ sends' = [sends EXCEPT ![<<s, c.turn>>] = @ + 1]
    BY DEF Route, InFlight, Early
  <1>2. PICK entries \in {{}, FactsOf[c.message]}, task \in BOOLEAN :
          Goto(h, next(entries, task))
    BY DEF Route
  <1>3. /\ c \in Flight /\ s \in Sessions /\ turns[s] \in Seq(Texts) /\ ~torn
        /\ s \notin missed =>
             /\ OwnTurn(c, turns[s], agent[s], sends)
             /\ \A t \in DOMAIN sends : t[1] = s =>
                  sends[t] = 0 \/
                    /\ sends[t] = 1 /\ Over(turns[s], agent[s], t[2])
                    /\ RememberedBy(c, s, t[2], turns[s], marks[s])
    BY <1>1, OnlyCapture
  <1> DEFINE new == next(entries, task)
  <1>4. /\ new.pc \in {"store", "summary", "markRead"}
        /\ new.session = s /\ new.turn = c.turn /\ Fingerprint(new) = Fingerprint(c)
    BY <1>3 DEF Flight, Fingerprint, AfterStores
  <1>5. Goto(h, new)
    BY <1>2
  <1> HIDE DEF new, next
  <1>6. Sent(new) /\ Marking(new, marks')
    BY <1>4 DEF Sent, Early, Marking
  <1>7. sends \in [Sessions \X (1 .. MaxTurns) -> Nat]
    BY DEF TurnInv
  <1>8. /\ sends' \in [Sessions \X (1 .. MaxTurns) -> Nat]
        /\ \A t \in DOMAIN sends :
             sends'[t] = IF t = <<s, c.turn>> THEN sends[t] + 1 ELSE sends[t]
    <2> DEFINE D == Sessions \X (1 .. MaxTurns)
               k == <<s, c.turn>>
    <2>1. sends' = [sends EXCEPT ![k] = @ + 1] /\ sends \in [D -> Nat]
      BY <1>1, <1>7
    <2> HIDE DEF D, k
    <2>2. sends' = [t \in D |-> IF t = k THEN sends[k] + 1 ELSE sends[t]]
      BY <2>1
    <2>3. \A t \in D : sends[t] \in Nat
      BY <2>1
    <2>4. \A t \in D : (IF t = k THEN sends[k] + 1 ELSE sends[t]) \in Nat
      BY <2>3
    <2>5. sends' \in [D -> Nat]
      BY <2>2, <2>4
    <2>6. \A t \in D : sends'[t] = IF t = k THEN sends[t] + 1 ELSE sends[t]
      BY <2>2
    <2>7. DOMAIN sends = D
      BY <2>1
    <2>8. QED
      BY <2>5, <2>6, <2>7 DEF D, k
  <1>9. \A t \in DOMAIN sends : t = <<t[1], t[2]>> /\ t[2] \in Nat
    BY <1>7
  <1>10. ASSUME s \notin missed
         PROVE  /\ OwnTurn(new, turns[s], agent[s], sends')
                /\ \A t \in DOMAIN sends : t[1] = s =>
                     sends'[t] = 0 \/
                       /\ sends'[t] = 1 /\ Over(turns[s], agent[s], t[2])
                       /\ RememberedBy(new, s, t[2], turns[s], marks'[s])
    <2>1. OwnTurn(c, turns[s], agent[s], sends)
      BY <1>3, <1>10
    <2>2. ASSUME NEW t \in DOMAIN sends, t[1] = s, t[2] > c.turn PROVE sends'[t] = 0
      BY <1>3, <1>8, <1>9, <2>1, <2>2 DEF OwnTurn, Flight
    <2>3. OwnTurn(new, turns[s], agent[s], sends')
      BY <1>1, <1>4, <1>8, <2>1, <2>2 DEF OwnTurn
    <2>4. ASSUME NEW t \in DOMAIN sends, t[1] = s
          PROVE  sends'[t] = 0 \/
                   /\ sends'[t] = 1 /\ Over(turns[s], agent[s], t[2])
                   /\ RememberedBy(new, s, t[2], turns[s], marks'[s])
      <3>1. CASE t[2] = c.turn
        <4>1. sends[t] = 0 /\ Over(turns[s], agent[s], t[2])
          BY <1>1, <2>1, <2>4, <3>1 DEF OwnTurn
        <4>2. t = <<s, c.turn>>
          BY <1>9, <2>4, <3>1
        <4>3. QED
          BY <1>4, <1>6, <1>8, <3>1, <4>1, <4>2 DEF RememberedBy
      <3>2. CASE t[2] # c.turn
        <4>1. sends'[t] = sends[t]
          BY <1>8, <3>2
        <4>2. \/ sends[t] = 0
              \/ /\ sends[t] = 1 /\ Over(turns[s], agent[s], t[2])
                 /\ RememberedBy(c, s, t[2], turns[s], marks[s])
          BY <1>3, <1>10, <2>4
        <4>3. QED
          BY <1>1, <1>4, <3>2, <4>1, <4>2 DEF RememberedBy
      <3>3. QED
        BY <3>1, <3>2
    <2>5. QED
      BY <2>3, <2>4
  <1>11. /\ \A t \in DOMAIN sends : t[1] # s => sends'[t] = sends[t]
         /\ \A r \in Sessions \ {s} : marks'[r] = marks[r]
         /\ ~torn'
    BY <1>1, <1>3, <1>8
  <1> HIDE DEF c
  <1>12. QED
    BY <1>1, <1>4, <1>5, <1>6, <1>8, <1>10, <1>11, CaptureMovesOn DEF c

LEMMA StoresOnce ==
  ASSUME TurnInv, Calm, OnceInv', NEW h \in Hooks,
         PostEntry(h) \/ AddEntry(h) \/ PostSummary(h)
  PROVE  TurnInv'
  <1> DEFINE c == hooks[h]
  <1>1. /\ c.pc \in {"store", "adding", "summary"} /\ Sent(c) /\ InFlight(h)
        /\ UNCHANGED <<host, turns, agent, lastPrompt, missed, marks, torn, sends>>
    BY DEF PostEntry, AddEntry, PostSummary, Sent, Early, InFlight, history
  <1>2. c \in Flight /\ ~torn
    BY <1>1, OnlyCapture
  <1>3. ASSUME NEW new, Goto(h, new), new.pc \in {"store", "adding", "summary", "markRead"},
               new.session = c.session, new.turn = c.turn, Fingerprint(new) = Fingerprint(c)
        PROVE  TurnInv'
    <2>1. Sent(new) /\ Marking(new, marks)
      BY <1>3 DEF Sent, Early, Marking
    <2> HIDE DEF c
    <2>2. QED
      BY <1>1, <1>2, <1>3, <2>1, SentGoesOn DEF c
  <1>4. CASE PostEntry(h)
    <2>1. PICK f \in c.todo :
            Goto(h, IF Known(f) THEN AfterStores([c EXCEPT !.todo = @ \ {f}])
                                ELSE [c EXCEPT !.pc = "adding", !.cur = f])
      BY <1>4 DEF PostEntry
    <2> DEFINE known == AfterStores([c EXCEPT !.todo = @ \ {f}])
               adding == [c EXCEPT !.pc = "adding", !.cur = f]
    <2>2. /\ known.pc \in {"store", "summary", "markRead"}
          /\ known.session = c.session /\ known.turn = c.turn
          /\ Fingerprint(known) = Fingerprint(c)
      BY <1>2 DEF Flight, Fingerprint, AfterStores
    <2>3. /\ adding.pc = "adding" /\ adding.session = c.session /\ adding.turn = c.turn
          /\ Fingerprint(adding) = Fingerprint(c)
      BY <1>2 DEF Flight, Fingerprint
    <2>4. Goto(h, known) \/ Goto(h, adding)
      BY <2>1
    <2> HIDE DEF known, adding, c
    <2>5. CASE Goto(h, known)
      BY <1>3, <2>2, <2>5
    <2>6. CASE Goto(h, adding)
      BY <1>3, <2>3, <2>6
    <2>7. QED
      BY <2>4, <2>5, <2>6
  <1>5. CASE AddEntry(h)
    <2> DEFINE new == AfterStores([c EXCEPT !.todo = @ \ {c.cur}, !.cur = Null])
    <2>1. /\ new.pc \in {"store", "summary", "markRead"}
          /\ new.session = c.session /\ new.turn = c.turn
          /\ Fingerprint(new) = Fingerprint(c)
      BY <1>2 DEF Flight, Fingerprint, AfterStores
    <2>2. Goto(h, new)
      BY <1>5 DEF AddEntry
    <2> HIDE DEF new, c
    <2>3. QED
      BY <1>3, <2>1, <2>2
  <1>6. CASE PostSummary(h)
    <2> DEFINE new == [c EXCEPT !.pc = "markRead"]
    <2>1. /\ new.pc = "markRead" /\ new.session = c.session /\ new.turn = c.turn
          /\ Fingerprint(new) = Fingerprint(c)
      BY <1>2 DEF Flight, Fingerprint
    <2>2. Goto(h, new)
      BY <1>6 DEF PostSummary
    <2> HIDE DEF new, c
    <2>3. QED
      BY <1>3, <2>1, <2>2
  <1>7. QED
    BY <1>4, <1>5, <1>6

LEMMA ReadMarksOnce ==
  ASSUME TurnInv, Calm, OnceInv', NEW h \in Hooks, ReadMarks(h) PROVE TurnInv'
  <1> DEFINE c == hooks[h]
             seen == [LoadedMarks EXCEPT ![c.session] = Fingerprint(c)]
             new == [c EXCEPT !.pc = "markOpen", !.seen = seen]
  <1>1. /\ c.pc = "markRead" /\ Sent(c) /\ InFlight(h) /\ Goto(h, new)
        /\ UNCHANGED <<host, turns, agent, lastPrompt, missed, marks, torn, sends>>
    BY DEF ReadMarks, Sent, Early, InFlight
  <1>2. c \in Flight /\ ~torn /\ c.session \in Sessions
    BY <1>1, OnlyCapture
  <1>3. /\ new.pc = "markOpen" /\ new.session = c.session /\ new.turn = c.turn
        /\ Fingerprint(new) = Fingerprint(c) /\ new.seen = seen
    BY <1>2 DEF Flight, Fingerprint
  <1>4. marks \in [Sessions -> Texts \cup {Null}] /\ LoadedMarks = marks
    BY <1>2, TurnParts DEF LoadedMarks
  <1>5. \A s \in Sessions : seen[s] = IF s = c.session THEN Fingerprint(c) ELSE marks[s]
    BY <1>4
  <1> HIDE DEF new, seen
  <1>6. Sent(new) /\ Marking(new, marks)
    BY <1>3, <1>5 DEF Sent, Early, Marking
  <1> HIDE DEF c
  <1>7. QED
    BY <1>1, <1>2, <1>3, <1>6, SentGoesOn DEF c

LEMMA OpenMarksOnce ==
  ASSUME TurnInv, Calm, OnceInv', NEW h \in Hooks, OpenMarks(h) PROVE TurnInv'
  <1> DEFINE c == hooks[h]
             new == [c EXCEPT !.pc = "markWrite"]
  <1>1. /\ c.pc = "markOpen" /\ Sent(c) /\ InFlight(h) /\ Goto(h, new)
        /\ UNCHANGED <<host, turns, agent, lastPrompt, missed, marks, sends>>
    BY DEF OpenMarks, Sent, Early, InFlight, history
  <1>2. c \in Flight /\ Marking(c, marks)
    BY <1>1, OnlyCapture
  <1>3. /\ new.pc = "markWrite" /\ new.session = c.session /\ new.turn = c.turn
        /\ Fingerprint(new) = Fingerprint(c) /\ new.seen = c.seen
    BY <1>2 DEF Flight, Fingerprint
  <1> HIDE DEF new
  <1>4. Sent(new) /\ Marking(new, marks)
    BY <1>1, <1>2, <1>3 DEF Sent, Early, Marking
  <1> HIDE DEF c
  <1>5. QED
    BY <1>1, <1>3, <1>4, SentGoesOn DEF c

LEMMA MarksOnce ==
  ASSUME TurnInv, Calm, OnceInv', NEW h \in Hooks, MarkInMemory(h) \/ WriteMarks(h)
  PROVE  TurnInv'
  <1> DEFINE c == hooks[h]
  <1>1. /\ c.pc \in {"markRead", "markWrite"} /\ Sent(c) /\ InFlight(h) /\ Goto(h, NoCapture)
        /\ UNCHANGED <<host, turns, agent, lastPrompt, missed, sends>>
    BY DEF MarkInMemory, WriteMarks, Sent, Early, InFlight, history
  <1>2. /\ c \in Flight /\ c.session \in Sessions /\ Marking(c, marks)
        /\ torn => c.pc = "markWrite"
    BY <1>1, OnlyCapture
  <1>3. marks \in [Sessions -> Texts \cup {Null}]
    BY TurnParts
  <1>4. CASE MarkInMemory(h)
    <2>1. ~torn' /\ marks' = [marks EXCEPT ![c.session] = Fingerprint(c)]
      BY <1>2, <1>4 DEF MarkInMemory
    <2> HIDE DEF c
    <2>2. /\ marks'[c.session] = Fingerprint(c)
          /\ \A s \in Sessions \ {c.session} : marks'[s] = marks[s]
      BY <1>2, <1>3, <2>1
    <2>3. QED
      BY <1>1, <2>1, <2>2, MarkingEnds DEF c
  <1>5. CASE WriteMarks(h)
    <2>1. ~torn' /\ marks' = c.seen /\ c.pc = "markWrite"
      BY <1>5 DEF WriteMarks
    <2> HIDE DEF c
    <2>2. /\ marks'[c.session] = Fingerprint(c)
          /\ \A s \in Sessions \ {c.session} : marks'[s] = marks[s]
      BY <1>2, <2>1 DEF Marking
    <2>3. QED
      BY <1>1, <2>1, <2>2, MarkingEnds DEF c
  <1>6. QED
    BY <1>4, <1>5

LEMMA CaptureStepsOnce ==
  ASSUME TurnInv, OnceInv', NEW h \in Hooks, Proceed(h) PROVE TurnInv'
  <1>1. UNCHANGED <<overlapped, faults>>
    BY DEF Proceed, ReadPrompt, Check, Route, PostEntry, AddEntry, PostSummary,
       MarkInMemory, ReadMarks, OpenMarks, WriteMarks, history
  <1>2. CASE Calm
    BY <1>2, ReadPromptOnce, CheckOnce, RouteOnce, StoresOnce, ReadMarksOnce,
       OpenMarksOnce, MarksOnce DEF Proceed
  <1>3. CASE ~Calm
    <2>1. ~Calm'
      BY <1>1, <1>3 DEF Calm
    <2>2. sends' = sends \/ \E k : sends' = [sends EXCEPT ![k] = @ + 1]
      BY DEF Proceed, ReadPrompt, Check, Route, PostEntry, AddEntry, PostSummary,
         MarkInMemory, ReadMarks, OpenMarks, WriteMarks, history
    <2> DEFINE D == Sessions \X (1 .. MaxTurns)
    <2>3. sends \in [D -> Nat]
      BY DEF TurnInv
    <2> HIDE DEF D
    <2>4. sends' \in [D -> Nat]
      <3>1. CASE sends' = sends
        BY <2>3, <3>1
      <3>2. ASSUME NEW k, sends' = [sends EXCEPT ![k] = @ + 1] PROVE sends' \in [D -> Nat]
        <4>1. sends' = [t \in D |-> IF t = k THEN sends[k] + 1 ELSE sends[t]]
          BY <2>3, <3>2
        <4>2. \A t \in D : (IF t = k THEN sends[k] + 1 ELSE sends[t]) \in Nat
          BY <2>3
        <4>3. QED
          BY <4>1, <4>2
      <3>3. QED
        BY <2>2, <3>1, <3>2
    <2>5. QED
      BY <2>1, <2>4 DEF TurnInv, D
  <1>4. QED
    BY <1>2, <1>3

-----------------------------------------------------------------------------
(* The session while no turn is sent twice *)

\* A step of a session that touches no capture.
LEMMA SessionMovesOn ==
  ASSUME TurnInv, Calm, OnceInv', NEW s \in Sessions,
         UNCHANGED <<host, marks, torn, hooks, sends>>,
         missed \subseteq missed',
         \A r \in Sessions \ {s} : /\ turns'[r] = turns[r] /\ agent'[r] = agent[r]
                                   /\ lastPrompt'[r] = lastPrompt[r],
         s \notin missed' => SessionInv(s)'
  PROVE  TurnInv'
  <1>1. MarkInv'
    BY TurnParts DEF MarkInv, Marking, Fingerprint
  <1>2. ASSUME NEW r \in Sessions \ missed', r # s PROVE SessionInv(r)'
    <2>1. SessionInv(r)
      BY <1>2, TurnParts
    <2>2. turns'[r] = turns[r] /\ agent'[r] = agent[r] /\ lastPrompt'[r] = lastPrompt[r]
      BY <1>2
    <2>3. QED
      BY <2>1, <2>2 DEF SessionInv, InFlight, FileHolds, OwnTurn, Over, SentAtMostOnce,
         Remembered, Sent, Early, Fingerprint
  <1>3. QED
    BY <1>1, <1>2 DEF TurnInv

\* A new turn changes nothing for the turns before it.
LEMMA SubmitOnce ==
  ASSUME TurnInv, Calm, OnceInv', NEW s \in Sessions, NEW m \in Messages, Submit(s, m)
  PROVE  TurnInv'
  <1> DEFINE T == turns[s]
             U == Append(T, <<m, Null>>)
  <1>1. /\ UNCHANGED <<host, lastPrompt, marks, torn, hooks, sends>>
        /\ turns' = [turns EXCEPT ![s] = U]
        /\ agent' = [agent EXCEPT ![s] = IF host = "claude-code" THEN "prompted"
                                                                 ELSE "working"]
        /\ missed \subseteq missed'
    BY DEF Submit
  <1>2. T \in Seq(Texts) /\ <<m, Null>> \in Texts
    BY TurnParts DEF Texts
  <1>3. /\ Len(T) \in Nat /\ Len(U) = Len(T) + 1
        /\ \A n \in 1 .. Len(T) : U[n] = T[n]
    BY <1>2
  <1> HIDE DEF U
  <1>4. /\ turns'[s] = U
        /\ agent'[s] = IF host = "claude-code" THEN "prompted" ELSE "working"
        /\ \A r \in Sessions \ {s} : /\ turns'[r] = turns[r] /\ agent'[r] = agent[r]
                                     /\ lastPrompt'[r] = lastPrompt[r]
    BY <1>1, TurnParts
  <1>5. ASSUME s \notin missed' PROVE SessionInv(s)'
    <2>1. SessionInv(s) /\ s \notin missed
      BY <1>1, <1>5, TurnParts
    <2>2. \A h \in Hooks : ~(host = "claude-code" /\ hooks[h].session = s
                             /\ hooks[h].pc = "read")
      BY <1>5 DEF Submit
    <2>3. \A n : Over(T, agent[s], n) =>
            n \in 1 .. Len(T) /\ n < Len(U) /\ U[n] = T[n] /\ Over(U, agent'[s], n)
      BY <1>3 DEF Over
    <2>4. FileHolds(turns[s], agent[s], lastPrompt[s])'
      BY <1>1, <1>4 DEF FileHolds
    <2>5. ASSUME NEW h \in Hooks, InFlight(h), hooks[h].session = s
          PROVE  OwnTurn(hooks[h], U, agent'[s], sends)
      <3>1. OwnTurn(hooks[h], T, agent[s], sends)
        BY <2>1, <2>5 DEF SessionInv
      <3>2. hooks[h].pc # "read"
        BY <2>2, <2>5, <3>1 DEF OwnTurn
      <3>3. QED
        BY <2>3, <3>1, <3>2 DEF OwnTurn
    <2>6. SentAtMostOnce(s, U, agent'[s], marks[s], hooks, sends)
      <3>1. SentAtMostOnce(s, T, agent[s], marks[s], hooks, sends)
        BY <2>1 DEF SessionInv
      <3>2. \A n : Over(T, agent[s], n) /\ Remembered(s, n, T, marks[s], hooks)
                     => Remembered(s, n, U, marks[s], hooks)
        BY <1>3, <2>3 DEF Remembered
      <3>3. QED
        BY <2>3, <3>1, <3>2 DEF SentAtMostOnce
    <2>7. (\A h \in Hooks : InFlight(h) /\ hooks[h].session = s =>
            OwnTurn(hooks[h], turns[s], agent[s], sends))'
      BY <1>1, <1>4, <2>5 DEF InFlight, OwnTurn, Over, Fingerprint
    <2>8. SentAtMostOnce(s, turns[s], agent[s], marks[s], hooks, sends)'
      BY <1>1, <1>4, <2>6 DEF SentAtMostOnce, Over, Remembered, Sent, Early
    <2>9. QED
      BY <2>4, <2>7, <2>8 DEF SessionInv
  <1> HIDE DEF T
  <1>6. QED
    BY <1>1, <1>4, <1>5, SessionMovesOn

\* When the agent starts on a turn, the file holds its prompt.
LEMMA PromptFileOnce ==
  ASSUME TurnInv, Calm, OnceInv', NEW s \in Sessions, OpenPromptFile(s) \/ WritePromptFile(s)
  PROVE  TurnInv'
  <1>1. /\ UNCHANGED <<host, turns, marks, torn, hooks, sends, missed>>
        /\ agent[s] # "ready" /\ agent'[s] # "ready"
        /\ agent'[s] # "saving" => lastPrompt'[s] = turns[s][Len(turns[s])][1]
        /\ \A r \in Sessions \ {s} : agent'[r] = agent[r] /\ lastPrompt'[r] = lastPrompt[r]
    BY TurnParts DEF OpenPromptFile, WritePromptFile, history
  <1>2. ASSUME s \notin missed PROVE SessionInv(s)'
    <2>1. SessionInv(s)
      BY <1>2, TurnParts
    <2>2. FileHolds(turns[s], agent[s], lastPrompt[s])'
      BY <1>1 DEF FileHolds
    <2>3. QED
      BY <1>1, <2>1, <2>2 DEF SessionInv, InFlight, OwnTurn, Over, SentAtMostOnce,
         Remembered, Sent, Early, Fingerprint
  <1>3. QED
    BY <1>1, <1>2, SessionMovesOn

\* A capture that begins is of the session's last turn, and whatever was sent of that
\* session is remembered without a capture in flight.
LEMMA StartsTurnOnce ==
  ASSUME TurnInv, Calm, OnceInv', ~overlapped', NEW s \in Sessions, NEW turn \in Texts,
         Start(s, turn),
         UNCHANGED <<host, lastPrompt, marks, torn, sends, missed>>,
         turns[s] # <<>>, agent[s] \in {"ready", "working"}, agent'[s] = "ready",
         Len(turns'[s]) = Len(turns[s]),
         turns'[s][Len(turns[s])] = turn,
         turn[1] = turns[s][Len(turns[s])][1],
         turns'[s] = turns[s] \/ agent[s] = "working",
         \A n \in 1 .. Len(turns[s]) : n # Len(turns[s]) => turns'[s][n] = turns[s][n],
         \A r \in Sessions \ {s} : turns'[r] = turns[r] /\ agent'[r] = agent[r]
  PROVE  TurnInv'
  <1> DEFINE T == turns[s]
             U == turns'[s]
             N == Len(T)
             new == [NoCapture EXCEPT
                  !.pc = IF host = "claude-code" THEN "read" ELSE "check",
                  !.session = s, !.turn = N,
                  !.message = IF host = "claude-code" THEN Null ELSE turn[1],
                  !.answer = turn[2]]
  <1>1. PICK h \in Hooks : Goto(h, new)
    BY DEF Start
  <1>2. \A g \in Hooks : hooks[g].pc = "idle"
    BY DEF Start, InFlight
  <1>3. T \in Seq(Texts) /\ N \in Nat /\ N >= 1 /\ N = Len(U)
    BY TurnParts
  <1>4. /\ new.pc = IF host = "claude-code" THEN "read" ELSE "check"
        /\ new.session = s /\ new.turn = N /\ new.answer = turn[2]
        /\ new.pc = "check" => Fingerprint(new) = turn
    BY DEF NoCapture, Fingerprint, Texts
  <1> HIDE DEF new
  <1>5. hooks'[h] = new /\ \A g \in Hooks \ {h} : hooks'[g].pc = "idle"
    BY <1>1, <1>2, TurnParts DEF Goto
  <1>6. MarkInv'
    BY <1>2, <1>4, <1>5, TurnParts DEF MarkInv, Marking
  <1>7. \A r, n, m, V : Remembered(r, n, V, m, hooks) <=> m = V[n] \/ n < Len(V)
    BY <1>2 DEF Remembered, Sent, Early
  <1>8. ASSUME NEW r \in Sessions \ missed, r # s PROVE SessionInv(r)'
    <2>1. /\ SessionInv(r)
          /\ turns'[r] = turns[r] /\ agent'[r] = agent[r] /\ lastPrompt'[r] = lastPrompt[r]
          /\ marks'[r] = marks[r]
      BY <1>8, TurnParts
    <2>2. FileHolds(turns[r], agent[r], lastPrompt[r])'
      BY <2>1 DEF SessionInv, FileHolds
    <2>3. \A g \in Hooks : hooks'[g].session = r => hooks'[g].pc = "idle"
      BY <1>4, <1>5, <1>8
    <2>4. \A n : Remembered(r, n, turns[r], marks[r], hooks)
                   => Remembered(r, n, turns[r], marks[r], hooks')
      <3> SUFFICES ASSUME NEW n, Remembered(r, n, turns[r], marks[r], hooks)
                   PROVE  Remembered(r, n, turns[r], marks[r], hooks')
        OBVIOUS
      <3>1. CASE marks[r] = turns[r][n]
        BY <3>1 DEF Remembered
      <3>2. CASE n < Len(turns[r])
        BY <2>3, <3>2 DEF Remembered, Early
      <3>3. QED
        BY <1>7, <3>1, <3>2
    <2>5. SentAtMostOnce(r, turns[r], agent[r], marks[r], hooks', sends)
      BY <2>1, <2>4 DEF SessionInv, SentAtMostOnce
    <2>6. SentAtMostOnce(r, turns[r], agent[r], marks[r], hooks, sends)'
      BY <2>1, <2>5 DEF SentAtMostOnce, Over, Remembered, Sent, Early
    <2>7. QED
      BY <2>2, <2>3, <2>6 DEF SessionInv, InFlight
  <1>9. ASSUME s \notin missed PROVE SessionInv(s)'
    <2>1. SessionInv(s)
      BY <1>9, TurnParts
    <2>2. FileHolds(U, "ready", lastPrompt[s])
      <3>1. FileHolds(T, agent[s], lastPrompt[s])
        BY <2>1 DEF SessionInv
      <3>2. QED
        BY <1>3, <3>1 DEF FileHolds
    <2>3. ASSUME NEW t \in DOMAIN sends, t[1] = s, sends[t] # 0
          PROVE  /\ sends[t] = 1 /\ t[2] \in 1 .. N
                 /\ marks[s] = U[t[2]] \/ t[2] < N
                 /\ t[2] = N => agent[s] = "ready"
      <3>1. /\ sends[t] = 1 /\ Over(T, agent[s], t[2])
            /\ Remembered(s, t[2], T, marks[s], hooks)
        BY <2>1, <2>3 DEF SessionInv, SentAtMostOnce
      <3>2. t[2] \in 1 .. N /\ (t[2] = N => agent[s] = "ready")
        BY <3>1 DEF Over
      <3>3. marks[s] = T[t[2]] \/ t[2] < N
        BY <1>7, <3>1
      <3>4. U[t[2]] = T[t[2]]
        BY <3>2
      <3>5. QED
        BY <3>1, <3>2, <3>3, <3>4
    <2>4. OwnTurn(new, U, "ready", sends)
      <3>1. Over(U, "ready", new.turn)
        BY <1>3, <1>4 DEF Over
      <3>2. ASSUME NEW t \in DOMAIN sends, t[1] = s, t[2] > N PROVE sends[t] = 0
        <4>1. t[2] \notin 1 .. N
          BY <1>3, <3>2
        <4>2. QED
          BY <2>3, <3>2, <4>1
      <3>3. new.pc # "route"
        BY <1>4
      <3>4. QED
        BY <1>3, <1>4, <3>1, <3>2, <3>3 DEF OwnTurn
    <2>5. SentAtMostOnce(s, U, "ready", marks[s], hooks', sends)
      <3> SUFFICES ASSUME NEW t \in DOMAIN sends, t[1] = s, sends[t] # 0
                   PROVE  /\ sends[t] = 1 /\ Over(U, "ready", t[2])
                          /\ Remembered(s, t[2], U, marks[s], hooks')
        BY DEF SentAtMostOnce
      <3>1. /\ sends[t] = 1 /\ t[2] \in 1 .. N
            /\ marks[s] = U[t[2]] \/ t[2] < N
        BY <2>3
      <3>2. t[2] < N => Remembered(s, t[2], U, marks[s], hooks')
        BY <1>3, <1>4, <1>5 DEF Remembered, Early
      <3>3. marks[s] = U[t[2]] => Remembered(s, t[2], U, marks[s], hooks')
        BY DEF Remembered
      <3>4. Over(U, "ready", t[2])
        BY <1>3, <3>1 DEF Over
      <3>5. QED
        BY <3>1, <3>2, <3>3, <3>4
    <2>6. FileHolds(turns[s], agent[s], lastPrompt[s])'
      BY <2>2 DEF FileHolds
    <2>7. ASSUME NEW g \in Hooks, InFlight(g)', hooks'[g].session = s
          PROVE  OwnTurn(hooks[g], turns[s], agent[s], sends)'
      <3>1. hooks'[g] = new
        BY <1>5, <2>7 DEF InFlight
      <3>2. QED
        BY <2>4, <3>1 DEF OwnTurn, Over, Fingerprint
    <2>8. SentAtMostOnce(s, turns[s], agent[s], marks[s], hooks, sends)'
      BY <2>5 DEF SentAtMostOnce, Over, Remembered, Sent, Early
    <2>9. QED
      BY <2>6, <2>7, <2>8 DEF SessionInv
  <1>10. QED
    BY <1>6, <1>8, <1>9 DEF TurnInv

LEMMA EndOnce ==
  ASSUME TurnInv, Calm, OnceInv', ~overlapped', NEW s \in Sessions, NEW a \in Answers,
         End(s, a)
  PROVE  TurnInv'
  <1> DEFINE T == turns[s]
             n == Len(T)
             turn == <<T[n][1], a>>
             U == [T EXCEPT ![n] = [T[n] EXCEPT ![2] = a]]
  <1>1. /\ agent[s] = "working" /\ Start(s, turn)
        /\ turns' = [turns EXCEPT ![s] = U] /\ agent' = [agent EXCEPT ![s] = "ready"]
        /\ UNCHANGED <<host, lastPrompt, marks, torn, sends, missed>>
    BY DEF End
  <1>2. T \in Seq(Texts) /\ T # <<>>
    BY <1>1, TurnParts DEF TurnInv, OnceInv, CaptureInv, Shape
  <1>3. n \in Nat /\ n \in 1 .. n /\ T[n] \in Texts
    BY <1>2
  <1>4. turn \in Texts /\ [T[n] EXCEPT ![2] = a] = turn /\ turn[1] = T[n][1]
    BY <1>3 DEF Texts
  <1>5. Len(U) = n /\ U[n] = turn /\ \A k \in 1 .. n : k # n => U[k] = T[k]
    BY <1>2, <1>3, <1>4
  <1> HIDE DEF U
  <1>6. /\ turns'[s] = U /\ agent'[s] = "ready"
        /\ \A r \in Sessions \ {s} : turns'[r] = turns[r] /\ agent'[r] = agent[r]
    BY <1>1, TurnParts
  <1> HIDE DEF turn
  <1>7. QED
    BY <1>1, <1>2, <1>4, <1>5, <1>6, StartsTurnOnce

LEMMA ReportOnce ==
  ASSUME TurnInv, Calm, OnceInv', ~overlapped', NEW s \in Sessions, Report(s)
  PROVE  TurnInv'
  <1> DEFINE T == turns[s]
             turn == T[Len(T)]
  <1>1. /\ agent[s] = "ready" /\ T # <<>> /\ Start(s, turn)
        /\ UNCHANGED <<host, turns, agent, lastPrompt, marks, torn, sends, missed>>
    BY DEF Report
  <1>2. T \in Seq(Texts)
    BY TurnParts
  <1>3. turn \in Texts
    BY <1>1, <1>2
  <1> HIDE DEF turn
  <1>4. turn = turns[s][Len(turns[s])]
    BY DEF turn
  <1>5. QED
    BY <1>1, <1>3, <1>4, StartsTurnOnce

LEMMA FaultsAreCounted == Spec => [](faults \in Nat)
  <1>1. Init => faults \in Nat
    BY DEF Init
  <1>2. faults \in Nat /\ [Next]_vars => (faults \in Nat)'
    <2> SUFFICES ASSUME faults \in Nat, [Next]_vars PROVE faults' = faults \/ faults' = faults + 1
      OBVIOUS
    <2>1. ASSUME NEW h \in Hooks, Proceed(h) PROVE faults' = faults
      BY <2>1 DEF Proceed, ReadPrompt, Check, Route, PostEntry, AddEntry, PostSummary,
         MarkInMemory, ReadMarks, OpenMarks, WriteMarks
    <2>2. ASSUME NEW s \in Sessions, NEW m \in Messages, Submit(s, m) PROVE faults' = faults
      BY <2>2 DEF Submit
    <2>3. ASSUME NEW s \in Sessions,
                 OpenPromptFile(s) \/ WritePromptFile(s) \/ PromptHookFails(s) \/ Report(s)
          PROVE  faults' = faults \/ faults' = faults + 1
      BY <2>3 DEF OpenPromptFile, WritePromptFile, PromptHookFails, Report
    <2>4. ASSUME NEW s \in Sessions, NEW a \in Answers, End(s, a) PROVE faults' = faults
      BY <2>4 DEF End
    <2>5. ASSUME NEW h \in Hooks, CaptureFails(h) PROVE faults' = faults + 1
      BY <2>5 DEF CaptureFails
    <2>6. AddLate \/ GatewayRestarts => faults' = faults \/ faults' = faults + 1
      BY DEF AddLate, GatewayRestarts
    <2>7. CASE UNCHANGED vars
      BY <2>7 DEF vars
    <2>8. QED
      BY <2>1, <2>2, <2>3, <2>4, <2>5, <2>6, <2>7 DEF Next
  <1>3. QED
    BY <1>1, <1>2, PTL DEF Spec

LEMMA TurnStep == TurnInv /\ faults \in Nat /\ [Next]_vars => TurnInv'
  <1> SUFFICES ASSUME TurnInv, faults \in Nat, [Next]_vars PROVE TurnInv'
    OBVIOUS
  <1>1. OnceInv'
    BY OnceStep DEF TurnInv
  <1>2. CASE UNCHANGED vars
    <2>1. UNCHANGED <<host, turns, agent, lastPrompt, marks, torn, hooks, faults, sends,
                      missed, overlapped>>
      BY <1>2 DEF vars, service, history
    <2>2. Calm' <=> Calm
      BY <2>1 DEF Calm
    <2>3. MarkInv => MarkInv'
      BY <2>1 DEF MarkInv, Marking, Fingerprint
    <2>4. \A s : SessionInv(s) => SessionInv(s)'
      BY <2>1 DEF SessionInv, InFlight, FileHolds, OwnTurn, Over, SentAtMostOnce,
         Remembered, Sent, Early, Fingerprint
    <2>5. QED
      BY <1>1, <2>1, <2>2, <2>3, <2>4 DEF TurnInv
  <1>3. ASSUME NEW h \in Hooks, Proceed(h) PROVE TurnInv'
    BY <1>1, <1>3, CaptureStepsOnce
  <1>4. ASSUME faults' = faults + 1, sends' = sends PROVE TurnInv'
    <2>1. ~Calm'
      BY <1>4 DEF Calm
    <2>2. QED
      BY <1>1, <1>4, <2>1 DEF TurnInv
  <1>5. ASSUME ~Calm, overlapped => overlapped', faults' = faults, sends' = sends
        PROVE  TurnInv'
    <2>1. ~Calm'
      BY <1>5 DEF Calm
    <2>2. QED
      BY <1>1, <1>5, <2>1 DEF TurnInv
  <1>6. ASSUME NEW s \in Sessions, NEW m \in Messages, Submit(s, m) PROVE TurnInv'
    BY <1>1, <1>5, <1>6, SubmitOnce DEF Submit
  <1>7. ASSUME NEW s \in Sessions, OpenPromptFile(s) \/ WritePromptFile(s) PROVE TurnInv'
    BY <1>1, <1>5, <1>7, PromptFileOnce DEF OpenPromptFile, WritePromptFile, history
  <1>8. ASSUME NEW s \in Sessions, NEW a \in Answers, End(s, a) PROVE TurnInv'
    <2>1. faults' = faults /\ sends' = sends /\ (overlapped => overlapped')
      BY <1>8 DEF End, Start
    <2>2. CASE overlapped'
      BY <1>1, <2>1, <2>2 DEF TurnInv, Calm
    <2>3. CASE ~overlapped'
      BY <1>1, <1>5, <1>8, <2>1, <2>3, EndOnce
    <2>4. QED
      BY <2>2, <2>3
  <1>9. ASSUME NEW s \in Sessions, Report(s) PROVE TurnInv'
    <2>1. faults' = faults /\ sends' = sends /\ (overlapped => overlapped')
      BY <1>9 DEF Report, Start
    <2>2. CASE overlapped'
      BY <1>1, <2>1, <2>2 DEF TurnInv, Calm
    <2>3. CASE ~overlapped'
      BY <1>1, <1>5, <1>9, <2>1, <2>3, ReportOnce
    <2>4. QED
      BY <2>2, <2>3
  <1>10. ASSUME NEW s \in Sessions, PromptHookFails(s) PROVE TurnInv'
    BY <1>4, <1>10 DEF PromptHookFails
  <1>11. ASSUME NEW h \in Hooks, CaptureFails(h) PROVE TurnInv'
    BY <1>4, <1>11 DEF CaptureFails
  <1>12. CASE GatewayRestarts
    BY <1>4, <1>12 DEF GatewayRestarts
  <1>13. CASE AddLate
    <2>1. ~Calm
      BY <1>13 DEF AddLate, Calm, TurnInv, OnceInv
    <2>2. QED
      BY <1>5, <1>13, <2>1 DEF AddLate, history
  <1>14. QED
    BY <1>2, <1>3, <1>6, <1>7, <1>8, <1>9, <1>10, <1>11, <1>12, <1>13 DEF Next

\* While captures come one after the other and nothing fails, a turn is sent to the
\* service at most once, however often its end is reported: the mark of a turn is
\* there whenever the turn is checked again.
THEOREM TurnsAreSentOnce == Spec => []SentOnce
  <1>1. Init => TurnInv
    <2> SUFFICES ASSUME Init PROVE TurnInv
      OBVIOUS
    <2>1. OnceInv
      BY CaptureInit DEF Init, OnceInv, InFlight, NoCapture
    <2>2. \A h \in Hooks : hooks[h].pc = "idle"
      BY DEF Init, NoCapture
    <2>3. MarkInv
      BY <2>2 DEF Init, MarkInv, Marking
    <2>4. \A s \in Sessions : SessionInv(s)
      BY <2>2 DEF Init, SessionInv, InFlight, FileHolds, SentAtMostOnce
    <2>5. sends \in [Sessions \X (1 .. MaxTurns) -> Nat]
      BY DEF Init
    <2>6. QED
      BY <2>1, <2>3, <2>4, <2>5 DEF TurnInv
  <1>2. TurnInv => SentOnce
    <2> SUFFICES ASSUME TurnInv, Calm, NEW t \in DOMAIN sends, t[1] \notin missed
                 PROVE  sends[t] <= 1
      BY DEF SentOnce, Calm
    <2>1. t[1] \in Sessions
      BY DEF TurnInv
    <2>2. sends[t] = 0 \/ sends[t] = 1
      BY <2>1, TurnParts DEF SessionInv, SentAtMostOnce
    <2>3. QED
      BY <2>2
  <1>3. QED
    BY <1>1, <1>2, TurnStep, FaultsAreCounted, PTL DEF Spec
=============================================================================
