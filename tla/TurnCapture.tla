----------------------------- MODULE TurnCapture -----------------------------
(***************************************************************************)
(* How an adapter captures the turns of an agent: the user's prompt and    *)
(* the answer go through /v1/memory-route, the entries it returns are      *)
(* stored, then the task summary, and only then the turn is marked so that *)
(* a second report of it is skipped.                                       *)
(*                                                                         *)
(* Two hosts.  Under claude-code every hook is a process of its own.  The  *)
(* prompt hook saves the prompt in a file of the session and the agent     *)
(* waits for it; the Stop hook is asynchronous, reads that file when it    *)
(* gets to it, and marks the turn in one file that all sessions share.     *)
(* Under openclaw the handler of agent_end is given the turn and marks it  *)
(* in a map of the gateway process, while handlers of other turns run      *)
(* between its calls.                                                      *)
(***************************************************************************)
EXTENDS Integers, FiniteSets, Sequences, Functions

CONSTANTS
  Hosts,     \* the hosts considered
  Sessions,
  Hooks,     \* captures that may be in flight at once (a bound)
  Messages,  \* what a user may say
  Noise,     \* the messages should_skip_capture skips
  Answers,   \* what the agent may answer
  Facts,     \* texts of long-term entries
  Keyed,     \* those under one of the four keys that keep one current text, no
             \* two of them under the same key: rivals are FactStore's matter
  FactsOf,   \* the entries the service extracts from a message
  Null,
  MaxTurns,    \* bound: turns of all sessions together
  MaxReports,  \* bound: turns whose end is reported again
  MaxFaults    \* bound: calls that fail, hooks and gateways that are killed

ASSUME CaptureConstantsOK ==
  /\ Hosts \subseteq {"claude-code", "openclaw"}
  /\ Noise \subseteq Messages
  /\ Keyed \subseteq Facts
  /\ \A m \in Messages : FactsOf[m] \subseteq Facts
  /\ Null \notin Messages
  /\ {MaxTurns, MaxReports, MaxFaults} \subseteq Nat

VARIABLES
  host,        \* never changes
  turns,       \* session -> the turns so far: <<prompt, answer>>
  agent,       \* session -> what the agent is doing
  lastPrompt,  \* session -> the session-state file; Null: none, or cut short
  marks,       \* session -> fingerprint marked last; for claude-code the file
  torn,        \* has the marks file been opened for writing and not written?
  hooks,       \* the captures in flight
  kept,        \* the service: how many memories hold each fact
  late,        \* stores whose client is gone and that will still be done
  summarised,  \* the service: turns whose task summary was stored
  reports,     \* reports repeated so far (bounded by MaxReports)
  faults,      \* failures so far (bounded by MaxFaults)
  delivered,   \* history: session -> turns of which the service had all
  sends,       \* history: <<session, turn number>> -> times it was routed
  missed,      \* history: sessions of which some turn went uncaptured
  overlapped   \* history: captures ran side by side, or left a call behind

service == <<kept, late, summarised>>
history == <<delivered, sends, missed, overlapped>>
vars == <<host, turns, agent, lastPrompt, marks, torn, hooks, service, reports,
          faults, history>>

-----------------------------------------------------------------------------
Pairs == Messages \X Answers
Places == {"idle", "read", "check", "route", "store", "adding", "summary",
           "markRead", "markOpen", "markWrite"}
Agents == {"ready", "prompted", "saving", "working"}

NoMarks == [s \in Sessions |-> Null]

\* A capture: the process of a Stop hook, or one run of the agent_end handler.
Capture ==
  [pc : Places, session : Sessions \cup {Null}, turn : 0 .. MaxTurns,
   message : Messages \cup {Null}, answer : Answers \cup {Null},
   owed : SUBSET Facts,     \* the entries the service routed
   todo : SUBSET Facts,     \* those not stored yet
   cur : Facts \cup {Null},
   task : BOOLEAN,          \* did it route a task?
   seen : [Sessions -> Pairs \cup {Null}]]

NoCapture ==
  [pc |-> "idle", session |-> Null, turn |-> 0, message |-> Null,
   answer |-> Null, owed |-> {}, todo |-> {}, cur |-> Null, task |-> FALSE,
   seen |-> NoMarks]

InFlight(h) == hooks[h].pc # "idle"
Goto(h, c) == hooks' = [hooks EXCEPT ![h] = c]
Fingerprint(c) == <<c.message, c.answer>>

Init ==
  /\ host \in Hosts
  /\ turns = [s \in Sessions |-> <<>>]
  /\ agent = [s \in Sessions |-> "ready"]
  /\ lastPrompt = [s \in Sessions |-> Null]
  /\ marks = NoMarks
  /\ torn = FALSE
  /\ hooks = [h \in Hooks |-> NoCapture]
  /\ kept = [f \in Facts |-> 0]
  /\ late = [f \in Facts |-> 0]
  /\ summarised = {}
  /\ reports = 0
  /\ faults = 0
  /\ delivered = [s \in Sessions |-> {}]
  /\ sends = [t \in Sessions \X (1 .. MaxTurns) |-> 0]
  /\ missed = {}
  /\ overlapped = FALSE

-----------------------------------------------------------------------------
(* The session: prompts, answers, reports *)

\* The user submits a prompt.  A Stop hook that has not yet read the previous
\* one will find this one.
Submit(s, m) ==
  /\ agent[s] = "ready"
  /\ SumFunction([t \in Sessions |-> Len(turns[t])]) < MaxTurns
  /\ turns' = [turns EXCEPT ![s] = Append(@, <<m, Null>>)]
  /\ agent' = [agent EXCEPT ![s] = IF host = "claude-code" THEN "prompted"
                                                           ELSE "working"]
  /\ missed' = IF /\ host = "claude-code"
                  /\ \E h \in Hooks : hooks[h].session = s /\ hooks[h].pc = "read"
                 THEN missed \cup {s} ELSE missed
  /\ UNCHANGED <<host, lastPrompt, marks, torn, hooks, service, reports, faults,
                 delivered, sends, overlapped>>

\* save_last_prompt: write_text empties the file, then writes it.
OpenPromptFile(s) ==
  /\ agent[s] = "prompted"
  /\ lastPrompt' = [lastPrompt EXCEPT ![s] = Null]
  /\ agent' = [agent EXCEPT ![s] = "saving"]
  /\ UNCHANGED <<host, turns, marks, torn, hooks, service, reports, faults, history>>

WritePromptFile(s) ==
  /\ agent[s] = "saving"
  /\ lastPrompt' = [lastPrompt EXCEPT ![s] = turns[s][Len(turns[s])][1]]
  /\ agent' = [agent EXCEPT ![s] = "working"]
  /\ UNCHANGED <<host, turns, marks, torn, hooks, service, reports, faults, history>>

\* The prompt hook fails or is killed at its timeout; the agent goes on.
PromptHookFails(s) ==
  /\ agent[s] \in {"prompted", "saving"}
  /\ faults < MaxFaults
  /\ faults' = faults + 1
  /\ agent' = [agent EXCEPT ![s] = "working"]
  /\ missed' = missed \cup {s}
  /\ UNCHANGED <<host, turns, lastPrompt, marks, torn, hooks, service, reports,
                 delivered, sends, overlapped>>

\* A capture starts for the session's last turn.  The handler of openclaw has
\* the turn's texts; the Stop hook has the answer and must read the prompt.
Start(s, turn) ==
  \E h \in Hooks :
    /\ ~InFlight(h)
    /\ Goto(h, [NoCapture EXCEPT
                  !.pc = IF host = "claude-code" THEN "read" ELSE "check",
                  !.session = s, !.turn = Len(turns[s]),
                  !.message = IF host = "claude-code" THEN Null ELSE turn[1],
                  !.answer = turn[2]])
    /\ overlapped' = (overlapped \/ \E g \in Hooks : InFlight(g))

\* The agent answers and its host reports the end of the turn.
End(s, a) ==
  LET n == Len(turns[s]) IN
  /\ agent[s] = "working"
  /\ turns' = [turns EXCEPT ![s][n][2] = a]
  /\ agent' = [agent EXCEPT ![s] = "ready"]
  /\ Start(s, <<turns[s][n][1], a>>)
  /\ UNCHANGED <<host, lastPrompt, marks, torn, service, reports, faults,
                 delivered, sends, missed>>

\* The end of the session's last turn is reported once more.
Report(s) ==
  /\ agent[s] = "ready"
  /\ turns[s] # <<>>
  /\ reports < MaxReports
  /\ reports' = reports + 1
  /\ Start(s, turns[s][Len(turns[s])])
  /\ UNCHANGED <<host, turns, agent, lastPrompt, marks, torn, service, faults,
                 delivered, sends, missed>>

-----------------------------------------------------------------------------
(* The capture: read, check, route, store, mark *)

\* capture.py: load_last_prompt; without a prompt there is nothing to capture.
ReadPrompt(h) ==
  LET c == hooks[h] IN
  /\ c.pc = "read"
  /\ Goto(h, IF lastPrompt[c.session] = Null
               THEN NoCapture
               ELSE [c EXCEPT !.pc = "check", !.message = lastPrompt[c.session]])
  /\ UNCHANGED <<host, turns, agent, lastPrompt, marks, torn, service, reports,
                 faults, history>>

\* A file that is cut short reads as no marks at all.
LoadedMarks == IF torn THEN NoMarks ELSE marks

IsDuplicateNeverMutant(c) == FALSE
IsDuplicateAnyScopeMutant(c) ==
  \E s \in Sessions : LoadedMarks[s] = Fingerprint(c)
IsDuplicate(c) == LoadedMarks[c.session] = Fingerprint(c)

\* should_skip_capture and is_duplicate_capture
Check(h) ==
  LET c == hooks[h] IN
  /\ c.pc = "check"
  /\ Goto(h, IF c.message \in Noise \/ IsDuplicate(c) THEN NoCapture
                                                      ELSE [c EXCEPT !.pc = "route"])
  /\ UNCHANGED <<host, turns, agent, lastPrompt, marks, torn, service, reports,
                 faults, history>>

\* Where a capture goes when no entry is left to store.
AfterStores(c) ==
  [c EXCEPT !.pc = IF c.todo # {} THEN "store"
                   ELSE IF c.task THEN "summary" ELSE "markRead"]

\* POST /v1/memory-route.  The judge may decide the same turn differently each
\* time: drop, long_term, task or mixed.
Route(h) ==
  LET c == hooks[h] IN
  /\ c.pc = "route"
  /\ \E entries \in {{}, FactsOf[c.message]}, task \in BOOLEAN :
       Goto(h, AfterStores([c EXCEPT !.owed = entries, !.todo = entries,
                                     !.task = task]))
  /\ sends' = [sends EXCEPT ![<<c.session, c.turn>>] = @ + 1]
  /\ UNCHANGED <<host, turns, agent, lastPrompt, marks, torn, service, reports,
                 faults, delivered, missed, overlapped>>

\* POST /v1/memories: the service looks for the fact, and answers "skipped" or
\* goes on to add it.  Only a keyed fact is skipped: any other one is added again,
\* for the consolidation to find.
KnownMutant(f) == FALSE
Known(f) == f \in Keyed /\ kept[f] > 0

PostEntry(h) ==
  LET c == hooks[h] IN
  /\ c.pc = "store"
  /\ \E f \in c.todo :
       Goto(h, IF Known(f) THEN AfterStores([c EXCEPT !.todo = @ \ {f}])
                           ELSE [c EXCEPT !.pc = "adding", !.cur = f])
  /\ UNCHANGED <<host, turns, agent, lastPrompt, marks, torn, service, reports,
                 faults, history>>

AddEntry(h) ==
  LET c == hooks[h] IN
  /\ c.pc = "adding"
  /\ kept' = [kept EXCEPT ![c.cur] = @ + 1]
  /\ Goto(h, AfterStores([c EXCEPT !.todo = @ \ {c.cur}, !.cur = Null]))
  /\ UNCHANGED <<host, turns, agent, lastPrompt, marks, torn, late, summarised,
                 reports, faults, history>>

\* A store whose client has given up comes to its end.
AddLate ==
  \E f \in Facts :
    /\ late[f] > 0
    /\ late' = [late EXCEPT ![f] = @ - 1]
    /\ kept' = [kept EXCEPT ![f] = @ + 1]
    /\ UNCHANGED <<host, turns, agent, lastPrompt, marks, torn, hooks, summarised,
                   reports, faults, history>>

\* POST /v1/task-summaries
PostSummary(h) ==
  LET c == hooks[h] IN
  /\ c.pc = "summary"
  /\ summarised' = summarised \cup {<<c.session, Fingerprint(c)>>}
  /\ Goto(h, [c EXCEPT !.pc = "markRead"])
  /\ UNCHANGED <<host, turns, agent, lastPrompt, marks, torn, kept, late, reports,
                 faults, history>>

\* History: the capture has had its answers.  Does the service hold the turn?
Acknowledge(c) ==
  delivered' =
    IF /\ \A f \in c.owed : kept[f] > 0
       /\ c.task => <<c.session, Fingerprint(c)>> \in summarised
      THEN [delivered EXCEPT ![c.session] = @ \cup {Fingerprint(c)}]
      ELSE delivered

\* openclaw: a map in memory.
MarkInMemory(h) ==
  LET c == hooks[h] IN
  /\ host = "openclaw"
  /\ c.pc = "markRead"
  /\ marks' = [marks EXCEPT ![c.session] = Fingerprint(c)]
  /\ Acknowledge(c)
  /\ Goto(h, NoCapture)
  /\ UNCHANGED <<host, turns, agent, lastPrompt, torn, service, reports, faults,
                 sends, missed, overlapped>>

\* claude-code: mark_capture_success reads the file of all sessions, empties it
\* and writes it.
ReadMarks(h) ==
  LET c == hooks[h] IN
  /\ host = "claude-code"
  /\ c.pc = "markRead"
  /\ Goto(h, [c EXCEPT !.pc = "markOpen",
                       !.seen = [LoadedMarks EXCEPT ![c.session] = Fingerprint(c)]])
  /\ Acknowledge(c)
  /\ UNCHANGED <<host, turns, agent, lastPrompt, marks, torn, service, reports,
                 faults, sends, missed, overlapped>>

OpenMarks(h) ==
  /\ hooks[h].pc = "markOpen"
  /\ torn' = TRUE
  /\ Goto(h, [hooks[h] EXCEPT !.pc = "markWrite"])
  /\ UNCHANGED <<host, turns, agent, lastPrompt, marks, service, reports, faults,
                 history>>

WriteMarks(h) ==
  /\ hooks[h].pc = "markWrite"
  /\ torn' = FALSE
  /\ marks' = hooks[h].seen
  /\ Goto(h, NoCapture)
  /\ UNCHANGED <<host, turns, agent, lastPrompt, service, reports, faults, history>>

-----------------------------------------------------------------------------
(* Failures *)

\* A call that raises ends the capture, and nothing is marked.
FailedGoesOnMutant(c) ==
  IF c.pc \in {"store", "adding"}
    THEN AfterStores([c EXCEPT !.todo = {}, !.cur = Null])
    ELSE NoCapture
FailedRetriesMutant(c) ==
  IF c.pc = "adding" THEN [c EXCEPT !.pc = "store", !.cur = Null] ELSE NoCapture
Failed(c) == NoCapture

\* A call fails, or the hook is killed at its timeout.  A store that was under
\* way may have been done, be dropped, or be done later.
CaptureFails(h) ==
  LET c == hooks[h] IN
  /\ c.pc \notin {"idle"}
  /\ faults < MaxFaults
  /\ faults' = faults + 1
  /\ missed' = missed \cup {c.session}
  /\ Goto(h, Failed(c))
  /\ \/ UNCHANGED <<late, overlapped>>
     \/ /\ c.pc = "adding"
        /\ late' = [late EXCEPT ![c.cur] = @ + 1]
        /\ overlapped' = TRUE
  /\ UNCHANGED <<host, turns, agent, lastPrompt, marks, torn, kept, summarised,
                 reports, delivered, sends>>

\* The gateway of openclaw restarts: its map is empty and its handlers are gone.
GatewayRestarts ==
  /\ host = "openclaw"
  /\ faults < MaxFaults
  /\ faults' = faults + 1
  /\ marks' = NoMarks
  /\ missed' = missed \cup {hooks[h].session : h \in {g \in Hooks : InFlight(g)}}
  /\ hooks' = [h \in Hooks |-> NoCapture]
  /\ UNCHANGED <<host, turns, agent, lastPrompt, torn, service, reports,
                 delivered, sends, overlapped>>

-----------------------------------------------------------------------------
Proceed(h) ==
  \/ ReadPrompt(h)
  \/ Check(h)
  \/ Route(h)
  \/ PostEntry(h)
  \/ AddEntry(h)
  \/ PostSummary(h)
  \/ MarkInMemory(h)
  \/ ReadMarks(h)
  \/ OpenMarks(h)
  \/ WriteMarks(h)

Next ==
  \/ \E s \in Sessions :
       \/ \E m \in Messages : Submit(s, m)
       \/ OpenPromptFile(s)
       \/ WritePromptFile(s)
       \/ PromptHookFails(s)
       \/ \E a \in Answers : End(s, a)
       \/ Report(s)
  \/ \E h \in Hooks : Proceed(h) \/ CaptureFails(h)
  \/ AddLate
  \/ GatewayRestarts

Spec == Init /\ [][Next]_vars

\* A capture that has started goes on: the process is scheduled, every call
\* returns or raises.
FairSpec == Spec /\ \A h \in Hooks : WF_vars(Proceed(h))

-----------------------------------------------------------------------------
(* Properties *)

\* Files, maps and captures have the shape the adapters give them.
TypeOK ==
  /\ host \in Hosts
  /\ turns \in [Sessions -> Seq(Messages \X (Answers \cup {Null}))]
  /\ agent \in [Sessions -> Agents]
  /\ lastPrompt \in [Sessions -> Messages \cup {Null}]
  /\ marks \in [Sessions -> Pairs \cup {Null}]
  /\ torn \in BOOLEAN
  /\ hooks \in [Hooks -> Capture]
  /\ kept \in [Facts -> Nat]
  /\ late \in [Facts -> Nat]
  /\ summarised \subseteq Sessions \X Pairs

\* A mark, once it can be read, stands for a turn of that session of which the
\* service had every entry and the summary: whatever failed, was killed or was
\* written back by the hook of another session, a turn is never skipped that
\* was not delivered.
MarkedWasDelivered ==
  \A s \in Sessions : LoadedMarks[s] # Null => LoadedMarks[s] \in delivered[s]

\* While captures come one after the other, nothing fails and the user waits for
\* the hook, a turn is sent to the service once, however often its end is
\* reported.
SentOnce ==
  ~overlapped /\ faults = 0 =>
    \A t \in DOMAIN sends : t[1] \in missed \/ sends[t] <= 1

\* A capture that failed half way and is repeated from the start leaves no keyed
\* fact twice, as long as captures do not overlap: the service knows what it has.
FactsKeptOnce == ~overlapped => \A f \in Keyed : kept[f] <= 1

\* The copies of a fact, those that will still be made included, are never more
\* than the times a turn was sent: a store that was given up and is done late adds
\* none to the one its capture stands for.
CopiesAreSends ==
  \A f \in Facts : kept[f] + late[f] <= SumFunction(sends)

\* What the adapter's README promises: the Stop hook captures its own turn.
CapturesOwnTurn ==
  \A h \in Hooks :
    LET c == hooks[h] IN
    c.message # Null => c.message = turns[c.session][c.turn][1]

Ended(s, n) == n <= Len(turns[s]) /\ turns[s][n][2] # Null

Settled(s, n) ==
  /\ Ended(s, n)
  /\ turns[s][n] \in delivered[s] \/ turns[s][n][1] \in Noise

\* A turn that has ended is delivered in the end, unless it is noise, some capture
\* of its session failed, or the user was faster than the hook.  In particular no
\* mark of another session or of another turn makes it look captured.  (Turns
\* are never taken back, so this is the same as "leads to" for every turn.)
TurnIsCaptured ==
  <>[](\A s \in Sessions : \A n \in 1 .. MaxTurns :
         Ended(s, n) => Settled(s, n) \/ s \in missed)
=============================================================================
