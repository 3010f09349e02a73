------------------------------- MODULE ChatThread -------------------------------
(***************************************************************************)
(* One conversation with the assistant, as the chat service keeps it: the  *)
(* messages of the thread and the summary of those that no longer fit in   *)
(* the prompt.                                                             *)
(*                                                                         *)
(* A question is a Turn: it loads the last messages and, in a query of its *)
(* own, the summary of the older ones (ConversationWindowService), asks    *)
(* the model, saves the question and the answer in one transaction         *)
(* (ThreadService) and refreshes the summary (SummaryMaintainerService).   *)
(* Nothing serialises the turns of a thread: two tabs, or a retry while    *)
(* the first request is still running, overlap at every query.             *)
(*                                                                         *)
(* A message is its created_at, which Postgres takes when the transaction  *)
(* begins: a pair becomes visible at its commit, behind messages that      *)
(* began later and committed sooner.  Text, encryption, tokens and the     *)
(* suggestions are left out; what the model is told is a set of messages.  *)
(***************************************************************************)
EXTENDS Naturals, FiniteSets

CONSTANTS Turn,       \* requests that may run at the same time
          Quick,      \* messages a quick prompt repeats (6)
          Deep,       \* messages a deep-dive prompt repeats, and the ones a
                      \* summary leaves out (12)
          Threshold,  \* messages a thread has before it is summarised (16)
          Cap,        \* messages one summary is made of (80)
          PageSize,   \* messages on a page of the history (20)
          MaxClock    \* bound: no turn starts later

ASSUME ChatAssumption ==
    /\ Quick \in Nat \ {0} /\ Deep \in Nat /\ Quick <= Deep
    /\ Threshold \in Nat /\ Deep <= Threshold
    /\ Cap \in Nat \ {0} /\ PageSize \in Nat \ {0}
    /\ MaxClock \in Nat

VARIABLES
    clock,      \* the last created_at that was given
    stored,     \* Postgres: the committed messages of the thread
    summary,    \* Postgres: its thread_summaries row: up_to_message (0 when
                \* there is no row) and the messages it was made of
    turn,       \* the requests
    sound       \* history: since the last commit, a refresh ran to its end
                \* with no other turn about

vars == <<clock, stored, summary, turn, sound>>

Mode == {"quick", "deep_dive"}
Size(mode) == IF mode = "quick" THEN Quick ELSE Deep

\* A request: where it is, what it has read, the created_at of its pair, and
\* whether it has been the only one since it started.
Idle == [pc |-> "idle", mode |-> "quick", alone |-> FALSE, win |-> {},
         seen |-> {}, degraded |-> FALSE, stamp |-> 0, floor |-> 0, older |-> {}]

\* A thread may begin with the opener of an assessment, an answer to nothing.
Init ==
    /\ stored \in {{}, {1}}
    /\ clock = Cardinality(stored)
    /\ summary = [upTo |-> 0, holds |-> {}]
    /\ turn = [t \in Turn |-> Idle]
    /\ sound = TRUE

-------------------------------------------------------------------------------
(* Queries on messages.                                                    *)

\* The place of message m among S, the newest being first.
Place(S, m) == Cardinality({k \in S : k >= m})

\* get_window, and list_paginated before the caller's cursor is applied.
Latest(S, n) == {m \in S : Place(S, m) <= n}

\* Mutant: the cursor itself is on the page.
UpTo(S, cursor) == {m \in S : m <= cursor}

Before(S, cursor) == {m \in S : m < cursor}

\* list_messages: one more than a page, oldest first, cut to the page.
Page(S, cursor) ==
    LET rows == Latest(Before(S, cursor), PageSize + 1)
    IN  {m \in rows : Cardinality({k \in rows : k <= m}) <= PageSize}

-------------------------------------------------------------------------------
(* The steps of a turn.                                                    *)

At(t, pc) == turn[t].pc = pc

Working(t) == ~At(t, "idle")

Move(t, to) == turn' = [turn EXCEPT ![t] = to]

Ask(t, mode) ==
    /\ At(t, "idle")
    /\ clock < MaxClock
    /\ turn' = [u \in Turn |->
                  IF u = t THEN [Idle EXCEPT !.pc = "window", !.mode = mode,
                                             !.alone = \A v \in Turn : ~Working(v)]
                  ELSE [turn[u] EXCEPT !.alone = FALSE]]
    /\ UNCHANGED <<clock, stored, summary, sound>>

\* An empty thread has no history.
LoadWindow(t) ==
    /\ At(t, "window")
    /\ Move(t, [turn[t] EXCEPT !.pc = IF stored = {} THEN "reply" ELSE "summary",
                               !.win = Latest(stored, Size(turn[t].mode))])
    /\ UNCHANGED <<clock, stored, summary, sound>>

\* The summary is told when its last message is not told anyway.
LoadSummary(t) ==
    /\ At(t, "summary")
    /\ Move(t, [turn[t] EXCEPT !.pc = "reply",
                               !.seen = IF summary.upTo \in turn[t].win \cup {0}
                                        THEN turn[t].win
                                        ELSE turn[t].win \cup summary.holds])
    /\ UNCHANGED <<clock, stored, summary, sound>>

\* The window cannot be decrypted, and the model is told nothing; or the
\* summary cannot, and it is told the window.
Degrade(t) ==
    /\ At(t, "summary")
    /\ \E told \in {{}, turn[t].win} :
         Move(t, [turn[t] EXCEPT !.pc = "reply", !.degraded = TRUE, !.seen = told])
    /\ UNCHANGED <<clock, stored, summary, sound>>

\* The stream has ended and the client has its answer; an empty one is not kept.
Reply(t) ==
    /\ At(t, "reply")
    /\ \E pc \in {"append", "count"} :
         Move(t, [Idle EXCEPT !.pc = pc, !.mode = turn[t].mode, !.alone = turn[t].alone])
    /\ UNCHANGED <<clock, stored, summary, sound>>

\* Mutant: the next pair may take the answer's microsecond.
InsertPairOneTick(t) ==
    /\ At(t, "append")
    /\ clock' = clock + 1
    /\ Move(t, [turn[t] EXCEPT !.pc = "commit", !.stamp = clock + 1])
    /\ UNCHANGED <<stored, summary, sound>>

\* append_pair: the answer is a microsecond younger than the question.
InsertPair(t) ==
    /\ At(t, "append")
    /\ clock' = clock + 2
    /\ Move(t, [turn[t] EXCEPT !.pc = "commit", !.stamp = clock + 1])
    /\ UNCHANGED <<stored, summary, sound>>

CommitPair(t) ==
    /\ At(t, "commit")
    /\ stored' = stored \cup {turn[t].stamp, turn[t].stamp + 1}
    /\ Move(t, [turn[t] EXCEPT !.pc = "count"])
    /\ sound' = FALSE
    /\ UNCHANGED <<clock, summary>>

\* A failure to save is logged, and the summary is refreshed all the same.
SaveFails(t) ==
    /\ turn[t].pc \in {"append", "commit"}
    /\ Move(t, [turn[t] EXCEPT !.pc = "count"])
    /\ UNCHANGED <<clock, stored, summary, sound>>

\* Mutant: the threshold is that of a thread twice as long.
CountTooPatient(t) ==
    /\ At(t, "count")
    /\ IF Cardinality(stored) <= 2 * Threshold
       THEN Move(t, Idle) /\ sound' = (sound \/ turn[t].alone)
       ELSE Move(t, [turn[t] EXCEPT !.pc = "floor"]) /\ UNCHANGED sound
    /\ UNCHANGED <<clock, stored, summary>>

\* refresh_if_needed.
Count(t) ==
    /\ At(t, "count")
    /\ IF Cardinality(stored) <= Threshold
       THEN Move(t, Idle) /\ sound' = (sound \/ turn[t].alone)
       ELSE Move(t, [turn[t] EXCEPT !.pc = "floor"]) /\ UNCHANGED sound
    /\ UNCHANGED <<clock, stored, summary>>

\* Mutant: the window is that of the turn's mode.
ReadFloorOfMode(t) ==
    /\ At(t, "floor")
    /\ \E o \in stored :
         /\ Place(stored, o) = Size(turn[t].mode)
         /\ Move(t, [turn[t] EXCEPT !.pc = "older", !.floor = o])
    /\ UNCHANGED <<clock, stored, summary, sound>>

\* The oldest message of a deep-dive window; the thread is longer than one.
ReadFloor(t) ==
    /\ At(t, "floor")
    /\ \E o \in stored :
         /\ Place(stored, o) = Deep
         /\ Move(t, [turn[t] EXCEPT !.pc = "older", !.floor = o])
    /\ UNCHANGED <<clock, stored, summary, sound>>

\* The ones before it, in another query; there are some, since the thread is
\* longer than Threshold.
ReadOlder(t) ==
    /\ At(t, "older")
    /\ Move(t, [turn[t] EXCEPT !.pc = "upsert",
                               !.older = Latest(Before(stored, turn[t].floor), Cap)])
    /\ UNCHANGED <<clock, stored, summary, sound>>

\* The summary has been written by the model and replaces the one there is.
Upsert(t) ==
    /\ At(t, "upsert")
    /\ \E m \in turn[t].older :
         /\ \A k \in turn[t].older : k <= m
         /\ summary' = [upTo |-> m, holds |-> turn[t].older]
    /\ Move(t, Idle)
    /\ sound' = turn[t].alone
    /\ UNCHANGED <<clock, stored>>

\* The turn ends where it is: it is refused, the model fails, the client has
\* left, the refresh fails (it is a no-op then), or the Lambda stops.
End(t) ==
    /\ Working(t)
    /\ Move(t, Idle)
    /\ UNCHANGED <<clock, stored, summary, sound>>

Step(t) ==
    \/ \E mode \in Mode : Ask(t, mode)
    \/ LoadWindow(t) \/ LoadSummary(t) \/ Degrade(t) \/ Reply(t)
    \/ InsertPair(t) \/ CommitPair(t) \/ SaveFails(t)
    \/ Count(t) \/ ReadFloor(t) \/ ReadOlder(t) \/ Upsert(t)
    \/ End(t)

Next == \E t \in Turn : Step(t)

Spec == Init /\ [][Next]_vars

-------------------------------------------------------------------------------
(* What holds.                                                             *)

Steps == {"idle", "window", "summary", "reply", "append", "commit", "count",
          "floor", "older", "upsert"}

\* Types: messages are created_at values that have been given.
TypeOK ==
    /\ clock \in Nat
    /\ stored \subseteq 1..clock
    /\ summary \in [upTo : 0..clock, holds : SUBSET stored]
    /\ turn \in [Turn -> [pc : Steps, mode : Mode, alone : BOOLEAN,
                          win : SUBSET stored, seen : SUBSET stored,
                          degraded : BOOLEAN, stamp : 0..clock,
                          floor : stored \cup {0}, older : SUBSET stored]]
    /\ sound \in BOOLEAN

\* The last message a summary stands for is never one that a deep-dive prompt
\* repeats, however the turns overlap: _get_summary_if_relevant, which looks
\* for that one message in the window, never drops a summary a deep-dive
\* prompt of its time needs.
MarkIsBehindWindow ==
    summary.upTo # 0 =>
        /\ summary.upTo \in summary.holds
        /\ Cardinality({k \in stored : k > summary.upTo}) >= Deep

\* The prompt of turn t should be complete: the turn has been alone, what it
\* read could be decrypted, and the last refresh was not disturbed.
Answering(t) == /\ At(t, "reply")
                /\ turn[t].alone /\ ~turn[t].degraded /\ sound

\* What is told to the model then: the last messages, and when the thread has
\* outgrown Threshold the Cap messages before a deep-dive window, which went
\* into the summary some turns ago.
PromptIsComplete ==
    \A t \in Turn : Answering(t) =>
        /\ Latest(stored, Size(turn[t].mode)) \subseteq turn[t].seen
        /\ Cardinality(stored) > Threshold =>
             Latest(stored, Deep + Cap) \ Latest(stored, Deep) \subseteq turn[t].seen

\* A refresh replaces the summary whatever it stands for, and one that was
\* overtaken puts an older one back.  One that was not never moves the mark
\* back: what was summarised stays summarised.
MarkGoesBackOnlyWhenOvertaken ==
    [][sound' => summary'.upTo >= summary.upTo]_vars

\* Said by summary_maintainer.py of its window ("must match
\* ConversationWindowService") and by conversation_window.py of a summary
\* ("covers messages OLDER than the current verbatim window"): between what a
\* summary covers and what a prompt repeats there is no gap.
SummaryMeetsWindow ==
    \A t \in Turn : Answering(t) /\ Cardinality(stored) > Threshold =>
        Latest(stored, Deep + Cap) \subseteq turn[t].seen

\* Said by the messages route: the oldest message of a page is the cursor of
\* the page before it.  So a page, the first one too, reaches up to its
\* cursor: what it leaves out is older than all it shows.
PagesLeaveNoGap ==
    \A cursor \in stored \cup {clock + 1} :
        \A k \in Before(stored, cursor) \ Page(stored, cursor) :
            \A m \in Page(stored, cursor) : k < m
=================================================================================
