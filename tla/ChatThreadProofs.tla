---------------------------- MODULE ChatThreadProofs ----------------------------
(***************************************************************************)
(* What holds of ChatThread for any number of turns and any sizes of the   *)
(* windows, the summaries and the thread.                                  *)
(*                                                                         *)
(* The mark: a turn that is about to write a summary knows a message with  *)
(* Deep - 1 younger ones, and what it summarises is older still (Shape).   *)
(* Messages are only added, so this survives whatever the others do.       *)
(*                                                                         *)
(* The prompt: as long as a turn is the only one, what it has read is what *)
(* there is (AloneShape), so the summary it writes is up to date, and so   *)
(* is the prompt of the next turn that is alone.                           *)
(***************************************************************************)
EXTENDS ChatThread, FiniteSetTheorems, TLAPS

\* A turn, when the thread is S and the last created_at is c.
Rec(c, S) == [pc : Steps, mode : Mode, alone : BOOLEAN,
              win : SUBSET S, seen : SUBSET S,
              degraded : BOOLEAN, stamp : 0..c,
              floor : S \cup {0}, older : SUBSET S]

Newer(S, m) == Cardinality({k \in S : k > m})

\* The messages H told by a summary are the ones a prompt may expect of it.
UpToDate(S, H) ==
    Cardinality(S) > Threshold => Latest(S, Deep + Cap) \ Latest(S, Deep) \subseteq H

\* Nothing that has left the window is younger than H, unless it is in H.
Continues(S, H) ==
    \A k \in S : Place(S, k) > Deep => k \in H \/ \A m \in H : k < m

\* What turn x has read, whatever the other turns did since.
Shape(c, S, x) ==
    /\ x.pc = "commit" => x.stamp # 0 /\ x.stamp + 1 <= c
    /\ x.pc = "older" => x.floor \in S /\ Place(S, x.floor) >= Deep
    /\ x.pc = "upsert" => \A m \in x.older : Newer(S, m) >= Deep

Told(S, x) ==
    /\ Latest(S, Size(x.mode)) \subseteq x.seen
    /\ UpToDate(S, x.seen)

\* What turn x has read, when it has been alone.
AloneShape(S, s, x) ==
    x.alone =>
      /\ x.pc = "summary" => x.win = Latest(S, Size(x.mode))
      /\ x.pc = "reply" /\ ~x.degraded /\ s => Told(S, x)
      /\ x.pc = "older" => Place(S, x.floor) = Deep
      /\ x.pc = "upsert" => UpToDate(S, x.older) /\ Continues(S, x.older)

TurnInv ==
    \A t \in Turn : Shape(clock, stored, turn[t]) /\ AloneShape(stored, sound, turn[t])

OnlyOne == \A t, u \in Turn : turn[t].alone /\ t # u => ~Working(u)

SummaryInv ==
    /\ MarkIsBehindWindow
    /\ summary.upTo = 0 => summary.holds = {}
    /\ sound => UpToDate(stored, summary.holds)

ThreadTyped == clock \in Nat /\ stored \subseteq 1..clock /\ sound \in BOOLEAN
SummaryTyped == summary \in [upTo : 0..clock, holds : SUBSET stored]
TurnsTyped == turn \in [Turn -> Rec(clock, stored)]

IInv == ThreadTyped /\ SummaryTyped /\ TurnsTyped /\ TurnInv /\ OnlyOne /\ SummaryInv

-------------------------------------------------------------------------------
(* Sets of messages.                                                       *)

LEMMA FiniteThread ==
    ASSUME ThreadTyped
    PROVE  /\ stored \in SUBSET Nat /\ IsFiniteSet(stored)
           /\ \A T \in SUBSET stored : IsFiniteSet(T) /\ Cardinality(T) \in Nat
<1>1. IsFiniteSet(1..clock)
  BY FS_Interval DEF ThreadTyped
<1>2. IsFiniteSet(stored)
  BY <1>1, FS_Subset DEF ThreadTyped
<1>3. ASSUME NEW T \in SUBSET stored
      PROVE  IsFiniteSet(T) /\ Cardinality(T) \in Nat
  BY <1>2, FS_Subset, FS_CardinalityType
<1> QED
  BY <1>2, <1>3 DEF ThreadTyped

LEMMA AddPair ==
    ASSUME NEW S, IsFiniteSet(S), NEW a, NEW b
    PROVE  IsFiniteSet(S \cup {a, b})
<1>1. IsFiniteSet((S \cup {a}) \cup {b})
  BY FS_AddElement
<1>2. (S \cup {a}) \cup {b} = S \cup {a, b}
  OBVIOUS
<1> QED
  BY <1>1, <1>2

LEMMA SmallerSet ==
    ASSUME NEW S, IsFiniteSet(S), NEW T \in SUBSET S
    PROVE  Cardinality(T) \in Nat /\ Cardinality(S) \in Nat /\ Cardinality(T) <= Cardinality(S)
BY FS_Subset, FS_CardinalityType

\* A thread that grows puts more messages behind a message, never fewer.
LEMMA PlacesGrow ==
    ASSUME NEW S, IsFiniteSet(S), NEW R \in SUBSET S, NEW m
    PROVE  /\ Place(R, m) \in Nat /\ Place(S, m) \in Nat /\ Place(R, m) <= Place(S, m)
           /\ Newer(R, m) \in Nat /\ Newer(S, m) \in Nat /\ Newer(R, m) <= Newer(S, m)
<1>1. {k \in R : k >= m} \in SUBSET {k \in S : k >= m}
  OBVIOUS
<1>2. {k \in R : k > m} \in SUBSET {k \in S : k > m}
  OBVIOUS
<1>3. IsFiniteSet({k \in S : k >= m}) /\ IsFiniteSet({k \in S : k > m})
  BY FS_Subset
<1> QED
  BY <1>1, <1>2, <1>3, SmallerSet DEF Place, Newer

LEMMA ShapeKept ==
    ASSUME NEW c \in Nat, NEW d \in Nat, c <= d,
           NEW S, IsFiniteSet(S), NEW R \in SUBSET S,
           NEW x \in Rec(c, R), Shape(c, R, x)
    PROVE  x \in Rec(d, S) /\ Shape(d, S, x)
<1>1. x \in Rec(d, S)
  BY DEF Rec
<1>2. x.pc = "commit" => x.stamp # 0 /\ x.stamp + 1 <= d
  BY DEF Shape, Rec
<1>3. x.pc = "older" => x.floor \in S /\ Place(S, x.floor) >= Deep
  BY PlacesGrow, ChatAssumption DEF Shape
<1>4. x.pc = "upsert" => \A m \in x.older : Newer(S, m) >= Deep
  BY PlacesGrow, ChatAssumption DEF Shape
<1> QED
  BY <1>1, <1>2, <1>3, <1>4 DEF Shape

\* A message before one in place n or further has n younger ones.
LEMMA BeforeHasNewer ==
    ASSUME ThreadTyped, NEW f \in stored, NEW m \in Before(stored, f)
    PROVE  Newer(stored, m) >= Place(stored, f)
<1>1. {k \in stored : k >= f} \in SUBSET {k \in stored : k > m}
  BY FiniteThread DEF Before
<1>2. IsFiniteSet({k \in stored : k > m})
  BY FiniteThread
<1> QED
  BY <1>1, <1>2, SmallerSet DEF Newer, Place

\* A message is in a place after the younger ones.
LEMMA PlaceAfterNewer ==
    ASSUME ThreadTyped, NEW m \in stored
    PROVE  Place(stored, m) = Newer(stored, m) + 1
<1>1. {k \in stored : k >= m} = {k \in stored : k > m} \cup {m}
  BY FiniteThread
<1>2. m \notin {k \in stored : k > m} /\ IsFiniteSet({k \in stored : k > m})
  BY FiniteThread
<1>3. Cardinality({k \in stored : k > m} \cup {m}) = Cardinality({k \in stored : k > m}) + 1
  BY <1>2, FS_AddElement
<1> QED
  BY <1>1, <1>3 DEF Place, Newer

\* The Cap messages before the one in place Deep are in the places up to
\* Deep + Cap, and there is nothing between them and it.
LEMMA OlderIsUpToDate ==
    ASSUME ThreadTyped, NEW f \in stored, Place(stored, f) = Deep
    PROVE  /\ UpToDate(stored, Latest(Before(stored, f), Cap))
           /\ Continues(stored, Latest(Before(stored, f), Cap))
<1> DEFINE B == Before(stored, f)
<1>1. B \in SUBSET stored /\ IsFiniteSet(B)
  BY FiniteThread DEF Before
<1>2. ASSUME NEW k \in stored, Place(stored, k) > Deep
      PROVE  k \in B /\ Place(stored, k) = Place(B, k) + Deep
  <2>1. k < f
    <3>1. SUFFICES ASSUME ~(k < f) PROVE FALSE
      OBVIOUS
    <3>2. {j \in stored : j >= k} \in SUBSET {j \in stored : j >= f}
      BY <3>1, FiniteThread
    <3>3. IsFiniteSet({j \in stored : j >= f})
      BY FiniteThread
    <3>4. Place(stored, k) <= Place(stored, f) /\ Place(stored, k) \in Nat
      BY <3>2, <3>3, SmallerSet DEF Place
    <3> QED
      BY <3>4, <1>2, ChatAssumption
  <2> DEFINE L == {j \in B : j >= k}
             U == {j \in stored : j >= f}
  <2>2. {j \in stored : j >= k} = L \cup U /\ L \cap U = {}
    BY <2>1, FiniteThread DEF Before
  <2>3. IsFiniteSet(L) /\ IsFiniteSet(U) /\ Cardinality(L) \in Nat /\ Cardinality(U) \in Nat
    BY <1>1, FiniteThread
  <2>4. Cardinality(L \cup U) = Cardinality(L) + Cardinality(U) - Cardinality(L \cap U)
    BY <2>3, FS_Union
  <2>5. Cardinality(L \cap U) = 0
    BY <2>2, FS_EmptySet
  <2>6. Cardinality(L \cup U) = Cardinality(L) + Cardinality(U)
    BY <2>3, <2>4, <2>5
  <2> QED
    BY <2>1, <2>2, <2>6 DEF Place, Before
<1>3. UpToDate(stored, Latest(B, Cap))
  <2>1. ASSUME NEW k \in Latest(stored, Deep + Cap) \ Latest(stored, Deep)
        PROVE  k \in Latest(B, Cap)
    <3>1. k \in stored /\ Place(stored, k) \in Nat /\ Place(B, k) \in Nat
      BY <1>1, FiniteThread, PlacesGrow DEF Latest
    <3>2. Place(stored, k) > Deep /\ Place(stored, k) <= Deep + Cap
      BY <3>1, ChatAssumption DEF Latest
    <3>3. k \in B /\ Place(stored, k) = Place(B, k) + Deep
      BY <3>1, <3>2, <1>2
    <3>4. Place(B, k) <= Cap
      BY <3>1, <3>2, <3>3, ChatAssumption
    <3> QED
      BY <3>3, <3>4 DEF Latest
  <2> QED
    BY <2>1 DEF UpToDate
<1>4. ASSUME NEW k \in stored, Place(stored, k) > Deep, k \notin Latest(B, Cap),
             NEW m \in Latest(B, Cap)
      PROVE  k < m
  <2>1. k \in B /\ Place(B, k) \in Nat /\ Place(B, k) > Cap
    BY <1>1, <1>2, <1>4, PlacesGrow, ChatAssumption DEF Latest
  <2>2. m \in B /\ Place(B, m) \in Nat /\ Place(B, m) <= Cap
    BY <1>1, PlacesGrow DEF Latest
  <2>3. SUFFICES ASSUME k >= m PROVE FALSE
    BY <2>1, <2>2, <1>1, FiniteThread
  <2>4. {j \in B : j >= k} \in SUBSET {j \in B : j >= m}
    BY <2>1, <2>2, <2>3, <1>1, FiniteThread
  <2>5. IsFiniteSet({j \in B : j >= m})
    BY <1>1, FS_Subset
  <2>6. Place(B, k) <= Place(B, m)
    BY <2>4, <2>5, SmallerSet DEF Place
  <2> QED
    BY <2>1, <2>2, <2>6, ChatAssumption
<1> QED
  BY <1>3, <1>4 DEF Continues

-------------------------------------------------------------------------------
(* Steps.                                                                  *)

LEMMA InitInv == Init => IInv
<1> SUFFICES ASSUME Init PROVE IInv
  OBVIOUS
<1>1. ThreadTyped /\ SummaryTyped
  <2>1. Cardinality({}) = 0 /\ Cardinality({1}) = 1
    BY FS_EmptySet, FS_Singleton
  <2> QED
    BY <2>1 DEF Init, ThreadTyped, SummaryTyped
<1>2. TurnsTyped /\ TurnInv /\ OnlyOne
  BY <1>1 DEF Init, ThreadTyped, TurnsTyped, Idle, Rec, Steps, Mode, TurnInv, Shape,
              AloneShape, OnlyOne
<1>3. Cardinality(stored) <= 1 /\ Cardinality(stored) \in Nat
  BY FS_EmptySet, FS_Singleton DEF Init
<1>4. ~(Cardinality(stored) > Threshold)
  BY <1>3, ChatAssumption
<1> QED
  BY <1>1, <1>2, <1>4 DEF IInv, SummaryInv, MarkIsBehindWindow, UpToDate, Init

\* Turn t moves to y while the thread stays or grows.
LEMMA MoveKeeps ==
    ASSUME IInv, ThreadTyped', clock <= clock', stored \subseteq stored',
           NEW t \in Turn, NEW y \in Rec(clock', stored'),
           turn' = [turn EXCEPT ![t] = y],
           Working(t), y.alone => turn[t].alone,
           Shape(clock', stored', y), AloneShape(stored', sound', y)
    PROVE  TurnsTyped' /\ TurnInv' /\ OnlyOne'
<1>1. IsFiniteSet(stored') /\ clock \in Nat /\ clock' \in Nat
  <2>1. clock \in Nat /\ clock' \in Nat /\ stored' \in SUBSET (1..clock')
    BY DEF IInv, ThreadTyped
  <2>2. IsFiniteSet(1..clock')
    BY <2>1, FS_Interval
  <2> QED
    BY <2>1, <2>2, FS_Subset
<1>2. \A u \in Turn : turn[u] \in Rec(clock, stored)
  BY DEF IInv, TurnsTyped
<1>3. /\ turn'[t] = y
      /\ \A u \in Turn \ {t} : turn'[u] = turn[u]
      /\ DOMAIN turn' = Turn /\ turn' = [u \in Turn |-> turn'[u]]
  BY DEF IInv, TurnsTyped
<1>4. ASSUME NEW u \in Turn
      PROVE  /\ turn'[u] \in Rec(clock', stored')
             /\ Shape(clock', stored', turn'[u])
             /\ AloneShape(stored', sound', turn'[u])
  <2>1. CASE u = t
    BY <2>1, <1>3
  <2>2. CASE u # t
    <3>1. Shape(clock, stored, turn[u])
      BY DEF IInv, TurnInv
    <3>2. turn[u] \in Rec(clock', stored') /\ Shape(clock', stored', turn[u])
      BY <1>1, <1>2, <3>1, ShapeKept
    <3>3. ~turn[u].alone
      BY <2>2 DEF IInv, OnlyOne
    <3> QED
      BY <2>2, <1>3, <3>2, <3>3 DEF AloneShape
  <2> QED
    BY <2>1, <2>2
<1>5. OnlyOne'
  <2>1. \A u \in Turn : turn'[u].alone => turn[u].alone
    BY <1>3
  <2>2. \A u \in Turn : Working(u)' => Working(u)
    BY <1>3 DEF Working, At
  <2> QED
    BY <2>1, <2>2 DEF IInv, OnlyOne
<1> QED
  BY <1>3, <1>4, <1>5 DEF TurnsTyped, TurnInv

\* The other half of the invariant, when only the turn has moved.
LEMMA ReadKeeps ==
    ASSUME IInv, UNCHANGED <<clock, stored, summary, sound>>
    PROVE  ThreadTyped' /\ SummaryTyped' /\ SummaryInv'
BY DEF IInv, ThreadTyped, SummaryTyped, SummaryInv, MarkIsBehindWindow, UpToDate, Latest, Place

\* A turn that moves to y, which relies on nothing new.
LEMMA ReadStep ==
    ASSUME IInv, UNCHANGED <<clock, stored, summary, sound>>,
           NEW t \in Turn, NEW y \in Rec(clock, stored), Move(t, y),
           Working(t), y.alone => turn[t].alone,
           Shape(clock, stored, y), AloneShape(stored, sound, y)
    PROVE  IInv'
<1>1. ThreadTyped' /\ SummaryTyped' /\ SummaryInv'
  BY ReadKeeps
<1>2. clock \in Nat /\ clock' = clock /\ stored' = stored /\ sound' = sound
  BY DEF IInv, ThreadTyped
<1>3. /\ clock <= clock' /\ stored \subseteq stored'
      /\ y \in Rec(clock', stored') /\ Shape(clock', stored', y)
      /\ AloneShape(stored', sound', y)
  BY <1>2
<1>4. turn' = [turn EXCEPT ![t] = y]
  BY DEF Move
<1>5. TurnsTyped' /\ TurnInv' /\ OnlyOne'
  BY <1>1, <1>3, <1>4, MoveKeeps
<1> QED
  BY <1>1, <1>5 DEF IInv

LEMMA IdleFits == \A c \in Nat : \A S, s : Idle \in Rec(c, S) /\ Shape(c, S, Idle) /\ AloneShape(S, s, Idle)
BY DEF Idle, Rec, Steps, Mode, Shape, AloneShape

LEMMA NewTurn ==
    ASSUME NEW c \in Nat, NEW S, NEW s, NEW mode \in Mode, NEW b \in BOOLEAN,
           NEW y, y = [Idle EXCEPT !.pc = "window", !.mode = mode, !.alone = b]
    PROVE  /\ y \in Rec(c, S) /\ Shape(c, S, y) /\ AloneShape(S, s, y)
           /\ y.alone = b /\ y.pc = "window"
<1>1. y = [pc |-> "window", mode |-> mode, alone |-> b, win |-> {}, seen |-> {},
           degraded |-> FALSE, stamp |-> 0, floor |-> 0, older |-> {}]
  BY DEF Idle
<1>2. y \in Rec(c, S)
  <2>1. [pc |-> "window", mode |-> mode, alone |-> b, win |-> {}, seen |-> {},
         degraded |-> FALSE, stamp |-> 0, floor |-> 0, older |-> {}] \in Rec(c, S)
    BY DEF Rec, Steps
  <2> QED
    BY <1>1, <2>1
<1>3. y.pc = "window" /\ y.alone = b
  BY <1>1
<1>4. Shape(c, S, y) /\ AloneShape(S, s, y)
  BY <1>3 DEF Shape, AloneShape
<1> QED
  BY <1>2, <1>3, <1>4

\* A turn that is no longer alone.
LEMMA Joined ==
    ASSUME NEW c \in Nat, NEW S, NEW x \in Rec(c, S), Shape(c, S, x),
           NEW y, y = [x EXCEPT !.alone = FALSE]
    PROVE  y \in Rec(c, S) /\ Shape(c, S, y) /\ ~y.alone /\ y.pc = x.pc
<1>1. y = [pc |-> x.pc, mode |-> x.mode, alone |-> FALSE, win |-> x.win, seen |-> x.seen,
           degraded |-> x.degraded, stamp |-> x.stamp, floor |-> x.floor, older |-> x.older]
  BY DEF Rec
<1> QED
  BY <1>1 DEF Rec, Shape

LEMMA AskStep ==
    ASSUME IInv, NEW t \in Turn, NEW mode \in Mode, Ask(t, mode)
    PROVE  IInv'
<1>1. ThreadTyped' /\ SummaryTyped' /\ SummaryInv'
  BY ReadKeeps DEF Ask
<1>2. clock \in Nat /\ clock' = clock /\ stored' = stored /\ sound' = sound
  BY DEF IInv, ThreadTyped, Ask
<1> DEFINE b == \A v \in Turn : ~Working(v)
           y == [Idle EXCEPT !.pc = "window", !.mode = mode, !.alone = b]
<1>3. /\ y \in Rec(clock, stored) /\ Shape(clock, stored, y) /\ AloneShape(stored, sound, y)
      /\ y.alone = b /\ y.pc = "window"
  BY <1>2, NewTurn
<1>4. /\ turn'[t] = y
      /\ \A u \in Turn \ {t} : turn'[u] = [turn[u] EXCEPT !.alone = FALSE]
      /\ turn' = [u \in Turn |-> turn'[u]]
  BY DEF Ask
<1>5. ASSUME NEW u \in Turn \ {t}
      PROVE  /\ turn'[u] \in Rec(clock, stored) /\ Shape(clock, stored, turn'[u])
             /\ ~turn'[u].alone /\ turn'[u].pc = turn[u].pc
  <2>1. turn[u] \in Rec(clock, stored) /\ Shape(clock, stored, turn[u])
    BY DEF IInv, TurnsTyped, TurnInv
  <2>2. turn'[u] = [turn[u] EXCEPT !.alone = FALSE]
    BY <1>4
  <2>3. clock \in Nat
    BY <1>2
  <2> HIDE DEF y
  <2> QED
    BY <2>1, <2>2, <2>3, Joined
<1> HIDE DEF y
<1>6. TurnsTyped' /\ TurnInv'
  <2>1. \A u \in Turn : turn'[u] \in Rec(clock', stored') /\ Shape(clock', stored', turn'[u])
    BY <1>2, <1>3, <1>4, <1>5
  <2>2. \A u \in Turn : AloneShape(stored', sound', turn'[u])
    BY <1>2, <1>3, <1>4, <1>5 DEF AloneShape
  <2> QED
    BY <2>1, <2>2, <1>4 DEF TurnsTyped, TurnInv
<1>7. OnlyOne'
  <2>1. y.alone => \A u \in Turn \ {t} : ~Working(u)'
    BY <1>3, <1>5 DEF Working, At
  <2> QED
    BY <2>1, <1>4, <1>5 DEF OnlyOne
<1> QED
  BY <1>1, <1>6, <1>7 DEF IInv

LEMMA TurnKnown ==
    ASSUME IInv, NEW t \in Turn
    PROVE  /\ turn[t] \in Rec(clock, stored)
           /\ Shape(clock, stored, turn[t]) /\ AloneShape(stored, sound, turn[t])
BY DEF IInv, TurnsTyped, TurnInv

LEMMA LoadWindowStep ==
    ASSUME IInv, NEW t \in Turn, LoadWindow(t)
    PROVE  IInv'
<1> DEFINE win == Latest(stored, Size(turn[t].mode))
           y == [turn[t] EXCEPT !.pc = IF stored = {} THEN "reply" ELSE "summary", !.win = win]
<1>1. turn[t] \in Rec(clock, stored) /\ At(t, "window")
  BY TurnKnown DEF LoadWindow
<1>2. win \in SUBSET stored
  BY DEF Latest
<1>3. /\ y \in Rec(clock, stored) /\ y.alone = turn[t].alone /\ y.win = win
      /\ y.mode = turn[t].mode /\ y.seen = turn[t].seen
      /\ y.pc = IF stored = {} THEN "reply" ELSE "summary"
  BY <1>1, <1>2 DEF Rec, Steps
<1>4. Told(stored, y) \/ stored # {}
  <2>1. SUFFICES ASSUME stored = {} PROVE Told(stored, y)
    OBVIOUS
  <2>2. Cardinality(stored) = 0
    BY <2>1, FS_EmptySet
  <2> QED
    BY <2>1, <2>2, ChatAssumption DEF Told, UpToDate, Latest
<1>5. Shape(clock, stored, y) /\ AloneShape(stored, sound, y)
  BY <1>3, <1>4 DEF Shape, AloneShape
<1>6. Working(t) /\ Move(t, y) /\ UNCHANGED <<clock, stored, summary, sound>>
  BY DEF LoadWindow, Working, At
<1> HIDE DEF y
<1> QED
  BY <1>3, <1>5, <1>6, ReadStep

\* What a prompt is told, when nothing is stored between the two queries.
LEMMA SummaryIsTold ==
    ASSUME IInv, sound, NEW mode \in Mode, NEW win, win = Latest(stored, Size(mode)),
           NEW seen, seen = IF summary.upTo \in win \cup {0} THEN win
                            ELSE win \cup summary.holds
    PROVE  win \subseteq seen /\ UpToDate(stored, seen)
<1>1. UpToDate(stored, summary.holds) /\ (summary.upTo = 0 => summary.holds = {})
  BY DEF IInv, SummaryInv
<1>2. summary.upTo \notin win \/ summary.upTo = 0
  <2>1. SUFFICES ASSUME summary.upTo \in win, summary.upTo # 0 PROVE FALSE
    OBVIOUS
  <2>2. summary.upTo \in stored /\ Place(stored, summary.upTo) <= Size(mode)
    BY <2>1 DEF Latest
  <2>3. Newer(stored, summary.upTo) >= Deep
    BY <2>1 DEF IInv, SummaryInv, MarkIsBehindWindow, Newer
  <2>4. Place(stored, summary.upTo) = Newer(stored, summary.upTo) + 1
    BY <2>2, PlaceAfterNewer DEF IInv
  <2>5. Newer(stored, summary.upTo) \in Nat
    BY FiniteThread DEF IInv, Newer
  <2>6. Size(mode) <= Deep /\ Size(mode) \in Nat
    BY ChatAssumption DEF Size
  <2> QED
    BY <2>2, <2>3, <2>4, <2>5, <2>6, ChatAssumption
<1>3. summary.holds \subseteq seen
  BY <1>1, <1>2
<1> QED
  BY <1>1, <1>3 DEF UpToDate

LEMMA LoadSummaryStep ==
    ASSUME IInv, NEW t \in Turn, LoadSummary(t)
    PROVE  IInv'
<1> DEFINE seen == IF summary.upTo \in turn[t].win \cup {0} THEN turn[t].win
                   ELSE turn[t].win \cup summary.holds
           y == [turn[t] EXCEPT !.pc = "reply", !.seen = seen]
<1>1. turn[t] \in Rec(clock, stored) /\ AloneShape(stored, sound, turn[t]) /\ At(t, "summary")
  BY TurnKnown DEF LoadSummary
<1>2. seen \in SUBSET stored
  BY <1>1 DEF Rec, IInv, SummaryTyped
<1>3. /\ y \in Rec(clock, stored) /\ y.alone = turn[t].alone /\ y.pc = "reply"
      /\ y.mode = turn[t].mode /\ y.seen = seen /\ y.mode \in Mode
  BY <1>1, <1>2 DEF Rec, Steps
<1>4. y.alone /\ sound => Told(stored, y)
  <2>1. SUFFICES ASSUME y.alone, sound PROVE Told(stored, y)
    OBVIOUS
  <2>2. turn[t].win = Latest(stored, Size(turn[t].mode))
    BY <1>1, <1>3, <2>1 DEF AloneShape, At
  <2>3. turn[t].win \subseteq seen /\ UpToDate(stored, seen)
    BY <1>3, <2>1, <2>2, SummaryIsTold
  <2> QED
    BY <1>3, <2>2, <2>3 DEF Told
<1>5. Shape(clock, stored, y) /\ AloneShape(stored, sound, y)
  BY <1>3, <1>4 DEF Shape, AloneShape
<1>6. Working(t) /\ Move(t, y) /\ UNCHANGED <<clock, stored, summary, sound>>
  BY DEF LoadSummary, Working, At
<1> HIDE DEF y
<1> QED
  BY <1>3, <1>5, <1>6, ReadStep

LEMMA DegradeStep ==
    ASSUME IInv, NEW t \in Turn, Degrade(t)
    PROVE  IInv'
<1>1. turn[t] \in Rec(clock, stored) /\ At(t, "summary")
  BY TurnKnown DEF Degrade
<1>2. PICK told \in {{}, turn[t].win} :
         Move(t, [turn[t] EXCEPT !.pc = "reply", !.degraded = TRUE, !.seen = told])
  BY DEF Degrade
<1> DEFINE y == [turn[t] EXCEPT !.pc = "reply", !.degraded = TRUE, !.seen = told]
<1>3. y \in Rec(clock, stored) /\ y.alone = turn[t].alone /\ y.pc = "reply" /\ y.degraded
  BY <1>1 DEF Rec, Steps
<1>4. Shape(clock, stored, y) /\ AloneShape(stored, sound, y)
  BY <1>3 DEF Shape, AloneShape
<1>5. Working(t) /\ Move(t, y) /\ UNCHANGED <<clock, stored, summary, sound>>
  BY <1>2 DEF Degrade, Working, At
<1> HIDE DEF y
<1> QED
  BY <1>3, <1>4, <1>5, ReadStep

LEMMA ReplyStep ==
    ASSUME IInv, NEW t \in Turn, Reply(t)
    PROVE  IInv'
<1>1. turn[t] \in Rec(clock, stored) /\ At(t, "reply") /\ clock \in Nat
  BY TurnKnown DEF Reply, IInv, ThreadTyped
<1>2. PICK pc \in {"append", "count"} :
         Move(t, [Idle EXCEPT !.pc = pc, !.mode = turn[t].mode, !.alone = turn[t].alone])
  BY DEF Reply
<1> DEFINE y == [Idle EXCEPT !.pc = pc, !.mode = turn[t].mode, !.alone = turn[t].alone]
<1>3. y \in Rec(clock, stored) /\ y.pc = pc /\ y.alone = turn[t].alone
  <2>1. Idle \in Rec(clock, stored) /\ turn[t].mode \in Mode /\ turn[t].alone \in BOOLEAN
    BY <1>1, IdleFits DEF Rec
  <2> QED
    BY <2>1 DEF Rec, Steps
<1>6. Shape(clock, stored, y) /\ AloneShape(stored, sound, y)
  BY <1>3 DEF Shape, AloneShape
<1>5. Working(t) /\ Move(t, y) /\ UNCHANGED <<clock, stored, summary, sound>>
  BY <1>2 DEF Reply, Working, At
<1> HIDE DEF y
<1> QED
  BY <1>3, <1>6, <1>5, ReadStep

LEMMA InsertPairStep ==
    ASSUME IInv, NEW t \in Turn, InsertPair(t)
    PROVE  IInv'
<1> DEFINE y == [turn[t] EXCEPT !.pc = "commit", !.stamp = clock + 1]
<1>1. /\ turn[t] \in Rec(clock, stored) /\ At(t, "append")
      /\ clock' = clock + 2 /\ UNCHANGED <<stored, summary, sound>>
      /\ turn' = [turn EXCEPT ![t] = y]
  BY TurnKnown DEF InsertPair, Move
<1>2. ThreadTyped' /\ SummaryTyped'
  BY <1>1 DEF IInv, ThreadTyped, SummaryTyped
<1>3. SummaryInv'
  BY <1>1 DEF IInv, SummaryInv, MarkIsBehindWindow, UpToDate, Latest, Place
<1>4. clock \in Nat
  BY DEF IInv, ThreadTyped
<1>5. /\ y \in Rec(clock', stored') /\ y.alone = turn[t].alone /\ y.pc = "commit"
      /\ y.stamp # 0 /\ y.stamp + 1 <= clock'
  <2>1. turn[t] \in Rec(clock', stored')
    BY <1>1, <1>4 DEF Rec
  <2>2. clock + 1 \in 0..clock' /\ "commit" \in Steps
    BY <1>1, <1>4 DEF Steps
  <2>3. y \in Rec(clock', stored') /\ y.alone = turn[t].alone
    BY <2>1, <2>2 DEF Rec
  <2>4. y.pc = "commit" /\ y.stamp = clock + 1
    BY <2>1 DEF Rec
  <2> QED
    BY <2>3, <2>4, <1>1, <1>4
<1>6. Shape(clock', stored', y) /\ AloneShape(stored', sound', y)
  BY <1>5 DEF Shape, AloneShape
<1>7. Working(t) /\ clock <= clock' /\ stored \subseteq stored'
  BY <1>1, <1>4 DEF Working, At
<1> HIDE DEF y
<1> QED
  BY <1>1, <1>2, <1>3, <1>5, <1>6, <1>7, MoveKeeps DEF IInv

LEMMA CommitPairStep ==
    ASSUME IInv, NEW t \in Turn, CommitPair(t)
    PROVE  IInv'
<1> DEFINE y == [turn[t] EXCEPT !.pc = "count"]
<1>1. /\ turn[t] \in Rec(clock, stored) /\ At(t, "commit") /\ Shape(clock, stored, turn[t])
      /\ stored' = stored \cup {turn[t].stamp, turn[t].stamp + 1}
      /\ sound' = FALSE /\ UNCHANGED <<clock, summary>>
      /\ turn' = [turn EXCEPT ![t] = y]
  BY TurnKnown DEF CommitPair, Move
<1>2. clock \in Nat /\ stored \subseteq 1..clock /\ clock' = clock /\ stored \subseteq stored'
  BY <1>1 DEF IInv, ThreadTyped
<1>3. turn[t].stamp \in 1..clock /\ turn[t].stamp + 1 <= clock
  BY <1>1 DEF Rec, Shape, At
<1>4. ThreadTyped' /\ clock <= clock'
  <2>1. turn[t].stamp \in 1..clock' /\ turn[t].stamp + 1 \in 1..clock' /\ stored \subseteq 1..clock'
    BY <1>2, <1>3
  <2>2. stored' \subseteq 1..clock'
    BY <1>1, <2>1
  <2>3. clock' \in Nat /\ clock <= clock'
    BY <1>2
  <2>4. sound' \in BOOLEAN
    BY <1>1
  <2> QED
    BY <2>2, <2>3, <2>4 DEF ThreadTyped
<1>5. SummaryTyped'
  BY <1>1, <1>2 DEF IInv, SummaryTyped
<1>6. SummaryInv'
  <2>1. IsFiniteSet(stored')
    BY <1>1, FiniteThread, AddPair DEF IInv
  <2>2. Newer(stored, summary.upTo) \in Nat /\ Newer(stored', summary.upTo) \in Nat
        /\ Newer(stored, summary.upTo) <= Newer(stored', summary.upTo)
    BY <1>2, <2>1, PlacesGrow
  <2>3. MarkIsBehindWindow'
    BY <1>1, <2>2, ChatAssumption DEF IInv, SummaryInv, MarkIsBehindWindow, Newer
  <2> QED
    BY <1>1, <2>3 DEF IInv, SummaryInv
<1>7. y \in Rec(clock', stored') /\ y.pc = "count" /\ y.alone = turn[t].alone
  <2>1. turn[t] \in Rec(clock', stored')
    BY <1>1, <1>2 DEF Rec
  <2> QED
    BY <2>1 DEF Rec, Steps
<1>8. Shape(clock', stored', y) /\ AloneShape(stored', sound', y) /\ Working(t)
  BY <1>1, <1>7 DEF Shape, AloneShape, Working, At
<1> HIDE DEF y
<1> QED
  BY <1>1, <1>2, <1>4, <1>5, <1>6, <1>7, <1>8, MoveKeeps DEF IInv

LEMMA SaveFailsStep ==
    ASSUME IInv, NEW t \in Turn, SaveFails(t)
    PROVE  IInv'
<1> DEFINE y == [turn[t] EXCEPT !.pc = "count"]
<1>1. turn[t] \in Rec(clock, stored)
  BY TurnKnown
<1>2. y \in Rec(clock, stored) /\ y.pc = "count" /\ y.alone = turn[t].alone
  BY <1>1 DEF Rec, Steps
<1>3. Shape(clock, stored, y) /\ AloneShape(stored, sound, y)
  BY <1>2 DEF Shape, AloneShape
<1>4. Working(t) /\ Move(t, y) /\ UNCHANGED <<clock, stored, summary, sound>>
  BY DEF SaveFails, Working, At
<1> HIDE DEF y
<1> QED
  BY <1>2, <1>3, <1>4, ReadStep

\* A turn that ends, with a summary that is up to date if it says so.
LEMMA EndKeeps ==
    ASSUME IInv, NEW t \in Turn, Working(t), Move(t, Idle),
           UNCHANGED <<clock, stored>>, sound' \in BOOLEAN, SummaryTyped', SummaryInv'
    PROVE  IInv'
<1>1. clock \in Nat /\ clock' = clock /\ stored' = stored /\ ThreadTyped'
  BY DEF IInv, ThreadTyped
<1>2. /\ clock <= clock' /\ stored \subseteq stored'
      /\ Idle \in Rec(clock', stored') /\ Shape(clock', stored', Idle)
      /\ AloneShape(stored', sound', Idle)
  BY <1>1, IdleFits
<1>3. ~Idle.alone /\ turn' = [turn EXCEPT ![t] = Idle]
  BY DEF Idle, Move
<1>4. TurnsTyped' /\ TurnInv' /\ OnlyOne'
  BY <1>1, <1>2, <1>3, MoveKeeps
<1> QED
  BY <1>1, <1>4 DEF IInv

LEMMA CountStep ==
    ASSUME IInv, NEW t \in Turn, Count(t)
    PROVE  IInv'
<1>1. At(t, "count") /\ UNCHANGED <<clock, stored, summary>> /\ Working(t)
  BY DEF Count, Working, At
<1>2. CASE Cardinality(stored) <= Threshold
  <2>1. Move(t, Idle) /\ sound' = (sound \/ turn[t].alone)
    BY <1>2 DEF Count
  <2>2. sound' \in BOOLEAN
    BY <2>1
  <2>3. SummaryTyped'
    BY <1>1 DEF IInv, SummaryTyped
  <2>4. Cardinality(stored) \in Nat
    BY FiniteThread DEF IInv
  <2>5. SummaryInv'
    BY <1>1, <1>2, <2>4, ChatAssumption DEF IInv, SummaryInv, MarkIsBehindWindow, UpToDate
  <2> QED
    BY <1>1, <2>1, <2>2, <2>3, <2>5, EndKeeps
<1>3. CASE ~(Cardinality(stored) <= Threshold)
  <2> DEFINE y == [turn[t] EXCEPT !.pc = "floor"]
  <2>1. Move(t, y) /\ UNCHANGED <<clock, stored, summary, sound>>
    BY <1>1, <1>3 DEF Count
  <2>2. y \in Rec(clock, stored) /\ y.pc = "floor" /\ y.alone = turn[t].alone
    BY TurnKnown DEF Rec, Steps
  <2>3. Shape(clock, stored, y) /\ AloneShape(stored, sound, y)
    BY <2>2 DEF Shape, AloneShape
  <2> HIDE DEF y
  <2> QED
    BY <1>1, <2>1, <2>2, <2>3, ReadStep
<1> QED
  BY <1>2, <1>3

LEMMA ReadFloorStep ==
    ASSUME IInv, NEW t \in Turn, ReadFloor(t)
    PROVE  IInv'
<1>1. PICK o \in stored : /\ Place(stored, o) = Deep
                          /\ Move(t, [turn[t] EXCEPT !.pc = "older", !.floor = o])
  BY DEF ReadFloor
<1> DEFINE y == [turn[t] EXCEPT !.pc = "older", !.floor = o]
<1>2. y \in Rec(clock, stored) /\ y.pc = "older" /\ y.alone = turn[t].alone /\ y.floor = o
  BY TurnKnown DEF Rec, Steps
<1>3. Shape(clock, stored, y) /\ AloneShape(stored, sound, y)
  BY <1>1, <1>2, ChatAssumption DEF Shape, AloneShape
<1>4. Working(t) /\ Move(t, y) /\ UNCHANGED <<clock, stored, summary, sound>>
  BY <1>1 DEF ReadFloor, Working, At
<1> HIDE DEF y
<1> QED
  BY <1>2, <1>3, <1>4, ReadStep

LEMMA ReadOlderStep ==
    ASSUME IInv, NEW t \in Turn, ReadOlder(t)
    PROVE  IInv'
<1> DEFINE f == turn[t].floor
           older == Latest(Before(stored, f), Cap)
           y == [turn[t] EXCEPT !.pc = "upsert", !.older = older]
<1>1. /\ turn[t] \in Rec(clock, stored) /\ At(t, "older")
      /\ f \in stored /\ Place(stored, f) >= Deep
      /\ turn[t].alone => Place(stored, f) = Deep
  BY TurnKnown DEF ReadOlder, Shape, AloneShape, At
<1>2. older \in SUBSET Before(stored, f) /\ older \in SUBSET stored
  BY DEF Latest, Before
<1>3. /\ y \in Rec(clock, stored) /\ y.pc = "upsert" /\ y.alone = turn[t].alone
      /\ y.older = older
  BY <1>1, <1>2 DEF Rec, Steps
<1>4. ASSUME NEW m \in older
      PROVE  Newer(stored, m) >= Deep
  <2>1. Newer(stored, m) >= Place(stored, f)
    BY <1>1, <1>2, BeforeHasNewer DEF IInv
  <2>2. Newer(stored, m) \in Nat /\ Place(stored, f) \in Nat
    BY FiniteThread DEF IInv, Newer, Place
  <2> QED
    BY <1>1, <2>1, <2>2, ChatAssumption
<1>5. turn[t].alone => UpToDate(stored, older) /\ Continues(stored, older)
  BY <1>1, OlderIsUpToDate DEF IInv
<1>6. Shape(clock, stored, y) /\ AloneShape(stored, sound, y)
  BY <1>3, <1>4, <1>5 DEF Shape, AloneShape
<1>7. Working(t) /\ Move(t, y) /\ UNCHANGED <<clock, stored, summary, sound>>
  BY DEF ReadOlder, Working, At
<1> HIDE DEF y
<1> QED
  BY <1>3, <1>6, <1>7, ReadStep

LEMMA UpsertStep ==
    ASSUME IInv, NEW t \in Turn, Upsert(t)
    PROVE  IInv'
<1>1. PICK m \in turn[t].older : /\ \A k \in turn[t].older : k <= m
                                 /\ summary' = [upTo |-> m, holds |-> turn[t].older]
  BY DEF Upsert
<1>2. /\ At(t, "upsert") /\ Working(t) /\ Move(t, Idle)
      /\ sound' = turn[t].alone /\ UNCHANGED <<clock, stored>>
  BY DEF Upsert, Working, At
<1>3. /\ turn[t].alone \in BOOLEAN /\ turn[t].older \in SUBSET stored
      /\ Newer(stored, m) >= Deep
      /\ turn[t].alone => UpToDate(stored, turn[t].older)
  BY <1>2, TurnKnown DEF Rec, Shape, AloneShape, At
<1>4. clock \in Nat /\ stored \subseteq 1..clock
  BY DEF IInv, ThreadTyped
<1>5. SummaryTyped'
  <2>1. clock' = clock /\ stored' = stored
    BY <1>2
  <2>2. m \in stored
    BY <1>3
  <2>3. m \in 1..clock
    BY <2>2, <1>4
  <2>4. m \in 0..clock
    BY <2>3, <1>4
  <2>5. m \in 0..clock' /\ turn[t].older \in SUBSET stored'
    BY <2>1, <2>4, <1>3
  <2> QED
    BY <1>1, <2>5 DEF SummaryTyped
<1>6. SummaryInv'
  <2>1. summary'.upTo = m /\ summary'.holds = turn[t].older /\ m # 0
    BY <1>1, <1>3, <1>4
  <2>2. MarkIsBehindWindow'
    BY <2>1, <1>2, <1>3 DEF MarkIsBehindWindow, Newer
  <2>3. (sound => UpToDate(stored, summary.holds))'
    BY <2>1, <1>2, <1>3 DEF UpToDate
  <2> QED
    BY <2>1, <2>2, <2>3 DEF SummaryInv
<1> QED
  BY <1>2, <1>3, <1>5, <1>6, EndKeeps

LEMMA EndStep ==
    ASSUME IInv, NEW t \in Turn, End(t)
    PROVE  IInv'
<1>1. SummaryTyped' /\ SummaryInv' /\ sound' \in BOOLEAN
  BY ReadKeeps DEF End, IInv, ThreadTyped
<1> QED
  BY <1>1, EndKeeps DEF End

-------------------------------------------------------------------------------
(* The theorems.                                                           *)

LEMMA Inductive == IInv /\ [Next]_vars => IInv'
<1> SUFFICES ASSUME IInv, [Next]_vars PROVE IInv'
  OBVIOUS
<1>1. CASE UNCHANGED vars
  BY <1>1 DEF vars, IInv, ThreadTyped, SummaryTyped, TurnsTyped, TurnInv, OnlyOne, Working, At,
              SummaryInv, MarkIsBehindWindow, Shape, AloneShape, Told, UpToDate, Continues,
              Latest, Place, Newer
<1>2. ASSUME NEW t \in Turn, Step(t)
      PROVE  IInv'
  <2>1. ASSUME NEW mode \in Mode, Ask(t, mode) PROVE IInv'
    BY <2>1, AskStep
  <2>2. CASE LoadWindow(t)
    BY <2>2, LoadWindowStep
  <2>3. CASE LoadSummary(t)
    BY <2>3, LoadSummaryStep
  <2>4. CASE Degrade(t)
    BY <2>4, DegradeStep
  <2>5. CASE Reply(t)
    BY <2>5, ReplyStep
  <2>6. CASE InsertPair(t)
    BY <2>6, InsertPairStep
  <2>7. CASE CommitPair(t)
    BY <2>7, CommitPairStep
  <2>8. CASE SaveFails(t)
    BY <2>8, SaveFailsStep
  <2>9. CASE Count(t)
    BY <2>9, CountStep
  <2>10. CASE ReadFloor(t)
    BY <2>10, ReadFloorStep
  <2>11. CASE ReadOlder(t)
    BY <2>11, ReadOlderStep
  <2>12. CASE Upsert(t)
    BY <2>12, UpsertStep
  <2>13. CASE End(t)
    BY <2>13, EndStep
  <2> QED
    BY <1>2, <2>1, <2>2, <2>3, <2>4, <2>5, <2>6, <2>7, <2>8, <2>9, <2>10, <2>11, <2>12, <2>13
       DEF Step
<1> QED
  BY <1>1, <1>2 DEF Next

\* The invariant holds in every state.
THEOREM Invariance == Spec => []IInv
BY InitInv, Inductive, PTL DEF Spec

\* Types: what turns and the summary refer to has been committed.
THEOREM Typed == Spec => []TypeOK
<1>1. IInv => TypeOK
  BY DEF IInv, TypeOK, ThreadTyped, SummaryTyped, TurnsTyped, Rec
<1> QED
  BY <1>1, Invariance, PTL

\* However turns overlap, the mark of the summary is behind every deep-dive
\* window that is read after it.
THEOREM MarkBehind == Spec => []MarkIsBehindWindow
<1>1. IInv => MarkIsBehindWindow
  BY DEF IInv, SummaryInv
<1> QED
  BY <1>1, Invariance, PTL

\* A turn that is alone after an undisturbed refresh tells the model the last
\* messages and the ones the summary is for.
THEOREM PromptComplete == Spec => []PromptIsComplete
<1>1. IInv => PromptIsComplete
  BY DEF IInv, TurnInv, AloneShape, Told, UpToDate, PromptIsComplete, Answering, At
<1> QED
  BY <1>1, Invariance, PTL

\* Only an overtaken refresh moves the mark of the summary back.
THEOREM MarkAdvances == Spec => MarkGoesBackOnlyWhenOvertaken
<1>1. ASSUME IInv, [Next]_vars
      PROVE  [sound' => summary'.upTo >= summary.upTo]_vars
  <2>1. SUFFICES ASSUME sound', summary' # summary
                 PROVE  summary'.upTo >= summary.upTo
    <3>1. summary.upTo \in Nat
      BY <1>1 DEF IInv, SummaryTyped, ThreadTyped
    <3>2. summary' = summary => summary'.upTo >= summary.upTo
      BY <3>1
    <3> QED
      BY <3>2
  <2>2. PICK t \in Turn : Upsert(t)
    BY <1>1, <2>1 DEF Next, Step, vars, Ask, LoadWindow, LoadSummary, Degrade, Reply, InsertPair,
                      CommitPair, SaveFails, Count, ReadFloor, ReadOlder, End
  <2>3. PICK m \in turn[t].older : summary'.upTo = m /\ \A k \in turn[t].older : k <= m
    BY <2>2 DEF Upsert
  <2>4. At(t, "upsert") /\ turn[t].alone
    BY <2>1, <2>2 DEF Upsert
  <2>5. turn[t].older \in SUBSET stored /\ Continues(stored, turn[t].older)
    BY <1>1, <2>4, TurnKnown DEF Rec, AloneShape, At
  <2>6. stored \subseteq Nat /\ m \in Nat /\ summary.upTo \in Nat
    <3>1. stored \subseteq Nat
      BY <1>1, FiniteThread DEF IInv
    <3>2. summary.upTo \in Nat
      BY <1>1 DEF IInv, SummaryTyped, ThreadTyped
    <3> QED
      BY <3>1, <3>2, <2>3, <2>5
  <2>7. CASE summary.upTo = 0
    BY <2>3, <2>6, <2>7
  <2>8. CASE summary.upTo # 0
    <3>1. summary.upTo \in stored /\ Newer(stored, summary.upTo) >= Deep
      BY <1>1, <2>8 DEF IInv, SummaryInv, MarkIsBehindWindow, SummaryTyped, Newer
    <3>2. Place(stored, summary.upTo) = Newer(stored, summary.upTo) + 1
      BY <1>1, <3>1, PlaceAfterNewer DEF IInv
    <3>3. Newer(stored, summary.upTo) \in Nat
      BY <1>1, FiniteThread DEF IInv, Newer
    <3>4. Place(stored, summary.upTo) > Deep
      BY <3>1, <3>2, <3>3, ChatAssumption
    <3>5. summary.upTo \in turn[t].older \/ \A k \in turn[t].older : summary.upTo < k
      BY <2>5, <3>1, <3>4 DEF Continues
    <3>6. summary.upTo <= m
      BY <2>3, <2>6, <3>5
    <3> QED
      BY <2>3, <2>6, <3>6
  <2> QED
    BY <2>7, <2>8
<1> QED
  BY <1>1, Invariance, PTL DEF Spec, MarkGoesBackOnlyWhenOvertaken
=================================================================================
