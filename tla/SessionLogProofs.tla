-------------------------- MODULE SessionLogProofs --------------------------
(***************************************************************************)
(* Proofs about the log of a session, in two parts.                         *)
(*                                                                          *)
(* Its recovery (SessionRecovery), for every number of turns, steps, calls  *)
(* and crashes.  What the scans of a log compute is a fold, so the lemmas   *)
(* are inductions over its length, stated with least numbers.  The          *)
(* invariant says that every prefix of the log is a log whose trace, whose  *)
(* scan and whose heard calls agree (Good), and where the driver stands.    *)
(*                                                                          *)
(* Its write path (WriteBehind), for every number of events and every set   *)
(* of callers.                                                              *)
(***************************************************************************)
EXTENDS SessionRecovery, WriteBehind, SequenceTheorems, WellFoundedInduction, TLAPS

(***************************************************************************)
(* Induction over numbers, folds and sequences.                             *)
(***************************************************************************)

\* Every nonempty set of numbers has a least member.
LEMMA LeastNumber ==
    ASSUME NEW S \in SUBSET Nat, S # {}
    PROVE  \E x \in S : \A y \in S : x <= y
<1> DEFINE R == OpToRel(<, Nat)
<1>1. IsWellFoundedOn(R, Nat)
  BY NatLessThanWellFounded
<1>2. \A x, y \in Nat : y < x => <<y, x>> \in R
  BY DEF OpToRel
<1> HIDE DEF R
<1>3. PICK x \in S : \A y \in S : ~ (<<y, x>> \in R)
  BY <1>1, WFMin
<1>4. \A y \in S : x <= y
  <2> TAKE y \in S
  <2>1. x \in Nat /\ y \in Nat /\ ~(y < x)
    BY <1>2, <1>3
  <2> QED
    BY <2>1
<1> QED
  BY <1>4

\* Induction up to a number, over the set of numbers a statement holds of.
LEMMA UpTo ==
    ASSUME NEW N \in Nat, NEW S,
           0 \in S, \A n \in 0..(N - 1) : n \in S => n + 1 \in S
    PROVE  \A n \in 0..N : n \in S
<1> SUFFICES ASSUME \E n \in 0..N : n \notin S PROVE FALSE
  OBVIOUS
<1> DEFINE Bad == {n \in 0..N : n \notin S}
<1>1. Bad \in SUBSET Nat /\ Bad # {}
  OBVIOUS
<1>2. PICK x \in Bad : \A y \in Bad : x <= y
  BY <1>1, LeastNumber
<1>3. x \in 0..N /\ x \notin S /\ x # 0
  BY <1>2
<1>4. x - 1 \in 0..(N - 1) /\ x - 1 \in 0..N /\ ~(x <= x - 1) /\ (x - 1) + 1 = x
  BY <1>3
<1>5. x - 1 \in S
  BY <1>2, <1>4
<1> QED
  BY <1>3, <1>4, <1>5

\* A function that starts at a and steps by G.
Steps(f, N, a, G) == f[0] = a /\ \A n \in 1..N : f[n] = G[<<f[n - 1], n>>]

\* A function on 0..N may be defined by its first value and a step from each
\* value to the next one.
LEMMA FoldExists ==
    ASSUME NEW T, NEW N \in Nat, NEW a \in T, NEW G \in [T \X (1..N) -> T]
    PROVE  \E f \in [0..N -> T] : Steps(f, N, a, G)
<1> DEFINE Is(f, k) == Steps(f, k, a, G)
           S == {k \in 0..N : \E f \in [0..N -> T] : Is(f, k)}
<1>0. \A k \in 0..N : k \in S <=> \E f \in [0..N -> T] : Is(f, k)
  OBVIOUS
<1> HIDE DEF S
<1>1. 0 \in S
  <2> DEFINE f == [n \in 0..N |-> a]
  <2>1. f \in [0..N -> T] /\ f[0] = a
    OBVIOUS
  <2>2. Is(f, 0)
    BY <2>1 DEF Steps
  <2> HIDE DEF f, Is
  <2>3. 0 \in 0..N
    OBVIOUS
  <2> QED
    BY <1>0, <2>1, <2>2, <2>3
<1>2. \A k \in 0..(N - 1) : k \in S => k + 1 \in S
  <2> SUFFICES ASSUME NEW k \in 0..(N - 1), k \in S PROVE k + 1 \in S
    OBVIOUS
  <2>2. k + 1 \in 1..N /\ k \in 0..N /\ k + 1 \in 0..N /\ 0 \in 0..N /\ k + 1 # 0
    OBVIOUS
  <2>1. PICK f \in [0..N -> T] : Is(f, k)
    <3> HIDE DEF Is
    <3> QED
      BY <1>0, <2>2
  <2> DEFINE v == G[<<f[k], k + 1>>]
             g == [f EXCEPT ![k + 1] = v]
  <2>3. f[k] \in T /\ <<f[k], k + 1>> \in T \X (1..N)
    BY <2>2
  <2>4. v \in T
    BY <2>3
  <2> HIDE DEF v
  <2>5. g \in [0..N -> T]
    BY <2>4
  <2>6. g[0] = a
    BY <2>1, <2>2 DEF Steps
  <2>8. g[k + 1] = v /\ \A n \in 0..N : n # k + 1 => g[n] = f[n]
    BY <2>2
  <2> HIDE DEF g
  <2>7. ASSUME NEW n \in 1..(k + 1) PROVE g[n] = G[<<g[n - 1], n>>]
    <3>1. n - 1 \in 0..N /\ n - 1 # k + 1 /\ n \in 0..N
      BY <2>2
    <3>2. g[n - 1] = f[n - 1]
      BY <3>1, <2>8
    <3>3. CASE n = k + 1
      <4>1. n - 1 = k
        BY <3>3
      <4> QED
        BY <3>2, <3>3, <4>1, <2>8 DEF v
    <3>4. CASE n # k + 1
      <4>1. n \in 1..k
        BY <3>4
      <4> QED
        BY <4>1, <3>1, <3>2, <3>4, <2>8, <2>1 DEF Steps
    <3> QED
      BY <3>3, <3>4
  <2>9. Is(g, k + 1)
    BY <2>6, <2>7 DEF Steps
  <2> HIDE DEF Is
  <2> QED
    BY <1>0, <2>2, <2>5, <2>9
<1>3. \A n \in 0..N : n \in S
  BY <1>1, <1>2, UpTo
<1>4. N \in 0..N
  OBVIOUS
<1>5. \E f \in [0..N -> T] : Is(f, N)
  <2> HIDE DEF Is
  <2> QED
    BY <1>0, <1>3, <1>4
<1> QED
  BY <1>5

\* Two functions that start alike and step alike agree.
StepAlike(f, g, N) == f[0] = g[0] /\ \A n \in 1..N : f[n - 1] = g[n - 1] => f[n] = g[n]
Agree(f, g, N) == \A n \in 0..N : f[n] = g[n]

\* Two folds that start alike and step alike agree everywhere.
LEMMA FoldUnique ==
    ASSUME NEW N \in Nat, NEW f, NEW g, StepAlike(f, g, N)
    PROVE  Agree(f, g, N)
<1> DEFINE S == {n \in 0..N : f[n] = g[n]}
<1>1. 0 \in S
  BY DEF StepAlike
<1>2. \A n \in 0..(N - 1) : n \in S => n + 1 \in S
  <2> SUFFICES ASSUME NEW n \in 0..(N - 1), n \in S PROVE n + 1 \in S
    OBVIOUS
  <2>1. n + 1 \in 1..N /\ n + 1 \in 0..N /\ (n + 1) - 1 = n /\ f[n] = g[n]
    OBVIOUS
  <2> QED
    BY <2>1 DEF StepAlike
<1> HIDE DEF S
<1>3. \A n \in 0..N : n \in S
  BY <1>1, <1>2, UpTo
<1> QED
  BY <1>3 DEF S, Agree

(***************************************************************************)
(* Types of the events, and of what the folds remember.                     *)
(***************************************************************************)

Ids == Nat \X Nat \X Nat
Codes == {"ran", "refused", "notStarted", "unknown"}

TurnEvents == [type : {"turn/start", "turn/end"}, turn : Nat]
StepEvents == [type : {"step/start", "step/end"}, turn : Nat, step : Nat]
Messages == [type : {"assistant/message"}, turn : Nat, step : Nat, calls : Seq(Ids)]
Started == [type : {"tool/call"}, turn : Nat, step : Nat, call : Ids]
Results == [type : {"tool/result"}, turn : Nat, step : Nat, call : Ids, code : Codes,
            synthetic : BOOLEAN]
Event == TurnEvents \cup StepEvents \cup Messages \cup Started \cup Results

Scans == [openTurn : Nat, openStep : Nat, pending : Seq(Ids), recorded : SUBSET Ids]
Hearings == [asked : Seq(Ids), answered : Seq(Ids)]
Observed == [trace : Traces(Ids), legal : BOOLEAN]

Fresh == [openTurn |-> Null, openStep |-> Null, pending |-> <<>>, recorded |-> {}]
ScanOf(events) == Over(Scan, Fresh, events)
Unheard == [asked |-> <<>>, answered |-> <<>>]
Unseen == [trace |-> ClosedAfter(0), legal |-> TRUE]
Observation(events) == Over(Observe, Unseen, events)

\* Min of a nonempty set of numbers is its least member.
LEMMA LeastIs ==
    ASSUME NEW S \in SUBSET Nat, S # {}
    PROVE  Min(S) \in S /\ \A y \in S : Min(S) <= y
<1>1. \E x \in S : \A y \in S : x <= y
  BY LeastNumber
<1> QED
  BY <1>1 DEF Min

\* The first occurrence of a member is removed.
LEMMA RemoveType ==
    ASSUME NEW T, NEW s \in Seq(T), NEW x
    PROVE  RemoveFirst(s, x) \in Seq(T)
<1> DEFINE I == {i \in 1..Len(s) : s[i] = x}
<1>1. CASE ~ \E i \in 1..Len(s) : s[i] = x
  BY <1>1 DEF RemoveFirst
<1>2. CASE \E i \in 1..Len(s) : s[i] = x
  <2>1. I \in SUBSET Nat /\ I # {}
    BY <1>2
  <2>2. Min(I) \in 1..Len(s)
    BY <2>1, LeastIs
  <2>3. SelectInSeq(s, LAMBDA v : v = x) = Min(I)
    BY <2>1 DEF SelectInSeq
  <2>4. RemoveFirst(s, x) = RemoveAt(s, Min(I))
    BY <1>2, <2>3 DEF RemoveFirst
  <2> HIDE DEF I
  <2>5. SubSeq(s, 1, Min(I) - 1) \in Seq(T) /\ SubSeq(s, Min(I) + 1, Len(s)) \in Seq(T)
    BY <2>2, SubSeqProperties
  <2> QED
    BY <2>4, <2>5 DEF RemoveAt
<1> QED
  BY <1>1, <1>2

\* Of the first member of a sequence, that is the first one.
LEMMA RemoveHead ==
    ASSUME NEW T, NEW s \in Seq(T), s # <<>>
    PROVE  RemoveFirst(s, s[1]) = Tail(s)
<1> DEFINE I == {i \in 1..Len(s) : s[i] = s[1]}
<1>1. 1 \in 1..Len(s)
  BY EmptySeq, LenProperties
<1>2. I \in SUBSET Nat /\ I # {} /\ 1 \in I
  BY <1>1
<1>3. Min(I) = 1
  <2>1. Min(I) \in 1..Len(s) /\ Min(I) <= 1
    BY <1>2, LeastIs
  <2> QED
    BY <2>1
<1>4. SelectInSeq(s, LAMBDA v : v = s[1]) = 1
  BY <1>2, <1>3 DEF SelectInSeq
<1>5. RemoveFirst(s, s[1]) = RemoveAt(s, 1)
  BY <1>1, <1>4 DEF RemoveFirst
<1>6. RemoveAt(s, 1) = Tail(s)
  BY <1>1 DEF RemoveAt
<1> QED
  BY <1>5, <1>6

\* What an event is says which fields it has.
LEMMA EventFields ==
    ASSUME NEW e \in Event
    PROVE  /\ e.turn \in Nat
           /\ e.type \in {"turn/start", "turn/end"} => e \in TurnEvents
           /\ e.type \in {"step/start", "step/end"} => e \in StepEvents /\ e.step \in Nat
           /\ e.type = "assistant/message" =>
                e \in Messages /\ e.step \in Nat /\ e.calls \in Seq(Ids)
           /\ e.type = "tool/call" => e \in Started /\ e.step \in Nat /\ e.call \in Ids
           /\ e.type = "tool/result" =>
                e \in Results /\ e.step \in Nat /\ e.call \in Ids /\ e.code \in Codes
           /\ e.type \in {"turn/start", "turn/end", "step/start", "step/end",
                          "assistant/message", "tool/call", "tool/result"}
BY DEF Event, TurnEvents, StepEvents, Messages, Started, Results

\* The scan of repair.ts stays typed.
LEMMA ScanType ==
    ASSUME NEW s \in Scans, NEW e \in Event
    PROVE  Scan(s, e) \in Scans
<1>0. /\ s.pending \in Seq(Ids) /\ s.recorded \in SUBSET Ids
      /\ s.openTurn \in Nat /\ s.openStep \in Nat
  BY DEF Scans
<1>1. CASE e.type \in {"turn/start", "turn/end", "step/start", "step/end"}
  <2>1. e.turn \in Nat /\ (e.type = "step/start" => e.step \in Nat)
    BY EventFields
  <2>2. CASE e.type \in {"turn/start", "turn/end"}
    BY <2>1, <2>2 DEF Scan, Scans, Null
  <2>3. CASE e.type = "step/start"
    <3>1. Scan(s, e) = [s EXCEPT !.openStep = e.step]
      BY <2>3 DEF Scan
    <3> QED
      BY <2>1, <2>3, <3>1 DEF Scans
  <2>4. CASE e.type = "step/end"
    <3>1. Scan(s, e) = [s EXCEPT !.openStep = 0, !.pending = <<>>, !.recorded = {}]
      BY <2>4 DEF Scan, Null
    <3>2. 0 \in Nat /\ <<>> \in Seq(Ids) /\ {} \in SUBSET Ids
      OBVIOUS
    <3> QED
      BY <3>1, <3>2, Zenon DEF Scans
  <2> QED
    BY <1>1, <2>2, <2>3, <2>4
<1>2. CASE e.type = "assistant/message"
  <2>1. e.calls \in Seq(Ids)
    BY <1>2, EventFields
  <2>2. s.pending \o e.calls \in Seq(Ids)
    BY <1>0, <2>1, ConcatProperties
  <2>3. Scan(s, e) = [s EXCEPT !.pending = s.pending \o e.calls]
    BY <1>2 DEF Scan
  <2> QED
    BY <2>2, <2>3 DEF Scans
<1>3. CASE e.type = "tool/call"
  <2>1. e.call \in Ids
    BY <1>3, EventFields
  <2>2. Scan(s, e) = [s EXCEPT !.recorded = s.recorded \cup ({e.call} \cap ToSet(s.pending))]
    BY <1>3 DEF Scan
  <2> QED
    BY <1>0, <2>1, <2>2 DEF Scans
<1>4. CASE e.type = "tool/result"
  <2>1. RemoveFirst(s.pending, e.call) \in Seq(Ids)
    BY <1>0, RemoveType
  <2>2. Scan(s, e) = [s EXCEPT !.pending = RemoveFirst(s.pending, e.call)]
    BY <1>4 DEF Scan, Delete
  <2> QED
    BY <2>1, <2>2 DEF Scans
<1> QED
  BY <1>1, <1>2, <1>3, <1>4, EventFields

\* So does the trace of the session companion.
LEMMA AdvanceType ==
    ASSUME NEW t \in Traces(Ids), NEW e \in Event
    PROVE  Advance(t, e) \in Traces(Ids)
<1>0. /\ t.openTurn \in Nat /\ t.openStep \in Nat /\ t.nextTurn \in Nat /\ t.nextStep \in Nat
      /\ t.pendingCalls \in SUBSET Ids
  BY DEF Traces
<1>1. CASE e.type \in {"turn/start", "turn/end", "step/start", "step/end"}
  <2>1. e.turn \in Nat /\ (e.type = "step/start" => e.step \in Nat)
    BY <1>1, EventFields
  <2>2. CASE e.type = "turn/start"
    <3>1. Advance(t, e) = [t EXCEPT !.openTurn = e.turn, !.nextStep = 1]
      BY <2>2 DEF Advance
    <3>2. 1 \in Nat
      OBVIOUS
    <3> QED
      BY <2>1, <3>1, <3>2, Zenon DEF Traces
  <2>3. CASE e.type = "turn/end"
    <3>1. Advance(t, e) = [t EXCEPT !.openTurn = 0, !.nextTurn = t.nextTurn + 1]
      BY <2>3 DEF Advance, Null
    <3>2. 0 \in Nat /\ t.nextTurn + 1 \in Nat
      BY <1>0
    <3> QED
      BY <3>1, <3>2, Zenon DEF Traces
  <2>4. CASE e.type = "step/start"
    <3>1. Advance(t, e) = [t EXCEPT !.openStep = e.step]
      BY <2>4 DEF Advance
    <3> QED
      BY <2>1, <2>4, <3>1 DEF Traces
  <2>5. CASE e.type = "step/end"
    <3>1. Advance(t, e) = [t EXCEPT !.openStep = 0, !.nextStep = t.nextStep + 1,
                                    !.pendingCalls = {}]
      BY <2>5 DEF Advance, Null
    <3>2. 0 \in Nat /\ t.nextStep + 1 \in Nat /\ {} \in SUBSET Ids
      BY <1>0
    <3> QED
      BY <3>1, <3>2, Zenon DEF Traces
  <2> QED
    BY <1>1, <2>2, <2>3, <2>4, <2>5
<1>2. CASE e.type = "assistant/message"
  BY <1>2 DEF Advance
<1>3. CASE e.type \in {"tool/call", "tool/result"}
  <2>1. e.call \in Ids
    BY <1>3, EventFields
  <2> QED
    BY <1>0, <1>3, <2>1 DEF Advance, Traces
<1> QED
  BY <1>1, <1>2, <1>3, EventFields

\* So do the calls and answers of the last step.
LEMMA HeardType ==
    ASSUME NEW x \in Hearings, NEW e \in Event
    PROVE  Heard(x, e) \in Hearings
<1>0. x.asked \in Seq(Ids) /\ x.answered \in Seq(Ids)
  BY DEF Hearings
<1>1. CASE e.type \in {"turn/start", "turn/end", "step/end", "tool/call"}
  BY <1>1 DEF Heard
<1>2. CASE e.type = "step/start"
  BY <1>2 DEF Heard, Hearings
<1>3. CASE e.type = "assistant/message"
  <2>1. e.calls \in Seq(Ids)
    BY <1>3, EventFields
  <2>2. x.asked \o e.calls \in Seq(Ids)
    BY <1>0, <2>1, ConcatProperties
  <2>3. Heard(x, e) = [x EXCEPT !.asked = x.asked \o e.calls]
    BY <1>3 DEF Heard
  <2> QED
    BY <2>2, <2>3 DEF Hearings
<1>4. CASE e.type = "tool/result"
  <2>1. e.call \in Ids
    BY <1>4, EventFields
  <2>2. Append(x.answered, e.call) \in Seq(Ids)
    BY <1>0, <2>1, AppendProperties
  <2>3. Heard(x, e) = [x EXCEPT !.answered = Append(x.answered, e.call)]
    BY <1>4 DEF Heard
  <2> QED
    BY <2>2, <2>3 DEF Hearings
<1> QED
  BY <1>1, <1>2, <1>3, <1>4, EventFields

\* And what is observed of a log.
LEMMA ObserveType ==
    ASSUME NEW o \in Observed, NEW e \in Event
    PROVE  Observe(o, e) \in Observed
<1>1. o.trace \in Traces(Ids)
  BY DEF Observed
<1>2. Advance(o.trace, e) \in Traces(Ids)
  BY <1>1, AdvanceType
<1>3. (o.legal /\ Valid(o.trace, e)) \in BOOLEAN
  OBVIOUS
<1> QED
  BY <1>2, <1>3, Zenon DEF Observe, Observed

(***************************************************************************)
(* The folds over a log, one event at a time.                               *)
(***************************************************************************)

\* The fold of Scan over a log, as the function it is the last value of.
LEMMA ScanFunction ==
    ASSUME NEW es \in Seq(Event)
    PROVE  \E f \in [0..Len(es) -> Scans] :
             /\ f[0] = Fresh /\ \A n \in 1..Len(es) : f[n] = Scan(f[n - 1], es[n])
             /\ Over(Scan, Fresh, es) = f[Len(es)]
<1> DEFINE N == Len(es)
           G == [x \in Scans \X (1..N) |-> Scan(x[1], es[x[2]])]
           Is(f) == f = [n \in 0..N |-> IF n = 0 THEN Fresh ELSE Scan(f[n - 1], es[n])]
<1>1. N \in Nat /\ Fresh \in Scans
  BY LenProperties DEF Fresh, Scans, Null
<1>2. G \in [Scans \X (1..N) -> Scans]
  <2> SUFFICES ASSUME NEW x \in Scans \X (1..N) PROVE Scan(x[1], es[x[2]]) \in Scans
    OBVIOUS
  <2>1. x[1] \in Scans /\ x[2] \in 1..N
    OBVIOUS
  <2>2. es[x[2]] \in Event
    BY <2>1, ElementOfSeq
  <2> QED
    BY <2>1, <2>2, ScanType
<1>3. \A n \in 1..N, s \in Scans : G[<<s, n>>] = Scan(s, es[n])
  OBVIOUS
<1> HIDE DEF G, N
<1>4. PICK g \in [0..N -> Scans] : Steps(g, N, Fresh, G)
  BY <1>1, <1>2, FoldExists
<1>5. \A n \in 1..N : g[n] = Scan(g[n - 1], es[n])
  <2> TAKE n \in 1..N
  <2>1. n - 1 \in 0..N
    BY <1>1
  <2>2. g[n - 1] \in Scans
    BY <2>1
  <2> QED
    BY <2>2, <1>3, <1>4 DEF Steps
<1>0. g[0] = Fresh
  BY <1>4 DEF Steps
<1>6. Is(g)
  <2> DEFINE h == [n \in 0..N |-> IF n = 0 THEN Fresh ELSE Scan(g[n - 1], es[n])]
  <2>1. ASSUME NEW n \in 0..N PROVE g[n] = h[n]
    <3>1. CASE n = 0
      BY <3>1, <1>0
    <3>2. CASE n # 0
      <4>1. n \in 1..N
        BY <3>2, <1>1
      <4> QED
        BY <4>1, <3>2, <1>5
    <3> QED
      BY <3>1, <3>2
  <2>2. g = h
    <3>1. h = [n \in 0..N |-> h[n]]
      OBVIOUS
    <3>2. g = [n \in 0..N |-> g[n]]
      OBVIOUS
    <3> HIDE DEF h
    <3> QED
      BY <2>1, <3>1, <3>2
  <2> QED
    BY <2>2
<1> DEFINE f == CHOOSE f : Is(f)
<1>7. Is(f)
  <2> HIDE DEF Is
  <2> QED
    BY <1>6
<1>8. Over(Scan, Fresh, es) = f[N]
  BY DEF Over, N
<1> HIDE DEF f
<1>9. DOMAIN f = 0..N /\ f[0] = Fresh /\ \A n \in 1..N : f[n] = Scan(f[n - 1], es[n])
  <2>1. \A n \in 0..N : f[n] = IF n = 0 THEN Fresh ELSE Scan(f[n - 1], es[n])
    BY <1>7
  <2>2. DOMAIN f = 0..N
    BY <1>7
  <2>3. 0 \in 0..N /\ \A n \in 1..N : n \in 0..N /\ n # 0
    BY <1>1
  <2> QED
    BY <2>1, <2>2, <2>3
<1>10. Agree(g, f, N)
  <2>1. StepAlike(g, f, N)
    BY <1>0, <1>5, <1>9 DEF StepAlike
  <2> QED
    BY <1>1, <2>1, FoldUnique
<1>11. N \in 0..N
  BY <1>1
<1>12. Over(Scan, Fresh, es) = g[N]
  BY <1>8, <1>10, <1>11 DEF Agree
<1> QED
  BY <1>0, <1>5, <1>12 DEF N

\* It starts from Fresh, and takes one step for an event appended.
LEMMA ScanFold ==
    /\ Over(Scan, Fresh, <<>>) = Fresh
    /\ \A es \in Seq(Event) :
         /\ Over(Scan, Fresh, es) \in Scans
         /\ \A e \in Event :
              Over(Scan, Fresh, Append(es, e)) = Scan(Over(Scan, Fresh, es), e)
<1>1. Over(Scan, Fresh, <<>>) = Fresh
  <2>1. <<>> \in Seq(Event) /\ Len(<<>>) = 0
    OBVIOUS
  <2> QED
    BY <2>1, ScanFunction
<1>2. ASSUME NEW es \in Seq(Event) PROVE Over(Scan, Fresh, es) \in Scans
  <2>1. Len(es) \in 0..Len(es)
    BY LenProperties
  <2> QED
    BY <2>1, ScanFunction
<1>3. ASSUME NEW es \in Seq(Event), NEW e \in Event
      PROVE  Over(Scan, Fresh, Append(es, e)) = Scan(Over(Scan, Fresh, es), e)
  <2> DEFINE as == Append(es, e)
  <2>1. /\ as \in Seq(Event) /\ Len(as) = Len(es) + 1 /\ as[Len(es) + 1] = e
        /\ \A n \in 1..Len(es) : as[n] = es[n]
        /\ Len(es) \in Nat
    BY AppendProperties, LenProperties
  <2> HIDE DEF as
  <2>2. PICK f \in [0..Len(es) -> Scans] :
             /\ f[0] = Fresh /\ \A n \in 1..Len(es) : f[n] = Scan(f[n - 1], es[n])
             /\ Over(Scan, Fresh, es) = f[Len(es)]
    BY ScanFunction
  <2>3. PICK g \in [0..Len(as) -> Scans] :
             /\ g[0] = Fresh /\ \A n \in 1..Len(as) : g[n] = Scan(g[n - 1], as[n])
             /\ Over(Scan, Fresh, as) = g[Len(as)]
    BY <2>1, ScanFunction
  <2>4. \A n \in 1..Len(es) : f[n - 1] = g[n - 1] => f[n] = g[n]
    <3> TAKE n \in 1..Len(es)
    <3>1. n \in 1..Len(as)
      BY <2>1
    <3> QED
      BY <3>1, <2>1, <2>2, <2>3
  <2>5. f[Len(es)] = g[Len(es)]
    <3>1. StepAlike(f, g, Len(es))
      BY <2>2, <2>3, <2>4 DEF StepAlike
    <3>2. Agree(f, g, Len(es)) /\ Len(es) \in 0..Len(es)
      BY <2>1, <3>1, FoldUnique
    <3> QED
      BY <3>2 DEF Agree
  <2>6. Len(as) \in 1..Len(as) /\ Len(as) - 1 = Len(es)
    BY <2>1
  <2>7. g[Len(as)] = Scan(g[Len(as) - 1], as[Len(as)])
    BY <2>3, <2>6
  <2> QED
    BY <2>1, <2>2, <2>3, <2>5, <2>6, <2>7 DEF as
<1> QED
  BY <1>1, <1>2, <1>3

\* The fold of Advance over a log, as the function it is the last value of.
LEMMA AdvanceFunction ==
    ASSUME NEW es \in Seq(Event)
    PROVE  \E f \in [0..Len(es) -> Traces(Ids)] :
             /\ f[0] = ClosedAfter(0) /\ \A n \in 1..Len(es) : f[n] = Advance(f[n - 1], es[n])
             /\ Over(Advance, ClosedAfter(0), es) = f[Len(es)]
<1> DEFINE N == Len(es)
           G == [x \in Traces(Ids) \X (1..N) |-> Advance(x[1], es[x[2]])]
           Is(f) == f = [n \in 0..N |-> IF n = 0 THEN ClosedAfter(0) ELSE Advance(f[n - 1], es[n])]
<1>1. N \in Nat /\ ClosedAfter(0) \in Traces(Ids)
  BY LenProperties DEF ClosedAfter, Traces, Null
<1>2. G \in [Traces(Ids) \X (1..N) -> Traces(Ids)]
  <2> SUFFICES ASSUME NEW x \in Traces(Ids) \X (1..N) PROVE Advance(x[1], es[x[2]]) \in Traces(Ids)
    OBVIOUS
  <2>1. x[1] \in Traces(Ids) /\ x[2] \in 1..N
    OBVIOUS
  <2>2. es[x[2]] \in Event
    BY <2>1, ElementOfSeq
  <2> QED
    BY <2>1, <2>2, AdvanceType
<1>3. \A n \in 1..N, s \in Traces(Ids) : G[<<s, n>>] = Advance(s, es[n])
  OBVIOUS
<1> HIDE DEF G, N
<1>4. PICK g \in [0..N -> Traces(Ids)] : Steps(g, N, ClosedAfter(0), G)
  BY <1>1, <1>2, FoldExists
<1>5. \A n \in 1..N : g[n] = Advance(g[n - 1], es[n])
  <2> TAKE n \in 1..N
  <2>1. n - 1 \in 0..N
    BY <1>1
  <2>2. g[n - 1] \in Traces(Ids)
    BY <2>1
  <2> QED
    BY <2>2, <1>3, <1>4 DEF Steps
<1>0. g[0] = ClosedAfter(0)
  BY <1>4 DEF Steps
<1>6. Is(g)
  <2> DEFINE h == [n \in 0..N |-> IF n = 0 THEN ClosedAfter(0) ELSE Advance(g[n - 1], es[n])]
  <2>1. ASSUME NEW n \in 0..N PROVE g[n] = h[n]
    <3>1. CASE n = 0
      BY <3>1, <1>0
    <3>2. CASE n # 0
      <4>1. n \in 1..N
        BY <3>2, <1>1
      <4> QED
        BY <4>1, <3>2, <1>5
    <3> QED
      BY <3>1, <3>2
  <2>2. g = h
    <3>1. h = [n \in 0..N |-> h[n]]
      OBVIOUS
    <3>2. g = [n \in 0..N |-> g[n]]
      OBVIOUS
    <3> HIDE DEF h
    <3> QED
      BY <2>1, <3>1, <3>2
  <2> QED
    BY <2>2
<1> DEFINE f == CHOOSE f : Is(f)
<1>7. Is(f)
  <2> HIDE DEF Is
  <2> QED
    BY <1>6
<1>8. Over(Advance, ClosedAfter(0), es) = f[N]
  BY DEF Over, N
<1> HIDE DEF f
<1>9. DOMAIN f = 0..N /\ f[0] = ClosedAfter(0)
      /\ \A n \in 1..N : f[n] = Advance(f[n - 1], es[n])
  <2>1. \A n \in 0..N : f[n] = IF n = 0 THEN ClosedAfter(0) ELSE Advance(f[n - 1], es[n])
    BY <1>7
  <2>2. DOMAIN f = 0..N
    BY <1>7
  <2>3. 0 \in 0..N /\ \A n \in 1..N : n \in 0..N /\ n # 0
    BY <1>1
  <2> QED
    BY <2>1, <2>2, <2>3
<1>10. Agree(g, f, N)
  <2>1. StepAlike(g, f, N)
    BY <1>0, <1>5, <1>9 DEF StepAlike
  <2> QED
    BY <1>1, <2>1, FoldUnique
<1>11. N \in 0..N
  BY <1>1
<1>12. Over(Advance, ClosedAfter(0), es) = g[N]
  BY <1>8, <1>10, <1>11 DEF Agree
<1> QED
  BY <1>0, <1>5, <1>12 DEF N

\* It starts from ClosedAfter(0), and takes one step for an event appended.
LEMMA AdvanceFold ==
    /\ Over(Advance, ClosedAfter(0), <<>>) = ClosedAfter(0)
    /\ \A es \in Seq(Event) :
         /\ Over(Advance, ClosedAfter(0), es) \in Traces(Ids)
         /\ \A e \in Event :
              Over(Advance, ClosedAfter(0), Append(es, e))
                = Advance(Over(Advance, ClosedAfter(0), es), e)
<1>1. Over(Advance, ClosedAfter(0), <<>>) = ClosedAfter(0)
  <2>1. <<>> \in Seq(Event) /\ Len(<<>>) = 0
    OBVIOUS
  <2> QED
    BY <2>1, AdvanceFunction
<1>2. ASSUME NEW es \in Seq(Event) PROVE Over(Advance, ClosedAfter(0), es) \in Traces(Ids)
  <2>1. Len(es) \in 0..Len(es)
    BY LenProperties
  <2> QED
    BY <2>1, AdvanceFunction
<1>3. ASSUME NEW es \in Seq(Event), NEW e \in Event
      PROVE  Over(Advance, ClosedAfter(0), Append(es, e))
               = Advance(Over(Advance, ClosedAfter(0), es), e)
  <2> DEFINE as == Append(es, e)
  <2>1. /\ as \in Seq(Event) /\ Len(as) = Len(es) + 1 /\ as[Len(es) + 1] = e
        /\ \A n \in 1..Len(es) : as[n] = es[n]
        /\ Len(es) \in Nat
    BY AppendProperties, LenProperties
  <2> HIDE DEF as
  <2>2. PICK f \in [0..Len(es) -> Traces(Ids)] :
             /\ f[0] = ClosedAfter(0) /\ \A n \in 1..Len(es) : f[n] = Advance(f[n - 1], es[n])
             /\ Over(Advance, ClosedAfter(0), es) = f[Len(es)]
    BY AdvanceFunction
  <2>3. PICK g \in [0..Len(as) -> Traces(Ids)] :
             /\ g[0] = ClosedAfter(0) /\ \A n \in 1..Len(as) : g[n] = Advance(g[n - 1], as[n])
             /\ Over(Advance, ClosedAfter(0), as) = g[Len(as)]
    BY <2>1, AdvanceFunction
  <2>4. \A n \in 1..Len(es) : f[n - 1] = g[n - 1] => f[n] = g[n]
    <3> TAKE n \in 1..Len(es)
    <3>1. n \in 1..Len(as)
      BY <2>1
    <3> QED
      BY <3>1, <2>1, <2>2, <2>3
  <2>5. f[Len(es)] = g[Len(es)]
    <3>1. StepAlike(f, g, Len(es))
      BY <2>2, <2>3, <2>4 DEF StepAlike
    <3>2. Agree(f, g, Len(es)) /\ Len(es) \in 0..Len(es)
      BY <2>1, <3>1, FoldUnique
    <3> QED
      BY <3>2 DEF Agree
  <2>6. Len(as) \in 1..Len(as) /\ Len(as) - 1 = Len(es)
    BY <2>1
  <2>7. g[Len(as)] = Advance(g[Len(as) - 1], as[Len(as)])
    BY <2>3, <2>6
  <2> QED
    BY <2>1, <2>2, <2>3, <2>5, <2>6, <2>7 DEF as
<1> QED
  BY <1>1, <1>2, <1>3

\* The fold of Heard over a log, as the function it is the last value of.
LEMMA HeardFunction ==
    ASSUME NEW es \in Seq(Event)
    PROVE  \E f \in [0..Len(es) -> Hearings] :
             /\ f[0] = Unheard /\ \A n \in 1..Len(es) : f[n] = Heard(f[n - 1], es[n])
             /\ Over(Heard, Unheard, es) = f[Len(es)]
<1> DEFINE N == Len(es)
           G == [x \in Hearings \X (1..N) |-> Heard(x[1], es[x[2]])]
           Is(f) == f = [n \in 0..N |-> IF n = 0 THEN Unheard ELSE Heard(f[n - 1], es[n])]
<1>1. N \in Nat /\ Unheard \in Hearings
  BY LenProperties DEF Unheard, Hearings
<1>2. G \in [Hearings \X (1..N) -> Hearings]
  <2> SUFFICES ASSUME NEW x \in Hearings \X (1..N) PROVE Heard(x[1], es[x[2]]) \in Hearings
    OBVIOUS
  <2>1. x[1] \in Hearings /\ x[2] \in 1..N
    OBVIOUS
  <2>2. es[x[2]] \in Event
    BY <2>1, ElementOfSeq
  <2> QED
    BY <2>1, <2>2, HeardType
<1>3. \A n \in 1..N, s \in Hearings : G[<<s, n>>] = Heard(s, es[n])
  OBVIOUS
<1> HIDE DEF G, N
<1>4. PICK g \in [0..N -> Hearings] : Steps(g, N, Unheard, G)
  BY <1>1, <1>2, FoldExists
<1>5. \A n \in 1..N : g[n] = Heard(g[n - 1], es[n])
  <2> TAKE n \in 1..N
  <2>1. n - 1 \in 0..N
    BY <1>1
  <2>2. g[n - 1] \in Hearings
    BY <2>1
  <2> QED
    BY <2>2, <1>3, <1>4 DEF Steps
<1>0. g[0] = Unheard
  BY <1>4 DEF Steps
<1>6. Is(g)
  <2> DEFINE h == [n \in 0..N |-> IF n = 0 THEN Unheard ELSE Heard(g[n - 1], es[n])]
  <2>1. ASSUME NEW n \in 0..N PROVE g[n] = h[n]
    <3>1. CASE n = 0
      BY <3>1, <1>0
    <3>2. CASE n # 0
      <4>1. n \in 1..N
        BY <3>2, <1>1
      <4> QED
        BY <4>1, <3>2, <1>5
    <3> QED
      BY <3>1, <3>2
  <2>2. g = h
    <3>1. h = [n \in 0..N |-> h[n]]
      OBVIOUS
    <3>2. g = [n \in 0..N |-> g[n]]
      OBVIOUS
    <3> HIDE DEF h
    <3> QED
      BY <2>1, <3>1, <3>2
  <2> QED
    BY <2>2
<1> DEFINE f == CHOOSE f : Is(f)
<1>7. Is(f)
  <2> HIDE DEF Is
  <2> QED
    BY <1>6
<1>8. Over(Heard, Unheard, es) = f[N]
  BY DEF Over, N
<1> HIDE DEF f
<1>9. DOMAIN f = 0..N /\ f[0] = Unheard /\ \A n \in 1..N : f[n] = Heard(f[n - 1], es[n])
  <2>1. \A n \in 0..N : f[n] = IF n = 0 THEN Unheard ELSE Heard(f[n - 1], es[n])
    BY <1>7
  <2>2. DOMAIN f = 0..N
    BY <1>7
  <2>3. 0 \in 0..N /\ \A n \in 1..N : n \in 0..N /\ n # 0
    BY <1>1
  <2> QED
    BY <2>1, <2>2, <2>3
<1>10. Agree(g, f, N)
  <2>1. StepAlike(g, f, N)
    BY <1>0, <1>5, <1>9 DEF StepAlike
  <2> QED
    BY <1>1, <2>1, FoldUnique
<1>11. N \in 0..N
  BY <1>1
<1>12. Over(Heard, Unheard, es) = g[N]
  BY <1>8, <1>10, <1>11 DEF Agree
<1> QED
  BY <1>0, <1>5, <1>12 DEF N

\* It starts from Unheard, and takes one step for an event appended.
LEMMA HeardFold ==
    /\ Over(Heard, Unheard, <<>>) = Unheard
    /\ \A es \in Seq(Event) :
         /\ Over(Heard, Unheard, es) \in Hearings
         /\ \A e \in Event :
              Over(Heard, Unheard, Append(es, e)) = Heard(Over(Heard, Unheard, es), e)
<1>1. Over(Heard, Unheard, <<>>) = Unheard
  <2>1. <<>> \in Seq(Event) /\ Len(<<>>) = 0
    OBVIOUS
  <2> QED
    BY <2>1, HeardFunction
<1>2. ASSUME NEW es \in Seq(Event) PROVE Over(Heard, Unheard, es) \in Hearings
  <2>1. Len(es) \in 0..Len(es)
    BY LenProperties
  <2> QED
    BY <2>1, HeardFunction
<1>3. ASSUME NEW es \in Seq(Event), NEW e \in Event
      PROVE  Over(Heard, Unheard, Append(es, e)) = Heard(Over(Heard, Unheard, es), e)
  <2> DEFINE as == Append(es, e)
  <2>1. /\ as \in Seq(Event) /\ Len(as) = Len(es) + 1 /\ as[Len(es) + 1] = e
        /\ \A n \in 1..Len(es) : as[n] = es[n]
        /\ Len(es) \in Nat
    BY AppendProperties, LenProperties
  <2> HIDE DEF as
  <2>2. PICK f \in [0..Len(es) -> Hearings] :
             /\ f[0] = Unheard /\ \A n \in 1..Len(es) : f[n] = Heard(f[n - 1], es[n])
             /\ Over(Heard, Unheard, es) = f[Len(es)]
    BY HeardFunction
  <2>3. PICK g \in [0..Len(as) -> Hearings] :
             /\ g[0] = Unheard /\ \A n \in 1..Len(as) : g[n] = Heard(g[n - 1], as[n])
             /\ Over(Heard, Unheard, as) = g[Len(as)]
    BY <2>1, HeardFunction
  <2>4. \A n \in 1..Len(es) : f[n - 1] = g[n - 1] => f[n] = g[n]
    <3> TAKE n \in 1..Len(es)
    <3>1. n \in 1..Len(as)
      BY <2>1
    <3> QED
      BY <3>1, <2>1, <2>2, <2>3
  <2>5. f[Len(es)] = g[Len(es)]
    <3>1. StepAlike(f, g, Len(es))
      BY <2>2, <2>3, <2>4 DEF StepAlike
    <3>2. Agree(f, g, Len(es)) /\ Len(es) \in 0..Len(es)
      BY <2>1, <3>1, FoldUnique
    <3> QED
      BY <3>2 DEF Agree
  <2>6. Len(as) \in 1..Len(as) /\ Len(as) - 1 = Len(es)
    BY <2>1
  <2>7. g[Len(as)] = Heard(g[Len(as) - 1], as[Len(as)])
    BY <2>3, <2>6
  <2> QED
    BY <2>1, <2>2, <2>3, <2>5, <2>6, <2>7 DEF as
<1> QED
  BY <1>1, <1>2, <1>3

\* The fold of Observe over a log, as the function it is the last value of.
LEMMA ObserveFunction ==
    ASSUME NEW es \in Seq(Event)
    PROVE  \E f \in [0..Len(es) -> Observed] :
             /\ f[0] = Unseen /\ \A n \in 1..Len(es) : f[n] = Observe(f[n - 1], es[n])
             /\ Over(Observe, Unseen, es) = f[Len(es)]
<1> DEFINE N == Len(es)
           G == [x \in Observed \X (1..N) |-> Observe(x[1], es[x[2]])]
           Is(f) == f = [n \in 0..N |-> IF n = 0 THEN Unseen ELSE Observe(f[n - 1], es[n])]
<1>1. N \in Nat /\ Unseen \in Observed
  BY LenProperties DEF Unseen, Observed, ClosedAfter, Traces, Null
<1>2. G \in [Observed \X (1..N) -> Observed]
  <2> SUFFICES ASSUME NEW x \in Observed \X (1..N) PROVE Observe(x[1], es[x[2]]) \in Observed
    OBVIOUS
  <2>1. x[1] \in Observed /\ x[2] \in 1..N
    OBVIOUS
  <2>2. es[x[2]] \in Event
    BY <2>1, ElementOfSeq
  <2> QED
    BY <2>1, <2>2, ObserveType
<1>3. \A n \in 1..N, s \in Observed : G[<<s, n>>] = Observe(s, es[n])
  OBVIOUS
<1> HIDE DEF G, N
<1>4. PICK g \in [0..N -> Observed] : Steps(g, N, Unseen, G)
  BY <1>1, <1>2, FoldExists
<1>5. \A n \in 1..N : g[n] = Observe(g[n - 1], es[n])
  <2> TAKE n \in 1..N
  <2>1. n - 1 \in 0..N
    BY <1>1
  <2>2. g[n - 1] \in Observed
    BY <2>1
  <2> QED
    BY <2>2, <1>3, <1>4 DEF Steps
<1>0. g[0] = Unseen
  BY <1>4 DEF Steps
<1>6. Is(g)
  <2> DEFINE h == [n \in 0..N |-> IF n = 0 THEN Unseen ELSE Observe(g[n - 1], es[n])]
  <2>1. ASSUME NEW n \in 0..N PROVE g[n] = h[n]
    <3>1. CASE n = 0
      BY <3>1, <1>0
    <3>2. CASE n # 0
      <4>1. n \in 1..N
        BY <3>2, <1>1
      <4> QED
        BY <4>1, <3>2, <1>5
    <3> QED
      BY <3>1, <3>2
  <2>2. g = h
    <3>1. h = [n \in 0..N |-> h[n]]
      OBVIOUS
    <3>2. g = [n \in 0..N |-> g[n]]
      OBVIOUS
    <3> HIDE DEF h
    <3> QED
      BY <2>1, <3>1, <3>2
  <2> QED
    BY <2>2
<1> DEFINE f == CHOOSE f : Is(f)
<1>7. Is(f)
  <2> HIDE DEF Is
  <2> QED
    BY <1>6
<1>8. Over(Observe, Unseen, es) = f[N]
  BY DEF Over, N
<1> HIDE DEF f
<1>9. DOMAIN f = 0..N /\ f[0] = Unseen /\ \A n \in 1..N : f[n] = Observe(f[n - 1], es[n])
  <2>1. \A n \in 0..N : f[n] = IF n = 0 THEN Unseen ELSE Observe(f[n - 1], es[n])
    BY <1>7
  <2>2. DOMAIN f = 0..N
    BY <1>7
  <2>3. 0 \in 0..N /\ \A n \in 1..N : n \in 0..N /\ n # 0
    BY <1>1
  <2> QED
    BY <2>1, <2>2, <2>3
<1>10. Agree(g, f, N)
  <2>1. StepAlike(g, f, N)
    BY <1>0, <1>5, <1>9 DEF StepAlike
  <2> QED
    BY <1>1, <2>1, FoldUnique
<1>11. N \in 0..N
  BY <1>1
<1>12. Over(Observe, Unseen, es) = g[N]
  BY <1>8, <1>10, <1>11 DEF Agree
<1> QED
  BY <1>0, <1>5, <1>12 DEF N

\* It starts from Unseen, and takes one step for an event appended.
LEMMA ObserveFold ==
    /\ Over(Observe, Unseen, <<>>) = Unseen
    /\ \A es \in Seq(Event) :
         /\ Over(Observe, Unseen, es) \in Observed
         /\ \A e \in Event :
              Over(Observe, Unseen, Append(es, e)) = Observe(Over(Observe, Unseen, es), e)
<1>1. Over(Observe, Unseen, <<>>) = Unseen
  <2>1. <<>> \in Seq(Event) /\ Len(<<>>) = 0
    OBVIOUS
  <2> QED
    BY <2>1, ObserveFunction
<1>2. ASSUME NEW es \in Seq(Event) PROVE Over(Observe, Unseen, es) \in Observed
  <2>1. Len(es) \in 0..Len(es)
    BY LenProperties
  <2> QED
    BY <2>1, ObserveFunction
<1>3. ASSUME NEW es \in Seq(Event), NEW e \in Event
      PROVE  Over(Observe, Unseen, Append(es, e)) = Observe(Over(Observe, Unseen, es), e)
  <2> DEFINE as == Append(es, e)
  <2>1. /\ as \in Seq(Event) /\ Len(as) = Len(es) + 1 /\ as[Len(es) + 1] = e
        /\ \A n \in 1..Len(es) : as[n] = es[n]
        /\ Len(es) \in Nat
    BY AppendProperties, LenProperties
  <2> HIDE DEF as
  <2>2. PICK f \in [0..Len(es) -> Observed] :
             /\ f[0] = Unseen /\ \A n \in 1..Len(es) : f[n] = Observe(f[n - 1], es[n])
             /\ Over(Observe, Unseen, es) = f[Len(es)]
    BY ObserveFunction
  <2>3. PICK g \in [0..Len(as) -> Observed] :
             /\ g[0] = Unseen /\ \A n \in 1..Len(as) : g[n] = Observe(g[n - 1], as[n])
             /\ Over(Observe, Unseen, as) = g[Len(as)]
    BY <2>1, ObserveFunction
  <2>4. \A n \in 1..Len(es) : f[n - 1] = g[n - 1] => f[n] = g[n]
    <3> TAKE n \in 1..Len(es)
    <3>1. n \in 1..Len(as)
      BY <2>1
    <3> QED
      BY <3>1, <2>1, <2>2, <2>3
  <2>5. f[Len(es)] = g[Len(es)]
    <3>1. StepAlike(f, g, Len(es))
      BY <2>2, <2>3, <2>4 DEF StepAlike
    <3>2. Agree(f, g, Len(es)) /\ Len(es) \in 0..Len(es)
      BY <2>1, <3>1, FoldUnique
    <3> QED
      BY <3>2 DEF Agree
  <2>6. Len(as) \in 1..Len(as) /\ Len(as) - 1 = Len(es)
    BY <2>1
  <2>7. g[Len(as)] = Observe(g[Len(as) - 1], as[Len(as)])
    BY <2>3, <2>6
  <2> QED
    BY <2>1, <2>2, <2>3, <2>5, <2>6, <2>7 DEF as
<1> QED
  BY <1>1, <1>2, <1>3

(***************************************************************************)
(* What one event changes, field by field.                                  *)
(***************************************************************************)

\* The scan.
LEMMA ScanEffect ==
    ASSUME NEW s \in Scans, NEW e \in Event
    PROVE  /\ e.type = "turn/start" =>
                /\ Scan(s, e).openTurn = e.turn /\ Scan(s, e).openStep = 0
                /\ Scan(s, e).pending = <<>> /\ Scan(s, e).recorded = {}
           /\ e.type = "turn/end" =>
                /\ Scan(s, e).openTurn = 0 /\ Scan(s, e).openStep = 0
                /\ Scan(s, e).pending = <<>> /\ Scan(s, e).recorded = {}
           /\ e.type = "step/start" =>
                /\ Scan(s, e).openTurn = s.openTurn /\ Scan(s, e).openStep = e.step
                /\ Scan(s, e).pending = s.pending /\ Scan(s, e).recorded = s.recorded
           /\ e.type = "step/end" =>
                /\ Scan(s, e).openTurn = s.openTurn /\ Scan(s, e).openStep = 0
                /\ Scan(s, e).pending = <<>> /\ Scan(s, e).recorded = {}
           /\ e.type \in {"assistant/message", "tool/call", "tool/result"} =>
                Scan(s, e).openTurn = s.openTurn /\ Scan(s, e).openStep = s.openStep
           /\ e.type = "assistant/message" =>
                Scan(s, e).pending = s.pending \o e.calls /\ Scan(s, e).recorded = s.recorded
           /\ e.type = "tool/call" =>
                /\ Scan(s, e).pending = s.pending
                /\ Scan(s, e).recorded = s.recorded \cup ({e.call} \cap ToSet(s.pending))
           /\ e.type = "tool/result" =>
                /\ Scan(s, e).pending = RemoveFirst(s.pending, e.call)
                /\ Scan(s, e).recorded = s.recorded
<1> DEFINE more == s.pending \o e.calls
           rest == RemoveFirst(s.pending, e.call)
           known == s.recorded \cup ({e.call} \cap ToSet(s.pending))
<1>1. /\ e.type = "turn/start" => Scan(s, e) =
           [openTurn |-> e.turn, openStep |-> 0, pending |-> <<>>, recorded |-> {}]
      /\ e.type = "turn/end" => Scan(s, e) =
           [openTurn |-> 0, openStep |-> 0, pending |-> <<>>, recorded |-> {}]
      /\ e.type = "step/start" => Scan(s, e) = [s EXCEPT !.openStep = e.step]
      /\ e.type = "step/end" => Scan(s, e) =
           [s EXCEPT !.openStep = 0, !.pending = <<>>, !.recorded = {}]
  BY DEF Scan, Null
<1>2. /\ e.type = "assistant/message" => Scan(s, e) = [s EXCEPT !.pending = more]
      /\ e.type = "tool/call" => Scan(s, e) = [s EXCEPT !.recorded = known]
      /\ e.type = "tool/result" => Scan(s, e) = [s EXCEPT !.pending = rest]
  <2>1. e.type = "assistant/message" => Scan(s, e) = [s EXCEPT !.pending = more]
    BY DEF Scan
  <2>2. e.type = "tool/call" => Scan(s, e) = [s EXCEPT !.recorded = known]
    BY DEF Scan
  <2>3. e.type = "tool/result" => Scan(s, e) = [s EXCEPT !.pending = rest]
    BY DEF Scan, Delete
  <2> HIDE DEF more, rest, known
  <2> QED
    BY <2>1, <2>2, <2>3
<1> HIDE DEF more, rest, known
<1>3. CASE e.type \in {"turn/start", "turn/end", "step/start", "step/end"}
  <2>1. CASE e.type = "turn/start"
    BY <1>1, <2>1
  <2>4. CASE e.type = "turn/end"
    BY <1>1, <2>4
  <2>2. CASE e.type = "step/start"
    BY <1>1, <2>2 DEF Scans
  <2>3. CASE e.type = "step/end"
    BY <1>1, <2>3 DEF Scans
  <2> QED
    BY <1>3, <2>1, <2>2, <2>3, <2>4
<1>4. CASE e.type = "assistant/message"
  <2>1. /\ Scan(s, e).openTurn = s.openTurn /\ Scan(s, e).openStep = s.openStep
        /\ Scan(s, e).pending = more /\ Scan(s, e).recorded = s.recorded
    BY <1>2, <1>4 DEF Scans
  <2> QED
    BY <1>4, <2>1 DEF more
<1>5. CASE e.type = "tool/call"
  <2>1. /\ Scan(s, e).openTurn = s.openTurn /\ Scan(s, e).openStep = s.openStep
        /\ Scan(s, e).pending = s.pending /\ Scan(s, e).recorded = known
    BY <1>2, <1>5 DEF Scans
  <2> QED
    BY <1>5, <2>1 DEF known
<1>6. CASE e.type = "tool/result"
  <2>1. /\ Scan(s, e).openTurn = s.openTurn /\ Scan(s, e).openStep = s.openStep
        /\ Scan(s, e).pending = rest /\ Scan(s, e).recorded = s.recorded
    BY <1>2, <1>6 DEF Scans
  <2> QED
    BY <1>6, <2>1 DEF rest
<1> QED
  BY <1>3, <1>4, <1>5, <1>6, EventFields

\* The trace of the session companion.
LEMMA AdvanceEffect ==
    ASSUME NEW t \in Traces(Ids), NEW e \in Event
    PROVE  /\ e.type = "turn/start" =>
                /\ Advance(t, e).openTurn = e.turn /\ Advance(t, e).openStep = t.openStep
                /\ Advance(t, e).nextTurn = t.nextTurn /\ Advance(t, e).nextStep = 1
                /\ Advance(t, e).pendingCalls = t.pendingCalls
           /\ e.type = "turn/end" =>
                /\ Advance(t, e).openTurn = 0 /\ Advance(t, e).openStep = t.openStep
                /\ Advance(t, e).nextTurn = t.nextTurn + 1
                /\ Advance(t, e).nextStep = t.nextStep
                /\ Advance(t, e).pendingCalls = t.pendingCalls
           /\ e.type = "step/start" =>
                /\ Advance(t, e).openTurn = t.openTurn /\ Advance(t, e).openStep = e.step
                /\ Advance(t, e).nextTurn = t.nextTurn /\ Advance(t, e).nextStep = t.nextStep
                /\ Advance(t, e).pendingCalls = t.pendingCalls
           /\ e.type = "step/end" =>
                /\ Advance(t, e).openTurn = t.openTurn /\ Advance(t, e).openStep = 0
                /\ Advance(t, e).nextTurn = t.nextTurn
                /\ Advance(t, e).nextStep = t.nextStep + 1
                /\ Advance(t, e).pendingCalls = {}
           /\ e.type = "assistant/message" => Advance(t, e) = t
           /\ e.type \in {"tool/call", "tool/result"} =>
                /\ Advance(t, e).openTurn = t.openTurn /\ Advance(t, e).openStep = t.openStep
                /\ Advance(t, e).nextTurn = t.nextTurn /\ Advance(t, e).nextStep = t.nextStep
           /\ e.type = "tool/call" => Advance(t, e).pendingCalls = t.pendingCalls \cup {e.call}
           /\ e.type = "tool/result" => Advance(t, e).pendingCalls = t.pendingCalls \ {e.call}
<1>1. /\ e.type = "turn/start" => Advance(t, e) = [t EXCEPT !.openTurn = e.turn, !.nextStep = 1]
      /\ e.type = "turn/end" =>
           Advance(t, e) = [t EXCEPT !.openTurn = 0, !.nextTurn = t.nextTurn + 1]
      /\ e.type = "step/start" => Advance(t, e) = [t EXCEPT !.openStep = e.step]
      /\ e.type = "step/end" => Advance(t, e) =
           [t EXCEPT !.openStep = 0, !.nextStep = t.nextStep + 1, !.pendingCalls = {}]
      /\ e.type = "assistant/message" => Advance(t, e) = t
      /\ e.type = "tool/call" =>
           Advance(t, e) = [t EXCEPT !.pendingCalls = t.pendingCalls \cup {e.call}]
      /\ e.type = "tool/result" =>
           Advance(t, e) = [t EXCEPT !.pendingCalls = t.pendingCalls \ {e.call}]
  BY DEF Advance, Null
<1>3. CASE e.type \in {"turn/start", "turn/end", "step/start", "step/end"}
  BY <1>1, <1>3 DEF Traces
<1>4. CASE e.type \in {"assistant/message", "tool/call", "tool/result"}
  BY <1>1, <1>4 DEF Traces
<1> QED
  BY <1>3, <1>4, EventFields

\* The calls and answers of the last step.
LEMMA HeardEffect ==
    ASSUME NEW x \in Hearings, NEW e \in Event
    PROVE  /\ e.type \in {"turn/start", "turn/end", "step/end", "tool/call"} => Heard(x, e) = x
           /\ e.type = "step/start" =>
                Heard(x, e).asked = <<>> /\ Heard(x, e).answered = <<>>
           /\ e.type = "assistant/message" =>
                Heard(x, e).asked = x.asked \o e.calls /\ Heard(x, e).answered = x.answered
           /\ e.type = "tool/result" =>
                /\ Heard(x, e).asked = x.asked
                /\ Heard(x, e).answered = Append(x.answered, e.call)
<1> DEFINE more == x.asked \o e.calls
           rest == Append(x.answered, e.call)
<1>1. /\ e.type \in {"turn/start", "turn/end", "step/end", "tool/call"} => Heard(x, e) = x
      /\ e.type = "step/start" => Heard(x, e) = [asked |-> <<>>, answered |-> <<>>]
      /\ e.type = "assistant/message" => Heard(x, e) = [x EXCEPT !.asked = more]
      /\ e.type = "tool/result" => Heard(x, e) = [x EXCEPT !.answered = rest]
  BY DEF Heard
<1> HIDE DEF more, rest
<1>2. /\ e.type = "assistant/message" =>
           Heard(x, e).asked = more /\ Heard(x, e).answered = x.answered
      /\ e.type = "tool/result" =>
           Heard(x, e).asked = x.asked /\ Heard(x, e).answered = rest
  BY <1>1 DEF Hearings
<1>3. e.type = "step/start" => Heard(x, e).asked = <<>> /\ Heard(x, e).answered = <<>>
  BY <1>1
<1> QED
  BY <1>1, <1>2, <1>3 DEF more, rest

\* What makes an event valid.
LEMMA ValidMeans ==
    ASSUME NEW t \in Traces(Ids), NEW e \in Event, Valid(t, e)
    PROVE  /\ e.type = "turn/start" => t.openTurn = 0 /\ e.turn = t.nextTurn
           /\ e.type = "turn/end" => t.openTurn = e.turn /\ t.openStep = 0
           /\ e.type = "step/start" =>
                t.openTurn = e.turn /\ t.openStep = 0 /\ e.step = t.nextStep
           /\ e.type \in {"step/end", "assistant/message", "tool/call", "tool/result"} =>
                t.openTurn = e.turn /\ t.openStep = e.step
BY DEF Valid, InOpenStep, Null

(***************************************************************************)
(* What holds of every stored prefix of the log.                            *)
(***************************************************************************)

\* The trace counts from 1, what is open is the next of its kind, and calls are
\* pending in an open step only.
Counted(t) ==
    /\ t.nextTurn >= 1 /\ t.nextStep >= 1
    /\ t.openTurn # 0 => t.openTurn = t.nextTurn
    /\ t.openStep # 0 => t.openTurn # 0 /\ t.openStep = t.nextStep
    /\ t.openStep = 0 => t.pendingCalls = {}

\* The scan of the repair sees what the companion's trace sees, and its pending
\* calls are distinct calls of the open step.
Paired(s, t) ==
    /\ s.openTurn = t.openTurn /\ s.openStep = t.openStep
    /\ t.openStep = 0 => s.pending = <<>> /\ s.recorded = {}
    /\ \A i \in 1..Len(s.pending) :
         s.pending[i][1] = t.openTurn /\ s.pending[i][2] = t.openStep
    /\ \A i, j \in 1..Len(s.pending) : s.pending[i] = s.pending[j] => i = j
    /\ \A i \in 1..Len(s.pending) : s.pending[i] \in s.recorded
          => s.pending[i] \in t.pendingCalls

\* What the last step asked was answered in order as far as it is not pending,
\* and only what was asked is started.
Answering(s, h) == h.asked = h.answered \o s.pending /\ s.recorded \subseteq ToSet(h.asked)

\* The calls a log speaks of belong to steps that are over, or were asked for
\* in the open one.
Known(t, h, c) ==
    \/ c[1] < t.nextTurn
    \/ c[1] = t.openTurn /\ c[2] < t.nextStep
    \/ c[1] = t.openTurn /\ c[2] = t.openStep /\ c \in ToSet(h.asked)
CallsKnown(es, t, h) ==
    \A i \in 1..Len(es) : es[i].type \in {"tool/call", "tool/result"} => Known(t, h, es[i].call)

\* A pending call was started when the log says so, and has no result.
Matched(es, s) ==
    \A i \in 1..Len(es), j \in 1..Len(s.pending) :
        /\ es[i].type = "tool/call" /\ es[i].call = s.pending[j] => s.pending[j] \in s.recorded
        /\ es[i].type = "tool/result" => es[i].call # s.pending[j]

\* lastTurn of an agent that starts from a log.
LastTurnOf(es) ==
    LET starts == {i \in DOMAIN es : es[i].type = "turn/start"}
    IN  IF starts = {} THEN 0 ELSE es[Max(starts)].turn
Latest(es, t) == t.nextTurn = LastTurnOf(es) + (IF t.openTurn = 0 THEN 1 ELSE 0)

Fine(es) ==
    /\ Observation(es) = [trace |-> TraceOf(es), legal |-> TRUE]
    /\ Counted(TraceOf(es)) /\ Paired(ScanOf(es), TraceOf(es))
    /\ TraceOf(es).openStep # 0 => Answering(ScanOf(es), LastStep(es))
    /\ CallsKnown(es, TraceOf(es), LastStep(es)) /\ Matched(es, ScanOf(es))
    /\ Latest(es, TraceOf(es))

\* Every prefix of a log is fine.
Good(es) == \A n \in 0..Len(es) : Fine(SubSeq(es, 1, n))

(***************************************************************************)
(* An event that fits keeps a log fine.                                     *)
(***************************************************************************)

\* The calls of a message.
Asking(a, b, n) == [i \in 1..n |-> <<a, b, i>>]

\* What the driver and the repair append: valid events, one message a step whose
\* calls are named by their place, calls that are pending, and the result of the
\* first pending one.
Fits(s, t, h, e) ==
    /\ Valid(t, e) /\ (e.type # "turn/start" => t.openTurn # 0)
    /\ e.type \in {"step/end", "assistant/message", "tool/call", "tool/result"}
          => t.openStep # 0
    /\ e.type = "assistant/message" =>
         /\ h.asked = <<>>
         /\ \E n \in Nat : e.calls = Asking(e.turn, e.step, n)
    /\ e.type = "tool/call" => e.call \in ToSet(s.pending)
    /\ e.type = "tool/result" => s.pending # <<>> /\ e.call = s.pending[1]

\* A message's calls, named by their places, are a sequence of distinct ids.
LEMMA AskedCalls ==
    ASSUME NEW n \in Nat, NEW a \in Nat, NEW b \in Nat
    PROVE  /\ Asking(a, b, n) \in Seq(Ids) /\ Len(Asking(a, b, n)) = n
           /\ \A i \in 1..n : Asking(a, b, n)[i] = <<a, b, i>>
<1>1. \A i \in 1..n : <<a, b, i>> \in Ids
  BY DEF Ids
<1>2. Asking(a, b, n) \in Seq(Ids)
  BY <1>1, SeqDef DEF Asking
<1>3. Len(Asking(a, b, n)) = n
  BY <1>2, LenProperties DEF Asking
<1> QED
  BY <1>2, <1>3 DEF Asking

\* The trace counts on.
LEMMA CountedKeeps ==
    ASSUME NEW t \in Traces(Ids), NEW e \in Event, Counted(t), Valid(t, e),
           e.type # "turn/start" => t.openTurn # 0,
           e.type \in {"tool/call", "tool/result"} => t.openStep # 0
    PROVE  Counted(Advance(t, e))
<1>0. /\ t.openTurn \in Nat /\ t.openStep \in Nat /\ t.nextTurn \in Nat /\ t.nextStep \in Nat
  BY DEF Traces
<1>1. CASE e.type = "turn/start"
  BY <1>0, <1>1, AdvanceEffect, ValidMeans DEF Counted
<1>2. CASE e.type = "turn/end"
  BY <1>0, <1>2, AdvanceEffect, ValidMeans DEF Counted
<1>3. CASE e.type = "step/start"
  BY <1>0, <1>3, AdvanceEffect, ValidMeans DEF Counted
<1>4. CASE e.type = "step/end"
  BY <1>0, <1>4, AdvanceEffect, ValidMeans DEF Counted
<1>5. CASE e.type \in {"assistant/message", "tool/call", "tool/result"}
  BY <1>0, <1>5, AdvanceEffect, ValidMeans DEF Counted
<1> QED
  BY <1>1, <1>2, <1>3, <1>4, <1>5, EventFields

\* The tail of a sequence of distinct calls.
LEMMA TailIs ==
    ASSUME NEW T, NEW s \in Seq(T), s # <<>>
    PROVE  /\ Tail(s) \in Seq(T) /\ Len(s) >= 1 /\ Len(Tail(s)) = Len(s) - 1
           /\ \A i \in 1..Len(Tail(s)) : i + 1 \in 1..Len(s) /\ Tail(s)[i] = s[i + 1]
           /\ s = <<s[1]>> \o Tail(s)
<1>1. Len(s) \in Nat /\ Len(s) # 0
  BY EmptySeq, LenProperties
<1>2. /\ Tail(s) \in Seq(T) /\ Len(Tail(s)) = Len(s) - 1
      /\ \A i \in 1..Len(Tail(s)) : Tail(s)[i] = s[i + 1]
  BY HeadTailProperties
<1>3. s[1] \in T
  BY <1>1, ElementOfSeq
<1> DEFINE u == <<s[1]>> \o Tail(s)
<1>4. <<s[1]>> \in Seq(T) /\ Len(<<s[1]>>) = 1 /\ <<s[1]>>[1] = s[1]
  BY <1>3
<1>5. /\ u \in Seq(T) /\ Len(u) = 1 + Len(Tail(s))
      /\ \A i \in 1..Len(u) : u[i] = IF i <= 1 THEN <<s[1]>>[i] ELSE Tail(s)[i - 1]
  <2> HIDE DEF u
  <2>1. u = <<s[1]>> \o Tail(s)
    BY DEF u
  <2> QED
    BY <1>2, <1>4, <2>1, ConcatProperties
<1>6. \A i \in 1..Len(s) : s[i] = u[i]
  <2> HIDE DEF u
  <2> TAKE i \in 1..Len(s)
  <2>1. i \in 1..Len(u)
    BY <1>1, <1>2, <1>5
  <2>2. CASE i = 1
    BY <2>1, <2>2, <1>4, <1>5
  <2>3. CASE i # 1
    <3>1. i - 1 \in 1..Len(Tail(s)) /\ ~(i <= 1) /\ (i - 1) + 1 = i
      BY <1>1, <1>2, <2>3
    <3>2. u[i] = Tail(s)[i - 1]
      BY <2>1, <3>1, <1>5
    <3> QED
      BY <3>1, <3>2, <1>2
  <2> QED
    BY <2>2, <2>3
<1>7. s = u
  <2> HIDE DEF u
  <2>1. Len(s) = Len(u)
    BY <1>1, <1>2, <1>5
  <2> QED
    BY <1>5, <1>6, <2>1, SeqEqual
<1> QED
  BY <1>1, <1>2, <1>7

\* The pending calls stay distinct calls of the open step.
LEMMA PairedKeeps ==
    ASSUME NEW s \in Scans, NEW t \in Traces(Ids), NEW h \in Hearings, NEW e \in Event,
           Counted(t), Paired(s, t), t.openStep # 0 => Answering(s, h), Fits(s, t, h, e)
    PROVE  Paired(Scan(s, e), Advance(t, e))
<1>0. /\ t.openTurn \in Nat /\ t.openStep \in Nat /\ t.nextTurn \in Nat /\ t.nextStep \in Nat
      /\ s.pending \in Seq(Ids)
  BY DEF Traces, Scans
<1>v. /\ Valid(t, e) /\ (e.type # "turn/start" => t.openTurn # 0)
      /\ e.type # "turn/start" => t.openTurn # 0
      /\ e.type \in {"step/end", "assistant/message", "tool/call", "tool/result"}
            => t.openStep # 0
  BY DEF Fits
<1>e. Len(<<>>) = 0 /\ 1..0 = {}
  OBVIOUS
<1>1. CASE e.type \in {"turn/start", "turn/end"}
  <2>1. t.openStep = 0
    BY <1>1, <1>v, ValidMeans DEF Counted
  <2>a. /\ e.type = "turn/start" => Scan(s, e).openTurn = e.turn
        /\ e.type = "turn/end" => Scan(s, e).openTurn = 0
        /\ Scan(s, e).openStep = 0 /\ Scan(s, e).pending = <<>> /\ Scan(s, e).recorded = {}
    BY <1>1, ScanEffect
  <2>b. /\ e.type = "turn/start" => Advance(t, e).openTurn = e.turn
        /\ e.type = "turn/end" => Advance(t, e).openTurn = 0
        /\ Advance(t, e).openStep = t.openStep
    BY <1>1, AdvanceEffect
  <2>2. /\ Scan(s, e).openTurn = Advance(t, e).openTurn /\ Scan(s, e).openStep = 0
        /\ Advance(t, e).openStep = 0 /\ Scan(s, e).pending = <<>> /\ Scan(s, e).recorded = {}
    BY <1>1, <2>1, <2>a, <2>b
  <2> QED
    BY <2>2, <1>e DEF Paired
<1>2. CASE e.type = "step/start"
  <2>1. t.openStep = 0 /\ s.pending = <<>> /\ s.recorded = {}
    BY <1>2, <1>v, ValidMeans DEF Paired
  <2>2. /\ Scan(s, e).openTurn = Advance(t, e).openTurn
        /\ Scan(s, e).openStep = Advance(t, e).openStep /\ Scan(s, e).pending = <<>>
        /\ Scan(s, e).recorded = {}
    <3>1. /\ Scan(s, e).openTurn = s.openTurn /\ Scan(s, e).openStep = e.step
          /\ Scan(s, e).pending = s.pending /\ Scan(s, e).recorded = s.recorded
      BY <1>2, ScanEffect
    <3>2. Advance(t, e).openTurn = t.openTurn /\ Advance(t, e).openStep = e.step
      BY <1>2, AdvanceEffect
    <3> QED
      BY <2>1, <3>1, <3>2 DEF Paired
  <2> QED
    BY <2>2, <1>e DEF Paired
<1>3. CASE e.type = "step/end"
  <2>2. /\ Scan(s, e).openTurn = Advance(t, e).openTurn
        /\ Scan(s, e).openStep = Advance(t, e).openStep /\ Scan(s, e).pending = <<>>
        /\ Scan(s, e).recorded = {}
    <3>1. /\ Scan(s, e).openTurn = s.openTurn /\ Scan(s, e).openStep = 0
          /\ Scan(s, e).pending = <<>> /\ Scan(s, e).recorded = {}
      BY <1>3, ScanEffect
    <3>2. Advance(t, e).openTurn = t.openTurn /\ Advance(t, e).openStep = 0
      BY <1>3, AdvanceEffect
    <3> QED
      BY <3>1, <3>2 DEF Paired
  <2> QED
    BY <2>2, <1>e DEF Paired
<1>4. CASE e.type = "assistant/message"
  <2>1. t.openTurn = e.turn /\ t.openStep = e.step /\ e.turn \in Nat /\ e.step \in Nat
    BY <1>4, <1>v, ValidMeans, EventFields
  <2>2. h.asked = <<>> /\ \E n \in Nat : e.calls = Asking(e.turn, e.step, n)
    BY <1>4 DEF Fits
  <2>3. PICK n \in Nat : e.calls = Asking(e.turn, e.step, n)
    BY <2>2
  <2>4. /\ e.calls \in Seq(Ids) /\ Len(e.calls) = n
        /\ \A i \in 1..n : e.calls[i] = <<e.turn, e.step, i>>
    <3>1. /\ Asking(e.turn, e.step, n) \in Seq(Ids) /\ Len(Asking(e.turn, e.step, n)) = n
          /\ \A i \in 1..n : Asking(e.turn, e.step, n)[i] = <<e.turn, e.step, i>>
      BY <2>1, AskedCalls, Zenon
    <3> QED
      BY <2>3, <3>1
  <2>5. s.pending = <<>>
    <3>1. CASE t.openStep = 0
      BY <3>1 DEF Paired
    <3>2. CASE t.openStep # 0
      <4>1. h.answered \in Seq(Ids) /\ h.answered \o s.pending = <<>>
        BY <2>2, <3>2 DEF Answering, Hearings
      <4>2. Len(h.answered \o s.pending) = Len(h.answered) + Len(s.pending)
        BY <1>0, <4>1, ConcatProperties
      <4>3. Len(s.pending) = 0
        BY <1>0, <1>e, <4>1, <4>2, LenProperties
      <4> QED
        BY <1>0, <4>3, EmptySeq
    <3> QED
      BY <3>1, <3>2
  <2>6. s.pending \o e.calls = e.calls
    BY <2>4, <2>5, ConcatEmptySeq
  <2>7. /\ Scan(s, e).openTurn = t.openTurn /\ Scan(s, e).openStep = t.openStep
        /\ Scan(s, e).pending = e.calls /\ Scan(s, e).recorded = s.recorded
        /\ Advance(t, e) = t
    <3>1. /\ Scan(s, e).openTurn = s.openTurn /\ Scan(s, e).openStep = s.openStep
          /\ Scan(s, e).pending = s.pending \o e.calls /\ Scan(s, e).recorded = s.recorded
      BY <1>4, ScanEffect
    <3>2. Advance(t, e) = t
      BY <1>4, AdvanceEffect
    <3> QED
      BY <2>6, <3>1, <3>2 DEF Paired
  <2>8. \A i \in 1..n : e.calls[i][1] = e.turn /\ e.calls[i][2] = e.step /\ e.calls[i][3] = i
    BY <2>4
  <2>9. s.recorded = {} /\ t.openStep # 0
    <3>1. t.openStep # 0
      BY <1>4, <1>v
    <3>2. s.recorded \subseteq ToSet(h.asked)
      BY <3>1 DEF Answering
    <3>3. ToSet(<<>>) = {}
      BY <1>e DEF ToSet
    <3> QED
      BY <2>2, <3>1, <3>2, <3>3
  <2>10. /\ \A i \in 1..Len(e.calls) : e.calls[i][1] = t.openTurn /\ e.calls[i][2] = t.openStep
         /\ \A i, j \in 1..Len(e.calls) : e.calls[i] = e.calls[j] => i = j
    BY <2>1, <2>4, <2>8
  <2>11. s.openTurn = t.openTurn /\ s.openStep = t.openStep
    BY DEF Paired
  <2>12. \A i \in 1..Len(e.calls) : e.calls[i] \in s.recorded => e.calls[i] \in t.pendingCalls
    BY <2>9
  <2> QED
    BY <2>7, <2>9, <2>10, <2>11, <2>12, Zenon DEF Paired
<1>5. CASE e.type = "tool/call"
  <2>1. t.openStep # 0 /\ e.call \in ToSet(s.pending)
    <3>1. e.call \in ToSet(s.pending)
      BY <1>5 DEF Fits
    <3>2. s.pending # <<>>
      BY <3>1 DEF ToSet
    <3> QED
      BY <3>1, <3>2 DEF Paired
  <2>2. /\ Scan(s, e).openTurn = s.openTurn /\ Scan(s, e).openStep = s.openStep
        /\ Scan(s, e).pending = s.pending
        /\ Scan(s, e).recorded = s.recorded \cup ({e.call} \cap ToSet(s.pending))
        /\ Advance(t, e).openTurn = t.openTurn /\ Advance(t, e).openStep = t.openStep
        /\ Advance(t, e).pendingCalls = t.pendingCalls \cup {e.call}
    <3>1. /\ Scan(s, e).openTurn = s.openTurn /\ Scan(s, e).openStep = s.openStep
          /\ Scan(s, e).pending = s.pending
          /\ Scan(s, e).recorded = s.recorded \cup ({e.call} \cap ToSet(s.pending))
      BY <1>5, ScanEffect
    <3>2. /\ Advance(t, e).openTurn = t.openTurn /\ Advance(t, e).openStep = t.openStep
          /\ Advance(t, e).pendingCalls = t.pendingCalls \cup {e.call}
      BY <1>5, AdvanceEffect
    <3> QED
      BY <3>1, <3>2
  <2>4. /\ s.openTurn = t.openTurn /\ s.openStep = t.openStep
        /\ \A i \in 1..Len(s.pending) :
             s.pending[i][1] = t.openTurn /\ s.pending[i][2] = t.openStep
        /\ \A i, j \in 1..Len(s.pending) : s.pending[i] = s.pending[j] => i = j
        /\ \A i \in 1..Len(s.pending) :
             s.pending[i] \in s.recorded => s.pending[i] \in t.pendingCalls
    BY DEF Paired
  <2>5. \A i \in 1..Len(s.pending) :
          s.pending[i] \in Scan(s, e).recorded => s.pending[i] \in Advance(t, e).pendingCalls
    BY <2>2, <2>4
  <2> QED
    <3>1. /\ Advance(t, e).openStep # 0 /\ Scan(s, e).openTurn = Advance(t, e).openTurn
          /\ Scan(s, e).openStep = Advance(t, e).openStep
      BY <2>1, <2>2, <2>4
    <3>2. /\ \A i \in 1..Len(s.pending) :
               /\ s.pending[i][1] = Advance(t, e).openTurn
               /\ s.pending[i][2] = Advance(t, e).openStep
          /\ \A i, j \in 1..Len(s.pending) : s.pending[i] = s.pending[j] => i = j
      BY <2>2, <2>4
    <3>3. Scan(s, e).pending = s.pending
      BY <2>2
    <3> QED
      BY <2>5, <3>1, <3>2, <3>3, Zenon DEF Paired
<1>6. CASE e.type = "tool/result"
  <2>1. s.pending # <<>> /\ e.call = s.pending[1]
    BY <1>6 DEF Fits
  <2>2. /\ Scan(s, e).openTurn = s.openTurn /\ Scan(s, e).openStep = s.openStep
        /\ Scan(s, e).pending = Tail(s.pending) /\ Scan(s, e).recorded = s.recorded
        /\ Advance(t, e).openTurn = t.openTurn /\ Advance(t, e).openStep = t.openStep
        /\ Advance(t, e).pendingCalls = t.pendingCalls \ {e.call}
    <3>1. /\ Scan(s, e).openTurn = s.openTurn /\ Scan(s, e).openStep = s.openStep
          /\ Scan(s, e).pending = RemoveFirst(s.pending, e.call)
          /\ Scan(s, e).recorded = s.recorded
      BY <1>6, ScanEffect
    <3>2. /\ Advance(t, e).openTurn = t.openTurn /\ Advance(t, e).openStep = t.openStep
          /\ Advance(t, e).pendingCalls = t.pendingCalls \ {e.call}
      BY <1>6, AdvanceEffect
    <3>3. RemoveFirst(s.pending, s.pending[1]) = Tail(s.pending)
      BY <1>0, <2>1, RemoveHead
    <3> QED
      BY <2>1, <3>1, <3>2, <3>3
  <2>3. /\ Len(Tail(s.pending)) = Len(s.pending) - 1 /\ Len(s.pending) >= 1
        /\ \A i \in 1..Len(Tail(s.pending)) :
             i + 1 \in 1..Len(s.pending) /\ Tail(s.pending)[i] = s.pending[i + 1]
    BY <1>0, <2>1, TailIs
  <2>4. t.openStep # 0
    BY <2>1 DEF Paired
  <2>5. 1 \in 1..Len(s.pending)
    BY <1>0, <2>3, LenProperties
  <2>6. ASSUME NEW i \in 1..Len(Tail(s.pending))
        PROVE  /\ Tail(s.pending)[i][1] = t.openTurn /\ Tail(s.pending)[i][2] = t.openStep
               /\ Tail(s.pending)[i] \in s.recorded => Tail(s.pending)[i] \in t.pendingCalls
               /\ Tail(s.pending)[i] # s.pending[1]
    <3>1. i + 1 \in 1..Len(s.pending) /\ Tail(s.pending)[i] = s.pending[i + 1] /\ i + 1 # 1
      BY <2>3
    <3> QED
      BY <2>5, <3>1 DEF Paired
  <2>7. ASSUME NEW i \in 1..Len(Tail(s.pending)), NEW j \in 1..Len(Tail(s.pending)),
               Tail(s.pending)[i] = Tail(s.pending)[j]
        PROVE  i = j
    <3>1. /\ i + 1 \in 1..Len(s.pending) /\ j + 1 \in 1..Len(s.pending)
          /\ s.pending[i + 1] = s.pending[j + 1]
      BY <2>3, <2>7
    <3>2. i + 1 = j + 1
      BY <3>1 DEF Paired
    <3> QED
      BY <3>2
  <2>8. s.openTurn = t.openTurn /\ s.openStep = t.openStep
    BY DEF Paired
  <2>9. \A i \in 1..Len(Tail(s.pending)) :
          Tail(s.pending)[i] \in s.recorded => Tail(s.pending)[i] \in t.pendingCalls \ {e.call}
    BY <2>1, <2>6
  <2> DEFINE u == Tail(s.pending)
  <2>10. /\ \A i \in 1..Len(u) : u[i][1] = t.openTurn /\ u[i][2] = t.openStep
         /\ \A i, j \in 1..Len(u) : u[i] = u[j] => i = j
         /\ \A i \in 1..Len(u) : u[i] \in s.recorded => u[i] \in t.pendingCalls \ {e.call}
    BY <2>6, <2>7, <2>9
  <2> HIDE DEF u
  <2>11. Scan(s, e).pending = u
    BY <2>2 DEF u
  <2> QED
    BY <2>2, <2>4, <2>8, <2>10, <2>11, Zenon DEF Paired
<1> QED
  BY <1>1, <1>2, <1>3, <1>4, <1>5, <1>6, EventFields

\* The four folds, typed and unfolded by one event.
LEMMA Folded ==
    ASSUME NEW es \in Seq(Event)
    PROVE  /\ ScanOf(es) \in Scans /\ TraceOf(es) \in Traces(Ids) /\ LastStep(es) \in Hearings
           /\ Observation(es) \in Observed
<1>1. ScanOf(es) \in Scans
  BY ScanFold, Zenon DEF ScanOf
<1>2. TraceOf(es) \in Traces(Ids)
  BY AdvanceFold, Zenon DEF TraceOf
<1>3. LastStep(es) \in Hearings
  BY HeardFold, Zenon DEF LastStep, Unheard
<1>4. Observation(es) \in Observed
  BY ObserveFold, Zenon DEF Observation
<1> QED
  BY <1>1, <1>2, <1>3, <1>4

\* One more event is one more application of each loop's body.
LEMMA Unfolded ==
    ASSUME NEW es \in Seq(Event), NEW e \in Event
    PROVE  /\ ScanOf(Append(es, e)) = Scan(ScanOf(es), e)
           /\ TraceOf(Append(es, e)) = Advance(TraceOf(es), e)
           /\ LastStep(Append(es, e)) = Heard(LastStep(es), e)
           /\ Observation(Append(es, e)) = Observe(Observation(es), e)
<1>1. ScanOf(Append(es, e)) = Scan(ScanOf(es), e)
  BY ScanFold, Zenon DEF ScanOf
<1>2. TraceOf(Append(es, e)) = Advance(TraceOf(es), e)
  BY AdvanceFold, Zenon DEF TraceOf
<1>3. LastStep(Append(es, e)) = Heard(LastStep(es), e)
  BY HeardFold, Zenon DEF LastStep, Unheard
<1>4. Observation(Append(es, e)) = Observe(Observation(es), e)
  BY ObserveFold, Zenon DEF Observation
<1> QED
  BY <1>1, <1>2, <1>3, <1>4

\* Concatenation of calls is associative.
LEMMA Regroup ==
    ASSUME NEW p \in Seq(Ids), NEW q \in Seq(Ids), NEW r \in Seq(Ids)
    PROVE  (p \o q) \o r = p \o (q \o r)
BY ConcatAssociative

\* The members of a concatenation.
LEMMA MembersOf ==
    ASSUME NEW T, NEW a \in Seq(T), NEW b \in Seq(T)
    PROVE  ToSet(a) \subseteq ToSet(a \o b) /\ ToSet(b) \subseteq ToSet(a \o b)
<1>1. /\ Len(a) \in Nat /\ Len(b) \in Nat /\ a \o b \in Seq(T)
      /\ Len(a \o b) = Len(a) + Len(b)
      /\ \A i \in 1..Len(a) + Len(b) :
           (a \o b)[i] = IF i <= Len(a) THEN a[i] ELSE b[i - Len(a)]
  BY ConcatProperties, LenProperties
<1>2. DOMAIN a = 1..Len(a) /\ DOMAIN b = 1..Len(b) /\ DOMAIN (a \o b) = 1..Len(a) + Len(b)
  BY <1>1, LenProperties
<1>3. ASSUME NEW i \in 1..Len(a) PROVE a[i] \in ToSet(a \o b)
  <2>1. i \in 1..Len(a) + Len(b) /\ (a \o b)[i] = a[i]
    BY <1>1
  <2> QED
    BY <2>1, <1>2, Zenon DEF ToSet
<1>4. ASSUME NEW i \in 1..Len(b) PROVE b[i] \in ToSet(a \o b)
  <2>1. i + Len(a) \in 1..Len(a) + Len(b) /\ ~(i + Len(a) <= Len(a))
        /\ (i + Len(a)) - Len(a) = i
    BY <1>1
  <2>2. (a \o b)[i + Len(a)] = b[i]
    BY <1>1, <2>1
  <2> QED
    BY <2>1, <2>2, <1>2, Zenon DEF ToSet
<1> QED
  BY <1>2, <1>3, <1>4 DEF ToSet

\* The answers of the last step, and what is pending of it, stay all it asked.
LEMMA AnsweringKeeps ==
    ASSUME NEW s \in Scans, NEW t \in Traces(Ids), NEW h \in Hearings, NEW e \in Event,
           Counted(t), Paired(s, t), t.openStep # 0 => Answering(s, h), Fits(s, t, h, e),
           Advance(t, e).openStep # 0
    PROVE  Answering(Scan(s, e), Heard(h, e))
<1>0. /\ s.pending \in Seq(Ids) /\ h.asked \in Seq(Ids) /\ h.answered \in Seq(Ids)
  BY DEF Scans, Hearings
<1>v. /\ Valid(t, e)
      /\ e.type \in {"assistant/message", "tool/call", "tool/result"} => t.openStep # 0
  BY DEF Fits
<1>e. <<>> \o <<>> = <<>> /\ Len(<<>>) = 0 /\ ToSet(<<>>) = {}
  BY DEF ToSet
<1>1. CASE e.type \in {"turn/start", "turn/end", "step/end"}
  BY <1>1, <1>v, ValidMeans, AdvanceEffect DEF Counted
<1>2. CASE e.type = "step/start"
  <2>1. s.pending = <<>> /\ s.recorded = {}
    BY <1>2, <1>v, ValidMeans DEF Paired
  <2>2. Scan(s, e).pending = s.pending /\ Scan(s, e).recorded = s.recorded
    BY <1>2, ScanEffect
  <2>3. Heard(h, e).asked = <<>> /\ Heard(h, e).answered = <<>>
    BY <1>2, HeardEffect
  <2> QED
    BY <2>1, <2>2, <2>3, <1>e DEF Answering
<1>3. CASE e.type = "assistant/message"
  <2>1. h.asked = <<>> /\ e.calls \in Seq(Ids)
    BY <1>3, EventFields DEF Fits
  <2>2. h.asked = h.answered \o s.pending /\ s.recorded \subseteq ToSet(h.asked)
    BY <1>3, <1>v DEF Answering
  <2>3. h.answered = <<>> /\ s.pending = <<>> /\ s.recorded = {}
    <3>1. h.answered \in Seq(Ids) /\ s.pending \in Seq(Ids)
      BY <1>0
    <3>2. h.answered \o s.pending = <<>> /\ s.recorded \subseteq {}
      BY <1>e, <2>1, <2>2
    <3>3. h.answered = <<>> /\ s.pending = <<>>
      BY <3>1, <3>2, ConcatEqualIffEmpty
    <3> QED
      BY <3>2, <3>3
  <2>4. Scan(s, e).pending = s.pending \o e.calls /\ Scan(s, e).recorded = s.recorded
    BY <1>3, ScanEffect
  <2>5. Heard(h, e).asked = h.asked \o e.calls /\ Heard(h, e).answered = h.answered
    BY <1>3, HeardEffect
  <2>6. <<>> \o e.calls = e.calls
    BY <2>1, ConcatEmptySeq
  <2> QED
    BY <2>1, <2>3, <2>4, <2>5, <2>6 DEF Answering
<1>4. CASE e.type = "tool/call"
  <2>2. h.asked = h.answered \o s.pending /\ s.recorded \subseteq ToSet(h.asked)
    BY <1>4, <1>v DEF Answering
  <2>3. /\ Scan(s, e).pending = s.pending
        /\ Scan(s, e).recorded = s.recorded \cup ({e.call} \cap ToSet(s.pending))
    BY <1>4, ScanEffect
  <2>4. Heard(h, e) = h
    BY <1>4, HeardEffect
  <2>5. ToSet(s.pending) \subseteq ToSet(h.asked)
    BY <1>0, <2>2, MembersOf
  <2> QED
    BY <2>2, <2>3, <2>4, <2>5 DEF Answering
<1>5. CASE e.type = "tool/result"
  <2>1. s.pending # <<>> /\ e.call = s.pending[1] /\ e.call \in Ids
    BY <1>5, EventFields DEF Fits
  <2>2. h.asked = h.answered \o s.pending /\ s.recorded \subseteq ToSet(h.asked)
    BY <1>5, <1>v DEF Answering
  <2>3. Scan(s, e).pending = Tail(s.pending) /\ Scan(s, e).recorded = s.recorded
    <3>1. Scan(s, e).pending = RemoveFirst(s.pending, e.call)
          /\ Scan(s, e).recorded = s.recorded
      BY <1>5, ScanEffect
    <3>2. RemoveFirst(s.pending, s.pending[1]) = Tail(s.pending)
      BY <1>0, <2>1, RemoveHead
    <3> QED
      BY <2>1, <3>1, <3>2
  <2>4. Heard(h, e).asked = h.asked /\ Heard(h, e).answered = Append(h.answered, e.call)
    BY <1>5, HeardEffect
  <2>5. s.pending = <<e.call>> \o Tail(s.pending) /\ Tail(s.pending) \in Seq(Ids)
    BY <1>0, <2>1, TailIs
  <2>6. <<e.call>> \in Seq(Ids)
    BY <2>1
  <2>7. Append(h.answered, e.call) = h.answered \o <<e.call>>
    BY <1>0, <2>1, AppendIsConcat
  <2>8. (h.answered \o <<e.call>>) \o Tail(s.pending)
          = h.answered \o (<<e.call>> \o Tail(s.pending))
    <3> DEFINE x == <<e.call>>
               y == Tail(s.pending)
    <3>1. h.answered \in Seq(Ids) /\ x \in Seq(Ids) /\ y \in Seq(Ids)
      BY <1>0, <2>5, <2>6
    <3> HIDE DEF x, y
    <3>2. (h.answered \o x) \o y = h.answered \o (x \o y)
      BY <3>1, Regroup
    <3> QED
      BY <3>2, Zenon DEF x, y
  <2>9. Append(h.answered, e.call) \o Tail(s.pending) = h.asked
    BY <2>2, <2>5, <2>7, <2>8, Zenon
  <2> QED
    BY <2>2, <2>3, <2>4, <2>9, Zenon DEF Answering
<1> QED
  BY <1>1, <1>2, <1>3, <1>4, <1>5, EventFields

\* What was known stays known.
LEMMA KnownKeeps ==
    ASSUME NEW s \in Scans, NEW t \in Traces(Ids), NEW h \in Hearings, NEW e \in Event,
           Counted(t), Fits(s, t, h, e), NEW c \in Ids, Known(t, h, c)
    PROVE  Known(Advance(t, e), Heard(h, e), c)
<1>0. /\ h.asked \in Seq(Ids) /\ c[1] \in Nat /\ c[2] \in Nat
      /\ t.openTurn \in Nat /\ t.openStep \in Nat /\ t.nextTurn \in Nat /\ t.nextStep \in Nat
  BY DEF Hearings, Ids, Traces
<1>v. /\ Valid(t, e) /\ (e.type # "turn/start" => t.openTurn # 0)
      /\ e.type \in {"assistant/message", "tool/call", "tool/result"} => t.openStep # 0
  BY DEF Fits
<1>1. CASE e.type = "turn/start"
  <2>1. t.openTurn = 0 /\ Advance(t, e).nextTurn = t.nextTurn
    BY <1>1, <1>v, ValidMeans, AdvanceEffect
  <2> QED
    BY <1>0, <2>1 DEF Known, Counted
<1>2. CASE e.type = "turn/end"
  <2>1. Advance(t, e).nextTurn = t.nextTurn + 1
    BY <1>2, AdvanceEffect
  <2> QED
    BY <1>0, <1>2, <1>v, <2>1 DEF Known, Counted
<1>3. CASE e.type = "step/start"
  <2>1. /\ Advance(t, e).nextTurn = t.nextTurn /\ Advance(t, e).openTurn = t.openTurn
        /\ Advance(t, e).nextStep = t.nextStep
    BY <1>3, AdvanceEffect
  <2>2. t.openStep = 0
    BY <1>3, <1>v, ValidMeans
  <2> QED
    BY <1>0, <2>1, <2>2 DEF Known, Counted
<1>4. CASE e.type = "step/end"
  <2>1. /\ Advance(t, e).nextTurn = t.nextTurn /\ Advance(t, e).openTurn = t.openTurn
        /\ Advance(t, e).nextStep = t.nextStep + 1
    BY <1>4, AdvanceEffect
  <2>2. t.openStep # 0 => t.openStep = t.nextStep
    BY DEF Counted
  <2> QED
    BY <1>0, <2>1, <2>2 DEF Known, Counted
<1>5. CASE e.type = "assistant/message"
  <2>1. Advance(t, e) = t /\ Heard(h, e).asked = h.asked \o e.calls
    BY <1>5, AdvanceEffect, HeardEffect
  <2>2. ToSet(h.asked) \subseteq ToSet(h.asked \o e.calls)
    BY <1>0, <1>5, MembersOf, EventFields
  <2> QED
    BY <2>1, <2>2 DEF Known
<1>6. CASE e.type \in {"tool/call", "tool/result"}
  <2>1. /\ Advance(t, e).openTurn = t.openTurn /\ Advance(t, e).openStep = t.openStep
        /\ Advance(t, e).nextTurn = t.nextTurn /\ Advance(t, e).nextStep = t.nextStep
    BY <1>6, AdvanceEffect
  <2>2. Heard(h, e).asked = h.asked
    BY <1>6, HeardEffect
  <2> QED
    BY <2>1, <2>2 DEF Known
<1> QED
  BY <1>1, <1>2, <1>3, <1>4, <1>5, <1>6, EventFields

\* The events of a log with one more event.
LEMMA Appended ==
    ASSUME NEW es \in Seq(Event), NEW e \in Event
    PROVE  /\ Append(es, e) \in Seq(Event) /\ Len(es) \in Nat
           /\ Len(Append(es, e)) = Len(es) + 1
           /\ \A i \in 1..Len(es) : Append(es, e)[i] = es[i]
           /\ Append(es, e)[Len(es) + 1] = e
           /\ \A i \in 1..Len(es) : es[i] \in Event
BY AppendProperties, LenProperties, ElementOfSeq

\* A pending call is one the last step asked for.
LEMMA PendingAsked ==
    ASSUME NEW s \in Scans, NEW h \in Hearings, Answering(s, h)
    PROVE  ToSet(s.pending) \subseteq ToSet(h.asked)
<1>1. s.pending \in Seq(Ids) /\ h.answered \in Seq(Ids) /\ h.asked = h.answered \o s.pending
  BY DEF Scans, Hearings, Answering
<1> QED
  BY <1>1, MembersOf

\* The pending calls of a log that an event names.
LEMMA NamesPending ==
    ASSUME NEW s \in Scans, NEW t \in Traces(Ids), NEW h \in Hearings, NEW e \in Event,
           Paired(s, t), t.openStep # 0 => Answering(s, h), Fits(s, t, h, e),
           e.type \in {"tool/call", "tool/result"}
    PROVE  /\ e.call \in Ids /\ e.call[1] = t.openTurn /\ e.call[2] = t.openStep
           /\ e.call \in ToSet(h.asked)
<1>1. t.openStep # 0 /\ e.call \in Ids
  BY EventFields DEF Fits
<1>2. s.pending \in Seq(Ids) /\ DOMAIN s.pending = 1..Len(s.pending)
  BY LenProperties DEF Scans
<1>3. \E i \in 1..Len(s.pending) : e.call = s.pending[i]
  <2>1. CASE e.type = "tool/call"
    BY <1>2, <2>1 DEF Fits, ToSet
  <2>2. CASE e.type = "tool/result"
    <3>1. s.pending # <<>> /\ e.call = s.pending[1]
      BY <2>2 DEF Fits
    <3>2. 1 \in 1..Len(s.pending)
      BY <1>2, <3>1, TailIs
    <3> QED
      BY <3>1, <3>2
  <2> QED
    BY <2>1, <2>2
<1>4. e.call \in ToSet(s.pending)
  BY <1>2, <1>3 DEF ToSet
<1>5. e.call[1] = t.openTurn /\ e.call[2] = t.openStep
  BY <1>3 DEF Paired
<1>6. ToSet(s.pending) \subseteq ToSet(h.asked)
  BY <1>1, PendingAsked
<1> QED
  BY <1>1, <1>4, <1>5, <1>6

\* The calls of a log stay known.
LEMMA CallsKnownKeeps ==
    ASSUME NEW es \in Seq(Event), NEW e \in Event,
           NEW s \in Scans, NEW t \in Traces(Ids), NEW h \in Hearings,
           Counted(t), Paired(s, t), t.openStep # 0 => Answering(s, h), Fits(s, t, h, e),
           CallsKnown(es, t, h)
    PROVE  CallsKnown(Append(es, e), Advance(t, e), Heard(h, e))
<1>1. ASSUME NEW i \in 1..Len(es), es[i].type \in {"tool/call", "tool/result"}
      PROVE  Known(Advance(t, e), Heard(h, e), es[i].call)
  <2>1. es[i] \in Event
    BY Appended
  <2>2. es[i].call \in Ids
    BY <1>1, <2>1, EventFields
  <2>3. Known(t, h, es[i].call)
    BY <1>1 DEF CallsKnown
  <2> QED
    BY <2>2, <2>3, KnownKeeps
<1>2. ASSUME e.type \in {"tool/call", "tool/result"}
      PROVE  Known(Advance(t, e), Heard(h, e), e.call)
  <2>1. e.call \in Ids /\ Known(t, h, e.call)
    BY <1>2, NamesPending DEF Known
  <2> QED
    BY <2>1, KnownKeeps
<1> QED
  BY <1>1, <1>2, Appended DEF CallsKnown

\* The pending calls stay those without a result, recorded when they were started.
LEMMA MatchedKeeps ==
    ASSUME NEW es \in Seq(Event), NEW e \in Event,
           NEW s \in Scans, NEW t \in Traces(Ids), NEW h \in Hearings,
           Counted(t), Paired(s, t), t.openStep # 0 => Answering(s, h), Fits(s, t, h, e),
           CallsKnown(es, t, h), Matched(es, s)
    PROVE  Matched(Append(es, e), Scan(s, e))
<1>0. /\ t.openTurn \in Nat /\ t.openStep \in Nat /\ t.nextTurn \in Nat /\ t.nextStep \in Nat
      /\ s.pending \in Seq(Ids)
  BY DEF Traces, Scans
<1>v. /\ Valid(t, e) /\ (e.type # "turn/start" => t.openTurn # 0)
      /\ e.type \in {"assistant/message", "tool/call", "tool/result"} => t.openStep # 0
  BY DEF Fits
<1>e. Len(<<>>) = 0 /\ 1..0 = {}
  OBVIOUS
<1>1. CASE e.type \in {"turn/start", "turn/end", "step/start", "step/end"}
  <2>1. Scan(s, e).pending = <<>>
    <3>1. CASE e.type = "step/start"
      <4>1. s.pending = <<>>
        BY <1>v, <3>1, ValidMeans DEF Paired
      <4> QED
        BY <3>1, <4>1, ScanEffect
    <3>2. CASE e.type \in {"turn/start", "turn/end", "step/end"}
      BY <3>2, ScanEffect
    <3> QED
      BY <1>1, <3>1, <3>2
  <2> QED
    BY <2>1, <1>e DEF Matched
<1>2. CASE e.type = "assistant/message"
  <2>1. t.openTurn = e.turn /\ t.openStep = e.step /\ t.openStep # 0 /\ t.openTurn # 0
    BY <1>2, <1>v, ValidMeans
  <2>2. t.openTurn = t.nextTurn /\ t.openStep = t.nextStep
    BY <2>1 DEF Counted
  <2>3. h.asked = <<>>
    BY <1>2 DEF Fits
  <2>4. \A c \in Ids : Known(t, h, c) => ~(c[1] = t.openTurn /\ c[2] = t.openStep)
    <3>1. ToSet(h.asked) = {}
      BY <2>3, <1>e DEF ToSet
    <3>2. \A c \in Ids : c[1] \in Nat /\ c[2] \in Nat
      BY DEF Ids
    <3> QED
      BY <1>0, <2>2, <3>1, <3>2 DEF Known
  <2>5. s.pending = <<>>
    <3>1. h.asked = h.answered \o s.pending /\ h.answered \in Seq(Ids)
      BY <2>1 DEF Answering, Hearings
    <3>2. h.answered \o s.pending = <<>>
      BY <2>3, <3>1
    <3> QED
      BY <1>0, <3>1, <3>2, ConcatEqualIffEmpty
  <2>6. Scan(s, e).pending = s.pending \o e.calls /\ e.calls \in Seq(Ids)
    BY <1>2, ScanEffect, EventFields
  <2>7. s.pending \o e.calls = e.calls
    BY <2>5, <2>6, ConcatEmptySeq
  <2>8. Paired(Scan(s, e), Advance(t, e)) /\ Advance(t, e) = t
    BY <1>2, PairedKeeps, AdvanceEffect
  <2> DEFINE p == Scan(s, e).pending
  <2>9. p \in Seq(Ids) /\ \A j \in 1..Len(p) : p[j][1] = t.openTurn /\ p[j][2] = t.openStep
    BY <2>6, <2>7, <2>8 DEF Paired
  <2> HIDE DEF p
  <2>10. \A j \in 1..Len(p) : p[j] \in Ids
    BY <2>9, ElementOfSeq
  <2>11. ASSUME NEW i \in 1..Len(es), es[i].type \in {"tool/call", "tool/result"},
                NEW j \in 1..Len(p)
         PROVE  es[i].call # p[j]
    <3>1. Known(t, h, es[i].call)
      BY <2>11 DEF CallsKnown
    <3> QED
      BY <2>4, <2>9, <2>10, <3>1
  <2>12. ASSUME NEW i \in 1..Len(Append(es, e)), NEW j \in 1..Len(p)
         PROVE  /\ Append(es, e)[i].type = "tool/call" => Append(es, e)[i].call # p[j]
                /\ Append(es, e)[i].type = "tool/result" => Append(es, e)[i].call # p[j]
    <3>1. CASE i \in 1..Len(es)
      BY <3>1, <2>11, Appended
    <3>2. CASE i \notin 1..Len(es)
      <4>1. i = Len(es) + 1
        BY <3>2, Appended
      <4> QED
        BY <1>2, <4>1, Appended
    <3> QED
      BY <3>1, <3>2
  <2> QED
    BY <2>12 DEF Matched, p
<1>3. CASE e.type = "tool/call"
  <2>1. e.call \in ToSet(s.pending)
    BY <1>3 DEF Fits
  <2>2. /\ Scan(s, e).pending = s.pending
        /\ Scan(s, e).recorded = s.recorded \cup ({e.call} \cap ToSet(s.pending))
    BY <1>3, ScanEffect
  <2>3. s.recorded \subseteq Scan(s, e).recorded /\ e.call \in Scan(s, e).recorded
    BY <2>1, <2>2
  <2>4. ASSUME NEW i \in 1..Len(Append(es, e)), NEW j \in 1..Len(s.pending)
        PROVE  /\ Append(es, e)[i].type = "tool/call" /\ Append(es, e)[i].call = s.pending[j]
                    => s.pending[j] \in Scan(s, e).recorded
               /\ Append(es, e)[i].type = "tool/result" => Append(es, e)[i].call # s.pending[j]
    <3>1. CASE i \in 1..Len(es)
      <4>1. Append(es, e)[i] = es[i]
        BY <3>1, Appended
      <4> QED
        BY <3>1, <4>1, <2>3 DEF Matched
    <3>2. CASE i \notin 1..Len(es)
      <4>1. i = Len(es) + 1
        BY <3>2, Appended
      <4>2. Append(es, e)[i] = e
        BY <4>1, Appended
      <4> QED
        BY <1>3, <4>2, <2>3
    <3> QED
      BY <3>1, <3>2
  <2> QED
    BY <2>2, <2>4, Zenon DEF Matched
<1>4. CASE e.type = "tool/result"
  <2>1. s.pending # <<>> /\ e.call = s.pending[1]
    BY <1>4 DEF Fits
  <2> DEFINE p == Tail(s.pending)
  <2>2. Scan(s, e).pending = p /\ Scan(s, e).recorded = s.recorded
    <3>1. Scan(s, e).pending = RemoveFirst(s.pending, e.call)
          /\ Scan(s, e).recorded = s.recorded
      BY <1>4, ScanEffect
    <3>2. RemoveFirst(s.pending, s.pending[1]) = Tail(s.pending)
      BY <1>0, <2>1, RemoveHead
    <3> QED
      BY <2>1, <3>1, <3>2
  <2>3. /\ \A j \in 1..Len(p) : j + 1 \in 1..Len(s.pending) /\ p[j] = s.pending[j + 1]
        /\ 1 \in 1..Len(s.pending)
    BY <1>0, <2>1, TailIs
  <2> HIDE DEF p
  <2>4. ASSUME NEW i \in 1..Len(Append(es, e)), NEW j \in 1..Len(p)
        PROVE  /\ Append(es, e)[i].type = "tool/call" /\ Append(es, e)[i].call = p[j]
                    => p[j] \in s.recorded
               /\ Append(es, e)[i].type = "tool/result" => Append(es, e)[i].call # p[j]
    <3>0. j + 1 \in 1..Len(s.pending) /\ p[j] = s.pending[j + 1] /\ j + 1 # 1
      BY <2>3
    <3>1. CASE i \in 1..Len(es)
      <4>1. Append(es, e)[i] = es[i]
        BY <3>1, Appended
      <4> QED
        BY <3>0, <3>1, <4>1 DEF Matched
    <3>2. CASE i \notin 1..Len(es)
      <4>1. i = Len(es) + 1
        BY <3>2, Appended
      <4>2. Append(es, e)[i] = e
        BY <4>1, Appended
      <4>3. s.pending[1] # s.pending[j + 1]
        BY <2>3, <3>0 DEF Paired
      <4> QED
        BY <1>4, <2>1, <3>0, <4>2, <4>3
    <3> QED
      BY <3>1, <3>2
  <2> QED
    BY <2>2, <2>4, Zenon DEF Matched
<1> QED
  BY <1>1, <1>2, <1>3, <1>4, EventFields

\* Max of a set that has a greatest number is that number.
LEMMA MaxOf ==
    ASSUME NEW S \in SUBSET Nat, NEW n \in S, \A y \in S : n >= y
    PROVE  Max(S) = n
<1>1. \A y \in S : y \in Nat
  OBVIOUS
<1>2. Max(S) \in S /\ \A y \in S : Max(S) >= y
  BY DEF Max
<1>3. Max(S) \in Nat /\ n \in Nat /\ Max(S) >= n /\ n >= Max(S)
  BY <1>1, <1>2
<1> QED
  BY <1>3

\* A nonempty set of positions has a greatest one.
LEMMA MaxIn ==
    ASSUME NEW N \in Nat, NEW B \in SUBSET (1..N), B # {}
    PROVE  Max(B) \in B
<1> DEFINE C == {N - i : i \in B}
<1>1. C \in SUBSET Nat /\ C # {}
  <2>1. \A i \in B : N - i \in Nat
    OBVIOUS
  <2> QED
    BY <2>1
<1>2. PICK x \in C : \A y \in C : x <= y
  BY <1>1, LeastNumber
<1>3. PICK m \in B : x = N - m
  BY <1>2
<1>4. \A y \in B : N - m <= N - y
  BY <1>2, <1>3
<1>5. \A y \in B : m >= y
  BY <1>4
<1> QED
  BY <1>5 DEF Max

\* The last turn of a log is a number.
LEMMA LastTurnType ==
    ASSUME NEW es \in Seq(Event)
    PROVE  LastTurnOf(es) \in Nat
<1> DEFINE B == {i \in DOMAIN es : es[i].type = "turn/start"}
<1>1. CASE B = {}
  BY <1>1 DEF LastTurnOf
<1>2. CASE B # {}
  <2>1. B \in SUBSET (1..Len(es)) /\ Len(es) \in Nat
    BY LenProperties
  <2>2. Max(B) \in B
    BY <1>2, <2>1, MaxIn
  <2>3. es[Max(B)] \in Event
    BY <2>1, <2>2, ElementOfSeq
  <2>4. es[Max(B)].turn \in Nat
    BY <2>3, EventFields
  <2> HIDE DEF B
  <2> QED
    BY <1>2, <2>4 DEF LastTurnOf, B
<1> QED
  BY <1>1, <1>2

\* The last turn of a log with one more event.
LEMMA LastTurnGrows ==
    ASSUME NEW es \in Seq(Event), NEW e \in Event
    PROVE  LastTurnOf(Append(es, e)) = IF e.type = "turn/start" THEN e.turn ELSE LastTurnOf(es)
<1> DEFINE as == Append(es, e)
           A == {i \in DOMAIN as : as[i].type = "turn/start"}
           B == {i \in DOMAIN es : es[i].type = "turn/start"}
<1>1. /\ as \in Seq(Event) /\ Len(es) \in Nat /\ Len(as) = Len(es) + 1
      /\ \A i \in 1..Len(es) : as[i] = es[i]
      /\ as[Len(es) + 1] = e
  BY Appended
<1>2. DOMAIN as = 1..Len(es) + 1 /\ DOMAIN es = 1..Len(es)
  BY <1>1, LenProperties
<1> HIDE DEF as
<1>5. /\ \A i : i \in A <=> i \in 1..Len(es) + 1 /\ as[i].type = "turn/start"
      /\ \A i : i \in B <=> i \in 1..Len(es) /\ es[i].type = "turn/start"
  BY <1>2
<1>3. CASE e.type = "turn/start"
  <2> HIDE DEF A
  <2>1. Len(es) + 1 \in A /\ A \in SUBSET Nat /\ \A y \in A : Len(es) + 1 >= y
    <3>1. Len(es) + 1 \in 1..Len(es) + 1 /\ \A y \in 1..Len(es) + 1 : y \in Nat
          /\ Len(es) + 1 >= y
      BY <1>1
    <3>2. Len(es) + 1 \in A
      BY <1>1, <1>3, <1>5, <3>1
    <3> QED
      BY <1>5, <3>1, <3>2
  <2>2. Max(A) = Len(es) + 1
    BY <2>1, MaxOf
  <2>3. A # {}
    BY <2>1
  <2> HIDE DEF A
  <2>4. LastTurnOf(as) = as[Max(A)].turn
    BY <2>3 DEF LastTurnOf, A
  <2> QED
    BY <1>1, <1>3, <2>2, <2>4 DEF as
<1>4. CASE e.type # "turn/start"
  <2>1. A = B
    <3> HIDE DEF A, B
    <3>1. \A i \in 1..Len(es) : i \in 1..Len(es) + 1
      BY <1>1
    <3>2. \A i \in 1..Len(es) + 1 : i \in 1..Len(es) \/ i = Len(es) + 1
      BY <1>1
    <3>3. \A i : i \in A <=> i \in B
      BY <1>1, <1>4, <1>5, <3>1, <3>2
    <3> QED
      BY <3>3
  <2>2. \A i \in B : as[i] = es[i]
    BY <1>1, <1>2
  <2>3. CASE B = {}
    <3>1. LastTurnOf(as) = 0 /\ LastTurnOf(es) = 0
      BY <2>1, <2>3 DEF LastTurnOf
    <3> QED
      BY <1>4, <3>1 DEF as
  <2>4. CASE B # {}
    <3>1. Max(B) \in B
      BY <1>1, <1>2, <2>4, MaxIn
    <3> HIDE DEF A, B
    <3>2. LastTurnOf(as) = as[Max(A)].turn /\ LastTurnOf(es) = es[Max(B)].turn
      BY <2>1, <2>4 DEF LastTurnOf, A, B
    <3> QED
      BY <1>4, <2>1, <2>2, <3>1, <3>2 DEF as
  <2> QED
    BY <2>3, <2>4
<1> QED
  BY <1>3, <1>4

\* The last turn is the next one less the one that is not open.
LEMMA LatestKeeps ==
    ASSUME NEW es \in Seq(Event), NEW e \in Event, NEW t \in Traces(Ids),
           Counted(t), Valid(t, e), e.type # "turn/start" => t.openTurn # 0, Latest(es, t)
    PROVE  Latest(Append(es, e), Advance(t, e))
<1>0. /\ t.openTurn \in Nat /\ t.nextTurn \in Nat /\ e.turn \in Nat /\ t.nextTurn # 0
  BY EventFields DEF Traces, Counted
<1>1. t.nextTurn = LastTurnOf(es) + (IF t.openTurn = 0 THEN 1 ELSE 0)
  BY DEF Latest
<1>2. CASE e.type = "turn/start"
  <2>1. t.openTurn = 0 /\ e.turn = t.nextTurn
    BY <1>2, ValidMeans
  <2>2. Advance(t, e).openTurn = e.turn /\ Advance(t, e).nextTurn = t.nextTurn
    BY <1>2, AdvanceEffect
  <2>3. LastTurnOf(Append(es, e)) = e.turn
    BY <1>2, LastTurnGrows
  <2> QED
    BY <1>0, <2>1, <2>2, <2>3 DEF Latest
<1>3. CASE e.type # "turn/start"
  <2>1. LastTurnOf(Append(es, e)) = LastTurnOf(es) /\ t.openTurn # 0
    BY <1>3, LastTurnGrows
  <2>2. CASE e.type = "turn/end"
    <3>1. Advance(t, e).openTurn = 0 /\ Advance(t, e).nextTurn = t.nextTurn + 1
      BY <2>2, AdvanceEffect
    <3>2. LastTurnOf(es) = t.nextTurn
      <4>1. t.nextTurn = LastTurnOf(es) + 0
        BY <1>1, <2>1
      <4>2. LastTurnOf(es) \in Nat
        BY <2>1, LastTurnType
      <4> QED
        BY <4>1, <4>2
    <3> QED
      BY <2>1, <3>1, <3>2 DEF Latest
  <2>3. CASE e.type # "turn/end"
    <3>1. Advance(t, e).openTurn = t.openTurn /\ Advance(t, e).nextTurn = t.nextTurn
      <4>1. CASE e.type \in {"step/start", "step/end"}
        BY <4>1, AdvanceEffect
      <4>2. CASE e.type \in {"assistant/message", "tool/call", "tool/result"}
        BY <4>2, AdvanceEffect
      <4> QED
        BY <1>3, <2>3, <4>1, <4>2, EventFields
    <3> QED
      BY <1>1, <2>1, <3>1 DEF Latest
  <2> QED
    BY <2>2, <2>3
<1> QED
  BY <1>2, <1>3

\* An event that fits keeps a log fine.
LEMMA FineKeeps ==
    ASSUME NEW es \in Seq(Event), NEW e \in Event, Fine(es),
           Fits(ScanOf(es), TraceOf(es), LastStep(es), e)
    PROVE  Fine(Append(es, e))
<1> DEFINE s == ScanOf(es)
           t == TraceOf(es)
           h == LastStep(es)
<1>1. s \in Scans /\ t \in Traces(Ids) /\ h \in Hearings
  BY Folded
<1>2. /\ ScanOf(Append(es, e)) = Scan(s, e) /\ TraceOf(Append(es, e)) = Advance(t, e)
      /\ LastStep(Append(es, e)) = Heard(h, e)
      /\ Observation(Append(es, e)) = Observe(Observation(es), e)
  BY Unfolded
<1>3. /\ Observation(es) = [trace |-> t, legal |-> TRUE]
      /\ Counted(t) /\ Paired(s, t) /\ (t.openStep # 0 => Answering(s, h))
      /\ CallsKnown(es, t, h) /\ Matched(es, s) /\ Latest(es, t)
  BY DEF Fine
<1>4. Fits(s, t, h, e)
  OBVIOUS
<1> HIDE DEF s, t, h
<1>5. /\ Valid(t, e) /\ (e.type # "turn/start" => t.openTurn # 0)
      /\ e.type \in {"tool/call", "tool/result"} => t.openStep # 0
  BY <1>4 DEF Fits
<1>6. Observe(Observation(es), e) = [trace |-> Advance(t, e), legal |-> TRUE]
  <2>1. Observation(es).trace = t /\ Observation(es).legal = TRUE
    BY <1>3
  <2>2. (Observation(es).legal /\ Valid(Observation(es).trace, e)) = TRUE
    BY <1>5, <2>1, Zenon
  <2> QED
    BY <2>1, <2>2, Zenon DEF Observe
<1>7. Counted(Advance(t, e))
  BY <1>1, <1>3, <1>5, CountedKeeps
<1>8. Paired(Scan(s, e), Advance(t, e))
  BY <1>1, <1>3, <1>4, PairedKeeps
<1>9. Advance(t, e).openStep # 0 => Answering(Scan(s, e), Heard(h, e))
  BY <1>1, <1>3, <1>4, AnsweringKeeps
<1>10. CallsKnown(Append(es, e), Advance(t, e), Heard(h, e))
  BY <1>1, <1>3, <1>4, CallsKnownKeeps
<1>11. Matched(Append(es, e), Scan(s, e))
  BY <1>1, <1>3, <1>4, MatchedKeeps
<1>12. Latest(Append(es, e), Advance(t, e))
  BY <1>1, <1>3, <1>5, LatestKeeps
<1> QED
  BY <1>2, <1>6, <1>7, <1>8, <1>9, <1>10, <1>11, <1>12 DEF Fine

\* The empty log is fine.
LEMMA FineEmpty == Fine(<<>>)
<1>1. /\ ScanOf(<<>>) = Fresh /\ TraceOf(<<>>) = ClosedAfter(0) /\ Observation(<<>>) = Unseen
      /\ LastStep(<<>>) = Unheard
  BY ScanFold, AdvanceFold, HeardFold, ObserveFold
     DEF ScanOf, TraceOf, Observation, LastStep, Unheard
<1>e. Len(<<>>) = 0 /\ 1..0 = {} /\ DOMAIN <<>> = {}
  OBVIOUS
<1>2. /\ ClosedAfter(0).openTurn = 0 /\ ClosedAfter(0).openStep = 0
      /\ ClosedAfter(0).nextTurn = 1 /\ ClosedAfter(0).nextStep = 1
      /\ ClosedAfter(0).pendingCalls = {}
  BY DEF ClosedAfter, Null
<1>3. Fresh.openTurn = 0 /\ Fresh.openStep = 0 /\ Fresh.pending = <<>> /\ Fresh.recorded = {}
  BY DEF Fresh, Null
<1>4. Counted(ClosedAfter(0))
  BY <1>2 DEF Counted
<1>5. Paired(Fresh, ClosedAfter(0))
  BY <1>2, <1>3, <1>e DEF Paired
<1>6. CallsKnown(<<>>, ClosedAfter(0), Unheard) /\ Matched(<<>>, Fresh)
  BY <1>e DEF CallsKnown, Matched
<1>7. Latest(<<>>, ClosedAfter(0))
  <2>1. LastTurnOf(<<>>) = 0
    BY <1>e DEF LastTurnOf
  <2> QED
    BY <2>1, <1>2 DEF Latest
<1>8. Unseen = [trace |-> ClosedAfter(0), legal |-> TRUE]
  BY DEF Unseen
<1> QED
  BY <1>1, <1>2, <1>4, <1>5, <1>6, <1>7, <1>8 DEF Fine

\* The prefixes of a log.
LEMMA Prefix ==
    ASSUME NEW es \in Seq(Event), NEW k \in 0..Len(es)
    PROVE  /\ SubSeq(es, 1, k) \in Seq(Event) /\ Len(SubSeq(es, 1, k)) = k
           /\ \A i \in 1..k : SubSeq(es, 1, k)[i] = es[i]
           /\ SubSeq(es, 1, Len(es)) = es
<1>1. Len(es) \in Nat
  BY LenProperties
<1>2. \A i \in 1..k : es[i] \in Event
  BY <1>1, ElementOfSeq
<1>3. /\ SubSeq(es, 1, k) \in Seq(Event)
      /\ Len(SubSeq(es, 1, k)) = IF 1 <= k THEN k - 1 + 1 ELSE 0
      /\ \A i \in 1..k - 1 + 1 : SubSeq(es, 1, k)[i] = es[1 + i - 1]
  BY <1>1, <1>2, SubSeqProperties
<1>4. k \in Nat /\ k - 1 + 1 = k /\ \A i \in 1..k : 1 + i - 1 = i
  BY <1>1
<1> QED
  BY <1>1, <1>3, <1>4, SubSeqFull

\* A prefix of a prefix is a prefix.
LEMMA PrefixOfPrefix ==
    ASSUME NEW es \in Seq(Event), NEW k \in 0..Len(es), NEW n \in 0..k
    PROVE  SubSeq(SubSeq(es, 1, k), 1, n) = SubSeq(es, 1, n)
<1> DEFINE p == SubSeq(es, 1, k)
<1>1. Len(es) \in Nat /\ n \in 0..Len(es)
  BY LenProperties
<1>2. p \in Seq(Event) /\ Len(p) = k /\ \A i \in 1..k : p[i] = es[i]
  BY Prefix
<1> HIDE DEF p
<1>3. /\ SubSeq(p, 1, n) \in Seq(Event) /\ Len(SubSeq(p, 1, n)) = n
      /\ \A i \in 1..n : SubSeq(p, 1, n)[i] = p[i]
  BY <1>2, Prefix
<1>4. /\ SubSeq(es, 1, n) \in Seq(Event) /\ Len(SubSeq(es, 1, n)) = n
      /\ \A i \in 1..n : SubSeq(es, 1, n)[i] = es[i]
  BY <1>1, Prefix
<1>5. \A i \in 1..n : SubSeq(p, 1, n)[i] = SubSeq(es, 1, n)[i]
  BY <1>1, <1>2, <1>3, <1>4
<1>6. SubSeq(p, 1, n) = SubSeq(es, 1, n)
  BY <1>3, <1>4, <1>5, SeqEqual
<1> QED
  BY <1>6 DEF p

\* The prefixes of a log with one more event.
LEMMA PrefixOfAppend ==
    ASSUME NEW es \in Seq(Event), NEW e \in Event, NEW n \in 0..Len(es)
    PROVE  SubSeq(Append(es, e), 1, n) = SubSeq(es, 1, n)
<1> DEFINE p == Append(es, e)
<1>1. /\ p \in Seq(Event) /\ Len(p) = Len(es) + 1 /\ Len(es) \in Nat
      /\ \A i \in 1..Len(es) : p[i] = es[i]
  BY Appended
<1> HIDE DEF p
<1>3. /\ SubSeq(p, 1, n) \in Seq(Event) /\ Len(SubSeq(p, 1, n)) = n
      /\ \A i \in 1..n : SubSeq(p, 1, n)[i] = p[i]
  <2>1. n \in 0..Len(p)
    BY <1>1
  <2> QED
    BY <1>1, <2>1, Prefix
<1>4. /\ SubSeq(es, 1, n) \in Seq(Event) /\ Len(SubSeq(es, 1, n)) = n
      /\ \A i \in 1..n : SubSeq(es, 1, n)[i] = es[i]
  BY Prefix
<1>5. \A i \in 1..n : SubSeq(p, 1, n)[i] = SubSeq(es, 1, n)[i]
  BY <1>1, <1>3, <1>4
<1>6. SubSeq(p, 1, n) = SubSeq(es, 1, n)
  BY <1>3, <1>4, <1>5, SeqEqual
<1> QED
  BY <1>6 DEF p

\* What is good is fine, in every prefix.
LEMMA GoodPrefix ==
    ASSUME NEW es \in Seq(Event), Good(es), NEW k \in 0..Len(es)
    PROVE  Good(SubSeq(es, 1, k)) /\ Fine(SubSeq(es, 1, k)) /\ Fine(es)
<1>1. Len(es) \in 0..Len(es) /\ k \in 0..k /\ Len(es) \in Nat
  BY LenProperties
<1>2. Fine(SubSeq(es, 1, k)) /\ Fine(SubSeq(es, 1, Len(es)))
  BY <1>1 DEF Good
<1>3. SubSeq(es, 1, Len(es)) = es /\ Len(SubSeq(es, 1, k)) = k
  BY Prefix
<1>4. ASSUME NEW n \in 0..k PROVE Fine(SubSeq(SubSeq(es, 1, k), 1, n))
  <2>1. n \in 0..Len(es)
    BY <1>1
  <2>2. Fine(SubSeq(es, 1, n))
    BY <2>1 DEF Good
  <2> QED
    BY <2>2, PrefixOfPrefix
<1> QED
  BY <1>2, <1>3, <1>4 DEF Good

\* The empty log is good, and an event that fits keeps a log good.
LEMMA GoodEmpty == Good(<<>>)
<1>1. <<>> \in Seq(Event) /\ Len(<<>>) = 0
  OBVIOUS
<1>2. SubSeq(<<>>, 1, 0) = <<>>
  BY SubSeqEmpty
<1>3. \A n \in 0..0 : n = 0
  OBVIOUS
<1> QED
  BY <1>1, <1>2, <1>3, FineEmpty DEF Good

\* A good log stays good with one more event that fits.
LEMMA GoodKeeps ==
    ASSUME NEW es \in Seq(Event), NEW e \in Event, Good(es),
           Fits(ScanOf(es), TraceOf(es), LastStep(es), e)
    PROVE  Append(es, e) \in Seq(Event) /\ Good(Append(es, e))
<1>1. /\ Append(es, e) \in Seq(Event) /\ Len(Append(es, e)) = Len(es) + 1 /\ Len(es) \in Nat
  BY Appended
<1>2. Fine(es)
  <2>1. 0 \in 0..Len(es)
    BY <1>1
  <2> QED
    BY <2>1, GoodPrefix
<1>3. Fine(Append(es, e))
  BY <1>2, FineKeeps
<1>4. ASSUME NEW n \in 0..Len(Append(es, e)) PROVE Fine(SubSeq(Append(es, e), 1, n))
  <2>1. CASE n \in 0..Len(es)
    <3>1. Fine(SubSeq(es, 1, n))
      BY <2>1 DEF Good
    <3> QED
      BY <2>1, <3>1, PrefixOfAppend
  <2>2. CASE n \notin 0..Len(es)
    <3>1. n = Len(Append(es, e))
      BY <1>1, <2>2
    <3>2. SubSeq(Append(es, e), 1, Len(Append(es, e))) = Append(es, e)
      BY <1>1, SubSeqFull
    <3> QED
      BY <1>3, <3>1, <3>2
  <2> QED
    BY <2>1, <2>2
<1> QED
  BY <1>1, <1>4 DEF Good

(***************************************************************************)
(* The closers, one at a time.                                              *)
(***************************************************************************)

\* The closers of a scan, the results among them, and the first of them.
ClosersOf(s) == IF s.openTurn = 0 THEN <<>> ELSE Closing(s)
Answer(s, c) == Result(c, IF c \in s.recorded THEN "unknown" ELSE "notStarted")
Answers(s) == [i \in 1..Len(s.pending) |-> Answer(s, s.pending[i])]
Boundaries(s) ==
    (IF s.openStep = 0 THEN <<>> ELSE <<StepEnd(s.openTurn, s.openStep)>>)
    \o <<TurnEnd(s.openTurn)>>
FirstCloser(s) ==
    IF s.pending # <<>> THEN Answer(s, s.pending[1])
    ELSE IF s.openStep # 0 THEN StepEnd(s.openTurn, s.openStep)
    ELSE TurnEnd(s.openTurn)

\* Events concatenate as numbers add.
LEMMA EventsRegroup ==
    ASSUME NEW p \in Seq(Event), NEW q \in Seq(Event), NEW r \in Seq(Event)
    PROVE  (p \o q) \o r = p \o (q \o r)
BY ConcatAssociative

\* The driver's and the repair's events are events.
LEMMA EventTypes ==
    ASSUME NEW n \in Nat, NEW k \in Nat
    PROVE  /\ TurnStart(n) \in Event /\ TurnEnd(n) \in Event
           /\ StepStart(n, k) \in Event /\ StepEnd(n, k) \in Event
           /\ \A c \in Ids : ToolCall(n, k, c) \in Event
           /\ \A c \in Ids, code \in Codes : ToolResult(n, k, c, code) \in Event
           /\ \A cs \in Seq(Ids) : AssistantMessage(n, k, cs) \in Event
<1>1. TurnStart(n) \in Event /\ TurnEnd(n) \in Event
  BY DEF TurnStart, TurnEnd, Event, TurnEvents
<1>2. StepStart(n, k) \in Event /\ StepEnd(n, k) \in Event
  BY DEF StepStart, StepEnd, Event, StepEvents
<1>3. \A c \in Ids : ToolCall(n, k, c) \in Event
  BY DEF ToolCall, Event, Started
<1>4. ASSUME NEW c \in Ids, NEW code \in Codes PROVE ToolResult(n, k, c, code) \in Event
  <2>1. (code = "notStarted") \in BOOLEAN
    OBVIOUS
  <2>2. ToolResult(n, k, c, code) \in Results
    BY <2>1, Zenon DEF ToolResult, Results
  <2> QED
    BY <2>2 DEF Event
<1>5. \A cs \in Seq(Ids) : AssistantMessage(n, k, cs) \in Event
  BY DEF AssistantMessage, Event, Messages
<1> QED
  BY <1>1, <1>2, <1>3, <1>4, <1>5

\* The results of a repair, in the order of the pending calls.
LEMMA AnswerTypes ==
    ASSUME NEW s \in Scans
    PROVE  /\ \A c \in Ids : Answer(s, c) \in Event
           /\ Answers(s) \in Seq(Event) /\ Len(Answers(s)) = Len(s.pending)
           /\ \A i \in 1..Len(s.pending) : Answers(s)[i] = Answer(s, s.pending[i])
<1>0. s.pending \in Seq(Ids)
  BY DEF Scans
<1>1. ASSUME NEW c \in Ids PROVE Answer(s, c) \in Event
  <2>1. c[1] \in Nat /\ c[2] \in Nat
    BY DEF Ids
  <2>2. (IF c \in s.recorded THEN "unknown" ELSE "notStarted") \in Codes
    BY DEF Codes
  <2> QED
    BY <2>1, <2>2, EventTypes DEF Answer, Result
<1>2. \A i \in 1..Len(s.pending) : Answer(s, s.pending[i]) \in Event
  BY <1>0, <1>1, ElementOfSeq
<1>3. Len(s.pending) \in Nat
  BY <1>0, LenProperties
<1>4. Answers(s) \in [1..Len(s.pending) -> Event]
  BY <1>2 DEF Answers
<1>5. Answers(s) \in Seq(Event)
  BY <1>3, <1>4, SeqDef
<1>6. Len(Answers(s)) = Len(s.pending)
  BY <1>3, <1>4, <1>5, LenProperties
<1> QED
  BY <1>1, <1>5, <1>6 DEF Answers

\* What a repair appends is the results and then the boundaries.
LEMMA ClosingIs ==
    ASSUME NEW s \in Scans
    PROVE  /\ Boundaries(s) \in Seq(Event) /\ Closing(s) = Answers(s) \o Boundaries(s)
           /\ Closing(s) \in Seq(Event)
<1> DEFINE x == IF s.openStep = 0 THEN <<>> ELSE <<StepEnd(s.openTurn, s.openStep)>>
           y == <<TurnEnd(s.openTurn)>>
           a == Answers(s)
<1>1. s.openTurn \in Nat /\ s.openStep \in Nat
  BY DEF Scans
<1>2. StepEnd(s.openTurn, s.openStep) \in Event /\ TurnEnd(s.openTurn) \in Event
  BY <1>1, EventTypes
<1>3. x \in Seq(Event) /\ y \in Seq(Event) /\ a \in Seq(Event)
  BY <1>2, AnswerTypes
<1>4. Closing(s) = (a \o x) \o y
  BY Zenon DEF Closing, Answers, Answer, StartedIn, Null
<1>5. Boundaries(s) = x \o y
  BY Zenon DEF Boundaries
<1> HIDE DEF x, y, a
<1>6. (a \o x) \o y = a \o (x \o y) /\ x \o y \in Seq(Event) /\ a \o (x \o y) \in Seq(Event)
  BY <1>3, EventsRegroup, ConcatProperties
<1> QED
  BY <1>4, <1>5, <1>6, Zenon DEF a

\* The first closer answers the first pending call; the rest are the closers of
\* what the scan sees behind it.
LEMMA FirstAnswer ==
    ASSUME NEW s \in Scans, s.openTurn # 0, s.pending # <<>>
    PROVE  /\ FirstCloser(s) \in Event /\ FirstCloser(s).type = "tool/result"
           /\ FirstCloser(s).call = s.pending[1]
           /\ ClosersOf(s) = <<FirstCloser(s)>> \o ClosersOf(Scan(s, FirstCloser(s)))
<1> DEFINE e == FirstCloser(s)
           z == Scan(s, e)
           p == s.pending
<1>0. p \in Seq(Ids)
  BY DEF Scans
<1>1. e = Answer(s, p[1])
  BY DEF FirstCloser
<1>2. /\ Tail(p) \in Seq(Ids) /\ Len(p) \in Nat /\ Len(p) >= 1 /\ Len(Tail(p)) = Len(p) - 1
      /\ \A i \in 1..Len(Tail(p)) : i + 1 \in 1..Len(p) /\ Tail(p)[i] = p[i + 1]
      /\ 1 \in 1..Len(p)
  BY <1>0, TailIs, LenProperties
<1>3. p[1] \in Ids
  BY <1>0, <1>2, ElementOfSeq
<1>4. e \in Event
  BY <1>1, <1>3, AnswerTypes
<1>5. e.type = "tool/result" /\ e.call = p[1]
  BY <1>1 DEF Answer, Result, ToolResult
<1>6. z \in Scans
  BY <1>4, ScanType
<1>7. /\ z.openTurn = s.openTurn /\ z.openStep = s.openStep
      /\ z.pending = Tail(p) /\ z.recorded = s.recorded
  <2> HIDE DEF e
  <2>1. /\ z.openTurn = s.openTurn /\ z.openStep = s.openStep
        /\ z.pending = RemoveFirst(p, e.call) /\ z.recorded = s.recorded
    BY <1>4, <1>5, ScanEffect
  <2>2. RemoveFirst(p, p[1]) = Tail(p)
    BY <1>0, RemoveHead
  <2> QED
    BY <1>5, <2>1, <2>2
<1> HIDE DEF e, z
<1>8. Boundaries(z) = Boundaries(s) /\ \A c : Answer(z, c) = Answer(s, c)
  BY <1>7 DEF Boundaries, Answer
<1>9. Answers(s) = <<e>> \o Answers(z)
  <2> DEFINE a == Answers(s)
             b == Answers(z)
             f == <<e>>
  <2>1. /\ a \in Seq(Event) /\ Len(a) = Len(p)
        /\ \A i \in 1..Len(p) : a[i] = Answer(s, p[i])
    BY AnswerTypes
  <2>2. /\ b \in Seq(Event) /\ Len(b) = Len(p) - 1
        /\ \A i \in 1..Len(p) - 1 : b[i] = Answer(s, Tail(p)[i])
    BY <1>2, <1>6, <1>7, <1>8, AnswerTypes
  <2>3. f \in Seq(Event) /\ Len(f) = 1 /\ f[1] = e
    BY <1>4
  <2> HIDE DEF a, b, f
  <2>4. /\ f \o b \in Seq(Event) /\ Len(f \o b) = 1 + (Len(p) - 1)
        /\ \A i \in 1..1 + (Len(p) - 1) : (f \o b)[i] = IF i <= 1 THEN f[i] ELSE b[i - 1]
    BY <2>2, <2>3, ConcatProperties
  <2>5. 1 + (Len(p) - 1) = Len(p)
    BY <1>2
  <2>6. ASSUME NEW i \in 1..Len(p) PROVE a[i] = (f \o b)[i]
    <3>1. CASE i = 1
      BY <1>1, <1>2, <2>1, <2>3, <2>4, <2>5, <3>1
    <3>2. CASE i # 1
      <4>1. i - 1 \in 1..Len(p) - 1 /\ ~(i <= 1) /\ (i - 1) + 1 = i
        BY <1>2, <3>2
      <4>2. b[i - 1] = Answer(s, p[i])
        BY <1>2, <2>2, <4>1
      <4> QED
        BY <2>1, <2>4, <2>5, <4>1, <4>2
    <3> QED
      BY <3>1, <3>2
  <2>7. a = f \o b
    BY <2>1, <2>4, <2>5, <2>6, SeqEqual
  <2> QED
    BY <2>7 DEF a, b, f
<1>10. Closing(s) = <<e>> \o Closing(z)
  <2> DEFINE b == Answers(z)
             f == <<e>>
             d == Boundaries(s)
  <2>1. f \in Seq(Event) /\ b \in Seq(Event) /\ d \in Seq(Event)
    BY <1>4, <1>6, AnswerTypes, ClosingIs
  <2>2. Closing(s) = (f \o b) \o d /\ Closing(z) = b \o d
    BY <1>6, <1>8, <1>9, ClosingIs
  <2> HIDE DEF b, d, f
  <2>3. (f \o b) \o d = f \o (b \o d)
    BY <2>1, EventsRegroup
  <2>4. Closing(s) = f \o Closing(z)
    BY <2>2, <2>3
  <2> QED
    BY <2>4 DEF f
<1> QED
  BY <1>4, <1>5, <1>7, <1>10 DEF ClosersOf, e, z

\* Without a pending call the boundaries follow, the open step's first.
LEMMA FirstBoundary ==
    ASSUME NEW s \in Scans, s.openTurn # 0, s.pending = <<>>
    PROVE  /\ FirstCloser(s) \in Event
           /\ s.openStep # 0 => FirstCloser(s) = StepEnd(s.openTurn, s.openStep)
           /\ s.openStep = 0 => FirstCloser(s) = TurnEnd(s.openTurn)
           /\ Scan(s, FirstCloser(s)).pending = <<>>
           /\ ClosersOf(s) = <<FirstCloser(s)>> \o ClosersOf(Scan(s, FirstCloser(s)))
<1> DEFINE e == FirstCloser(s)
           z == Scan(s, e)
           d == <<TurnEnd(s.openTurn)>>
<1>0. s.openTurn \in Nat /\ s.openStep \in Nat
  BY DEF Scans
<1>1. /\ s.openStep # 0 => e = StepEnd(s.openTurn, s.openStep)
      /\ s.openStep = 0 => e = TurnEnd(s.openTurn)
  BY DEF FirstCloser
<1>2. e \in Event /\ d \in Seq(Event) /\ <<e>> \in Seq(Event)
  BY <1>0, <1>1, EventTypes
<1>3. z \in Scans
  BY <1>2, ScanType
<1>4. ASSUME NEW w \in Scans, w.pending = <<>> PROVE Closing(w) = Boundaries(w)
  <2>1. Len(<<>>) = 0
    OBVIOUS
  <2>2. Answers(w) \in Seq(Event) /\ Len(Answers(w)) = 0
    BY <1>4, <2>1, AnswerTypes
  <2>3. Answers(w) = <<>>
    BY <2>2, EmptySeq
  <2>4. Boundaries(w) \in Seq(Event) /\ Closing(w) = <<>> \o Boundaries(w)
    BY <2>3, ClosingIs
  <2> QED
    BY <2>4, ConcatEmptySeq
<1>5. CASE s.openStep # 0
  <2>1. e.type = "step/end"
    BY <1>1, <1>5 DEF StepEnd
  <2>2. z.openTurn = s.openTurn /\ z.openStep = 0 /\ z.pending = <<>>
    <3> HIDE DEF e
    <3> QED
      BY <1>2, <2>1, ScanEffect
  <2>3. Boundaries(s) = <<e>> \o d
    BY <1>1, <1>5, Zenon DEF Boundaries
  <2>4. Boundaries(z) = d
    <3>1. Boundaries(z) = <<>> \o d
      BY <2>2, Zenon DEF Boundaries
    <3> QED
      BY <1>2, <3>1, ConcatEmptySeq
  <2> HIDE DEF e, z, d
  <2>5. Closing(s) = Boundaries(s) /\ Closing(z) = Boundaries(z)
    BY <1>3, <1>4, <2>2
  <2>6. ClosersOf(s) = <<e>> \o d /\ ClosersOf(z) = d
    BY <2>2, <2>3, <2>4, <2>5, Zenon DEF ClosersOf
  <2>7. ClosersOf(s) = <<e>> \o ClosersOf(z)
    BY <2>6, Zenon
  <2> QED
    BY <1>1, <1>2, <2>2, <2>7, Zenon DEF e, z
<1>6. CASE s.openStep = 0
  <2>1. e.type = "turn/end"
    BY <1>1, <1>6 DEF TurnEnd
  <2>2. z.openTurn = 0 /\ z.pending = <<>>
    <3> HIDE DEF e
    <3> QED
      BY <1>2, <2>1, ScanEffect
  <2>3. Boundaries(s) = <<e>>
    <3>1. Boundaries(s) = <<>> \o <<e>>
      BY <1>1, <1>6, Zenon DEF Boundaries
    <3> HIDE DEF e
    <3> DEFINE f == <<e>>
    <3>2. f \in Seq(Event)
      BY <1>2
    <3> HIDE DEF f
    <3>3. <<>> \o f = f
      BY <3>2, ConcatEmptySeq
    <3> QED
      BY <3>1, <3>3, Zenon DEF f
  <2> HIDE DEF e, z, d
  <2>4. ClosersOf(s) = <<e>> /\ ClosersOf(z) = <<>>
    BY <1>4, <2>2, <2>3, Zenon DEF ClosersOf
  <2> DEFINE f == <<e>>
  <2>5. f \in Seq(Event)
    BY <1>2
  <2> HIDE DEF f
  <2>6. f \o <<>> = f
    BY <2>5, ConcatEmptySeq
  <2>7. ClosersOf(s) = <<e>> \o ClosersOf(z)
    BY <2>4, <2>6, Zenon DEF f
  <2> QED
    BY <1>1, <1>2, <2>2, <2>7, Zenon DEF e, z
<1> QED
  BY <1>5, <1>6

\* The repair reads no more of a log than what its scan sees.
LEMMA ClosersAre == \A es : Closers(es) = ClosersOf(ScanOf(es))
BY Zenon DEF Closers, ClosersOf, ScanOf, Fresh, Null

\* The closers of a log are events.
LEMMA ClosersType ==
    ASSUME NEW es \in Seq(Event)
    PROVE  Closers(es) \in Seq(Event)
<1>1. ScanOf(es) \in Scans
  BY Folded
<1>2. Closing(ScanOf(es)) \in Seq(Event) /\ <<>> \in Seq(Event)
  BY <1>1, ClosingIs
<1>3. Closers(es) = ClosersOf(ScanOf(es))
  BY ClosersAre
<1> QED
  BY <1>2, <1>3 DEF ClosersOf

\* A call that was not started gets a synthetic result.
LEMMA Synthetic == \A n, k, c : ToolResult(n, k, c, "notStarted").synthetic
<1> TAKE n, k, c
<1>1. ToolResult(n, k, c, "notStarted").synthetic = ("notStarted" = "notStarted")
  BY DEF ToolResult
<1>2. "notStarted" = "notStarted"
  OBVIOUS
<1> QED
  BY <1>1, <1>2, Zenon

\* The first closer fits.
LEMMA CloserFits ==
    ASSUME NEW s \in Scans, NEW t \in Traces(Ids), NEW h \in Hearings,
           Counted(t), Paired(s, t), s.openTurn # 0
    PROVE  Fits(s, t, h, FirstCloser(s))
<1> DEFINE e == FirstCloser(s)
<1>0. /\ s.openTurn = t.openTurn /\ s.openStep = t.openStep /\ s.pending \in Seq(Ids)
      /\ s.openTurn \in Nat /\ s.openStep \in Nat
  BY DEF Paired, Scans
<1>1. CASE s.pending # <<>>
  <2>1. e = Answer(s, s.pending[1])
    BY <1>1 DEF FirstCloser
  <2>2. 1 \in 1..Len(s.pending) /\ t.openStep # 0
    BY <1>0, <1>1, TailIs DEF Paired
  <2>3. /\ s.pending[1][1] = t.openTurn /\ s.pending[1][2] = t.openStep
        /\ s.pending[1] \in s.recorded => s.pending[1] \in t.pendingCalls
    BY <2>2 DEF Paired
  <2>4. /\ e.type = "tool/result" /\ e.call = s.pending[1]
        /\ e.turn = t.openTurn /\ e.step = t.openStep
    BY <2>1, <2>3 DEF Answer, Result, ToolResult
  <2>5. s.pending[1] \notin s.recorded => e.synthetic
    <3> SUFFICES ASSUME s.pending[1] \notin s.recorded PROVE e.synthetic
      OBVIOUS
    <3>1. e = ToolResult(s.pending[1][1], s.pending[1][2], s.pending[1], "notStarted")
      BY <2>1, Zenon DEF Answer, Result
    <3> HIDE DEF e
    <3> QED
      BY <3>1, Synthetic
  <2> HIDE DEF e
  <2>6. Valid(t, e)
    BY <2>3, <2>4, <2>5 DEF Valid, InOpenStep
  <2>7. Fits(s, t, h, e)
    BY <1>0, <1>1, <2>2, <2>4, <2>6 DEF Fits
  <2> QED
    BY <2>7 DEF e
<1>2. CASE s.pending = <<>> /\ s.openStep # 0
  <2>1. e = StepEnd(s.openTurn, s.openStep)
    BY <1>2, FirstBoundary
  <2>2. e.type = "step/end" /\ e.turn = t.openTurn /\ e.step = t.openStep
    BY <1>0, <2>1 DEF StepEnd
  <2> HIDE DEF e
  <2>3. Fits(s, t, h, e)
    BY <1>0, <1>2, <2>2 DEF Fits, Valid, InOpenStep
  <2> QED
    BY <2>3 DEF e
<1>3. CASE s.pending = <<>> /\ s.openStep = 0
  <2>1. e = TurnEnd(s.openTurn)
    BY <1>3, FirstBoundary
  <2>2. e.type = "turn/end" /\ e.turn = t.openTurn
    BY <1>0, <2>1 DEF TurnEnd
  <2> HIDE DEF e
  <2>3. Fits(s, t, h, e)
    BY <1>0, <1>3, <2>2 DEF Fits, Valid, InOpenStep, Null
  <2> QED
    BY <2>3 DEF e
<1> QED
  BY <1>1, <1>2, <1>3

\* Everything the last step asked is answered or pending.
Whole(es) == LastStep(es).asked = LastStep(es).answered \o ScanOf(es).pending

\* A log with its first closer behind it.
Closed(es) == Append(es, FirstCloser(ScanOf(es)))

\* One closer keeps a log good, and leaves the other closers to do.
LEMMA CloseOne ==
    ASSUME NEW es \in Seq(Event), Good(es), ScanOf(es).openTurn # 0
    PROVE  /\ FirstCloser(ScanOf(es)) \in Event
           /\ Closed(es) \in Seq(Event) /\ Good(Closed(es))
           /\ Closers(es) = <<FirstCloser(ScanOf(es))>> \o Closers(Closed(es))
           /\ Whole(es) => Whole(Closed(es))
<1> DEFINE s == ScanOf(es)
           t == TraceOf(es)
           h == LastStep(es)
           e == FirstCloser(s)
<1>1. s \in Scans /\ t \in Traces(Ids) /\ h \in Hearings
  BY Folded
<1>2. Fine(es)
  <2>1. 0 \in 0..Len(es)
    BY LenProperties
  <2> QED
    BY <2>1, GoodPrefix
<1>3. Counted(t) /\ Paired(s, t) /\ (t.openStep # 0 => Answering(s, h))
  BY <1>2 DEF Fine
<1>0. s.openTurn # 0 /\ s.openTurn = t.openTurn /\ s.openStep = t.openStep
  BY <1>3 DEF Paired
<1>d. Closed(es) = Append(es, e)
  BY DEF Closed
<1>f. ClosersOf(s) = <<e>> \o ClosersOf(Scan(s, e)) /\ e \in Event
  <2> HIDE DEF s
  <2> QED
    BY <1>0, <1>1, FirstAnswer, FirstBoundary
<1>4. Fits(s, t, h, e)
  <2> HIDE DEF s, t, h
  <2> QED
    BY <1>0, <1>1, <1>3, CloserFits
<1>5. Append(es, e) \in Seq(Event) /\ Good(Append(es, e))
  <2> HIDE DEF e
  <2> QED
    BY <1>4, <1>f, GoodKeeps
<1>6. ScanOf(Append(es, e)) = Scan(s, e) /\ LastStep(Append(es, e)) = Heard(h, e)
  <2> HIDE DEF e
  <2> QED
    BY <1>f, Unfolded
<1>7. Closers(es) = <<e>> \o Closers(Closed(es))
  BY <1>d, <1>f, <1>6, ClosersAre, Zenon
<1>8. ASSUME Whole(es) PROVE Whole(Closed(es))
  <2>1. h.asked = h.answered \o s.pending
    BY <1>8 DEF Whole
  <2>2. CASE s.pending # <<>>
    <3>1. e.type = "tool/result"
      <4> HIDE DEF s
      <4> QED
        BY <1>0, <1>1, <2>2, FirstAnswer
    <3>2. t.openStep # 0
      <4> HIDE DEF s, t
      <4> QED
        BY <1>3, <2>2 DEF Paired
    <3> HIDE DEF s, t, h, e
    <3>3. Advance(t, e).openStep = t.openStep
      BY <1>1, <1>f, <3>1, AdvanceEffect
    <3>4. Answering(Scan(s, e), Heard(h, e))
      BY <1>1, <1>3, <1>4, <1>f, <3>2, <3>3, AnsweringKeeps
    <3>5. Heard(h, e).asked = Heard(h, e).answered \o Scan(s, e).pending
      BY <3>4 DEF Answering
    <3> QED
      BY <1>d, <1>6, <3>5, Zenon DEF Whole
  <2>3. CASE s.pending = <<>>
    <3>1. /\ Scan(s, e).pending = <<>>
          /\ e \in {StepEnd(s.openTurn, s.openStep), TurnEnd(s.openTurn)}
      <4> HIDE DEF s
      <4> QED
        BY <1>0, <1>1, <2>3, FirstBoundary
    <3>2. e.type \in {"step/end", "turn/end"}
      <4> HIDE DEF e
      <4> QED
        BY <3>1 DEF StepEnd, TurnEnd
    <3> HIDE DEF s, t, h, e
    <3>3. Heard(h, e) = h
      BY <1>1, <1>f, <3>2, HeardEffect
    <3> QED
      BY <1>d, <1>6, <2>1, <2>3, <3>1, <3>3, Zenon DEF Whole
  <2> QED
    BY <2>2, <2>3
<1> QED
  BY <1>d, <1>f, <1>5, <1>7, <1>8

\* A log with some of its closers behind it.
Partly(es, k) == es \o SubSeq(Closers(es), 1, k)
Rest(es, k) == SubSeq(Closers(es), k + 1, Len(Closers(es)))

\* A repair cut short anywhere leaves a good log whose repair is the rest of it.
Converges(es, k) ==
    /\ Partly(es, k) \in Seq(Event) /\ Good(Partly(es, k))
    /\ Closers(Partly(es, k)) = Rest(es, k)
    /\ Whole(es) => Whole(Partly(es, k))

\* The part of a sequence behind a position.
LEMMA RestOf ==
    ASSUME NEW c \in Seq(Event), NEW k \in 0..Len(c)
    PROVE  /\ Len(c) \in Nat /\ SubSeq(c, k + 1, Len(c)) \in Seq(Event)
           /\ Len(SubSeq(c, k + 1, Len(c))) = Len(c) - k
           /\ \A i \in 1..Len(c) - k : SubSeq(c, k + 1, Len(c))[i] = c[k + i]
<1>1. Len(c) \in Nat /\ k \in Nat /\ k <= Len(c)
  BY LenProperties
<1>2. \A i \in k + 1..Len(c) : c[i] \in Event
  <2> TAKE i \in k + 1..Len(c)
  <2>1. i \in 1..Len(c)
    BY <1>1
  <2> QED
    BY <2>1, ElementOfSeq
<1>3. /\ SubSeq(c, k + 1, Len(c)) \in Seq(Event)
      /\ Len(SubSeq(c, k + 1, Len(c)))
           = IF k + 1 <= Len(c) THEN Len(c) - (k + 1) + 1 ELSE 0
      /\ \A i \in 1..Len(c) - (k + 1) + 1 :
           SubSeq(c, k + 1, Len(c))[i] = c[(k + 1) + i - 1]
  BY <1>1, <1>2, SubSeqProperties
<1>4. /\ Len(c) - (k + 1) + 1 = Len(c) - k
      /\ (IF k + 1 <= Len(c) THEN Len(c) - (k + 1) + 1 ELSE 0) = Len(c) - k
      /\ \A i \in 1..Len(c) - k : (k + 1) + i - 1 = k + i
  BY <1>1
<1> QED
  BY <1>1, <1>3, <1>4

\* The next closer is the first of those that are left.
LEMMA NextCloser ==
    ASSUME NEW c \in Seq(Event), NEW k \in 0..Len(c) - 1, NEW e \in Event, NEW d \in Seq(Event),
           SubSeq(c, k + 1, Len(c)) = <<e>> \o d
    PROVE  c[k + 1] = e /\ d = SubSeq(c, k + 2, Len(c))
<1> DEFINE r == SubSeq(c, k + 1, Len(c))
           q == SubSeq(c, (k + 1) + 1, Len(c))
           f == <<e>>
<1>0. Len(c) \in Nat
  BY LenProperties
<1>1. /\ k \in 0..Len(c) /\ k + 1 \in 0..Len(c) /\ (k + 1) + 1 = k + 2
      /\ Len(c) - k \in Nat /\ 1 \in 1..Len(c) - k
  BY <1>0
<1>2. /\ r \in Seq(Event) /\ Len(r) = Len(c) - k /\ \A i \in 1..Len(c) - k : r[i] = c[k + i]
  BY <1>1, RestOf
<1>3. /\ q \in Seq(Event) /\ Len(q) = Len(c) - (k + 1)
      /\ \A i \in 1..Len(c) - (k + 1) : q[i] = c[(k + 1) + i]
  BY <1>1, RestOf
<1>4. f \in Seq(Event) /\ Len(f) = 1 /\ f[1] = e
  OBVIOUS
<1>5. r = f \o d
  OBVIOUS
<1> HIDE DEF r, q, f
<1>6. /\ Len(r) = 1 + Len(d) /\ Len(d) \in Nat
      /\ \A i \in 1..1 + Len(d) : r[i] = IF i <= 1 THEN f[i] ELSE d[i - 1]
  <2>1. Len(d) \in Nat
    BY LenProperties
  <2>2. /\ f \o d \in Seq(Event) /\ Len(f \o d) = Len(f) + Len(d)
        /\ \A i \in 1..Len(f) + Len(d) :
             (f \o d)[i] = IF i <= Len(f) THEN f[i] ELSE d[i - Len(f)]
    BY <1>4, ConcatProperties
  <2> QED
    BY <1>4, <1>5, <2>1, <2>2
<1>7. c[k + 1] = e
  BY <1>1, <1>2, <1>4, <1>6
<1>8. Len(d) = Len(q)
  BY <1>0, <1>2, <1>3, <1>6
<1>9. ASSUME NEW i \in 1..Len(d) PROVE d[i] = q[i]
  <2>1. /\ i + 1 \in 1..1 + Len(d) /\ ~(i + 1 <= 1) /\ (i + 1) - 1 = i
        /\ i + 1 \in 1..Len(c) - k /\ i \in 1..Len(c) - (k + 1)
        /\ k + (i + 1) = (k + 1) + i
    BY <1>0, <1>2, <1>6
  <2>2. d[i] = r[i + 1]
    BY <1>6, <2>1
  <2>3. r[i + 1] = c[k + (i + 1)] /\ q[i] = c[(k + 1) + i]
    BY <1>2, <1>3, <2>1
  <2> QED
    BY <2>1, <2>2, <2>3
<1>10. d = q
  BY <1>3, <1>8, <1>9, SeqEqual
<1> QED
  BY <1>1, <1>7, <1>10 DEF q

\* One more closer behind a log.
LEMMA OneMore ==
    ASSUME NEW es \in Seq(Event), NEW c \in Seq(Event), NEW k \in 0..Len(c) - 1
    PROVE  Append(es \o SubSeq(c, 1, k), c[k + 1]) = es \o SubSeq(c, 1, k + 1)
<1> DEFINE p == SubSeq(c, 1, k)
           q == SubSeq(c, 1, k + 1)
           e == c[k + 1]
<1>0. Len(c) \in Nat /\ Len(es) \in Nat
  BY LenProperties
<1>1. k \in 0..Len(c) /\ k + 1 \in 0..Len(c) /\ k + 1 \in 1..Len(c) /\ k \in Nat
  BY <1>0
<1>2. p \in Seq(Event) /\ Len(p) = k /\ \A i \in 1..k : p[i] = c[i]
  BY <1>1, Prefix
<1>3. q \in Seq(Event) /\ Len(q) = k + 1 /\ \A i \in 1..k + 1 : q[i] = c[i]
  BY <1>1, Prefix
<1>4. e \in Event
  BY <1>1, ElementOfSeq
<1> HIDE DEF p, q
<1>5. /\ es \o p \in Seq(Event) /\ Len(es \o p) = Len(es) + k
      /\ \A i \in 1..Len(es) + k : (es \o p)[i] = IF i <= Len(es) THEN es[i] ELSE p[i - Len(es)]
  BY <1>2, ConcatProperties
<1>6. /\ es \o q \in Seq(Event) /\ Len(es \o q) = Len(es) + (k + 1)
      /\ \A i \in 1..Len(es) + (k + 1) :
           (es \o q)[i] = IF i <= Len(es) THEN es[i] ELSE q[i - Len(es)]
  BY <1>3, ConcatProperties
<1> DEFINE a == es \o p
           b == es \o q
           g == Append(a, e)
<1> HIDE DEF a, b
<1>7. /\ g \in Seq(Event) /\ Len(g) = Len(es) + k + 1
      /\ \A i \in 1..Len(es) + k : g[i] = a[i]
      /\ g[Len(es) + k + 1] = e
  <2>1. a \in Seq(Event) /\ Len(a) = Len(es) + k
    BY <1>5 DEF a
  <2> HIDE DEF e
  <2> QED
    <3>1. /\ Append(a, e) \in Seq(Event) /\ Len(Append(a, e)) = Len(a) + 1
          /\ \A i \in 1..Len(a) : Append(a, e)[i] = a[i]
          /\ Append(a, e)[Len(a) + 1] = e
      BY <1>4, <2>1, Appended
    <3> HIDE DEF g
    <3>2. g = Append(a, e)
      BY DEF g
    <3> QED
      BY <2>1, <3>1, <3>2
<1>8. /\ b \in Seq(Event) /\ Len(b) = Len(es) + k + 1
  BY <1>0, <1>1, <1>6 DEF b
<1> HIDE DEF g, e
<1>9. ASSUME NEW i \in 1..Len(es) + k + 1 PROVE g[i] = b[i]
  <2>1. CASE i <= Len(es)
    <3>1. i \in 1..Len(es) + k /\ i \in 1..Len(es) + (k + 1)
      BY <1>0, <1>1, <2>1
    <3> QED
      BY <2>1, <3>1, <1>5, <1>6, <1>7 DEF a, b
  <2>2. CASE ~(i <= Len(es)) /\ i <= Len(es) + k
    <3>1. /\ i \in 1..Len(es) + k /\ i \in 1..Len(es) + (k + 1) /\ i - Len(es) \in 1..k
          /\ i - Len(es) \in 1..k + 1
      BY <1>0, <1>1, <2>2
    <3>2. p[i - Len(es)] = q[i - Len(es)]
      BY <3>1, <1>2, <1>3
    <3> QED
      BY <2>2, <3>1, <3>2, <1>5, <1>6, <1>7 DEF a, b
  <2>3. CASE i = Len(es) + k + 1
    <3>1. /\ i \in 1..Len(es) + (k + 1) /\ ~(i <= Len(es)) /\ i - Len(es) = k + 1
          /\ k + 1 \in 1..k + 1
      BY <1>0, <1>1, <2>3
    <3>2. b[i] = q[k + 1]
      BY <1>6, <3>1 DEF b
    <3> QED
      BY <2>3, <3>1, <3>2, <1>3, <1>7 DEF e
  <2> QED
    BY <1>0, <1>1, <2>1, <2>2, <2>3
<1>10. g = b
  BY <1>7, <1>8, <1>9, SeqEqual
<1> QED
  BY <1>10 DEF g, a, b, e, p, q

(***************************************************************************)
(* A repair that is cut short, and one that is whole.                       *)
(***************************************************************************)

\* A repair cut short behind any of its closers leaves a good log, whose repair
\* is what was left (by induction on how many were stored).
LEMMA Repairing ==
    ASSUME NEW es \in Seq(Event), Good(es)
    PROVE  \A k \in 0..Len(Closers(es)) : Converges(es, k)
<1> DEFINE c == Closers(es)
           S == {k \in 0..Len(c) : Converges(es, k)}
<1>0. c \in Seq(Event) /\ Len(c) \in Nat
  BY ClosersType, LenProperties
<1>1. 0 \in S
  <2>1. SubSeq(c, 1, 0) = <<>>
    BY <1>0, SubSeqEmpty
  <2>2. Partly(es, 0) = es
    BY <2>1, ConcatEmptySeq DEF Partly
  <2>3. Rest(es, 0) = c
    <3>1. SubSeq(c, 1, Len(c)) = c
      BY <1>0, SubSeqFull
    <3>2. 0 + 1 = 1
      OBVIOUS
    <3> QED
      BY <3>1, <3>2, Zenon DEF Rest
  <2>4. Converges(es, 0)
    BY <2>2, <2>3 DEF Converges
  <2>5. 0 \in 0..Len(c)
    BY <1>0
  <2> QED
    BY <2>4, <2>5
<1>2. \A k \in 0..(Len(c) - 1) : k \in S => k + 1 \in S
  <2> SUFFICES ASSUME NEW k \in 0..(Len(c) - 1), Converges(es, k) PROVE Converges(es, k + 1)
    BY <1>0
  <2> DEFINE d == Partly(es, k)
             e == FirstCloser(ScanOf(d))
  <2>1. /\ d \in Seq(Event) /\ Good(d) /\ Closers(d) = SubSeq(c, k + 1, Len(c))
        /\ Whole(es) => Whole(d)
    BY Zenon DEF Converges, Rest
  <2>2. ScanOf(d).openTurn # 0
    <3>1. k \in 0..Len(c) /\ Len(c) - k # 0
      BY <1>0
    <3>2. Len(SubSeq(c, k + 1, Len(c))) = Len(c) - k
      <4> HIDE DEF c
      <4> QED
        BY <1>0, <3>1, RestOf
    <3>3. Closers(d) # <<>>
      <4>1. Len(<<>>) = 0
        OBVIOUS
      <4> HIDE DEF c, d
      <4> QED
        BY <2>1, <3>1, <3>2, <4>1
    <3>4. Closers(d) = ClosersOf(ScanOf(d))
      BY ClosersAre
    <3> QED
      BY <3>3, <3>4, Zenon DEF ClosersOf
  <2> HIDE DEF d
  <2>3. /\ e \in Event /\ Closed(d) \in Seq(Event) /\ Good(Closed(d))
        /\ Closers(d) = <<e>> \o Closers(Closed(d))
        /\ Whole(d) => Whole(Closed(d))
    BY <2>1, <2>2, CloseOne
  <2>4. Closers(Closed(d)) \in Seq(Event)
    BY <2>3, ClosersType
  <2> HIDE DEF c, e
  <2>5. c[k + 1] = e /\ Closers(Closed(d)) = SubSeq(c, k + 2, Len(c))
    <3> DEFINE x == Closers(Closed(d))
    <3>1. x \in Seq(Event) /\ SubSeq(c, k + 1, Len(c)) = <<e>> \o x
      BY <2>1, <2>3, <2>4
    <3> HIDE DEF x
    <3>2. c[k + 1] = e /\ x = SubSeq(c, k + 2, Len(c))
      BY <1>0, <2>3, <3>1, NextCloser
    <3> QED
      BY <3>2 DEF x
  <2>6. Closed(d) = Partly(es, k + 1)
    <3>1. Append(es \o SubSeq(c, 1, k), c[k + 1]) = es \o SubSeq(c, 1, k + 1)
      BY <1>0, OneMore
    <3>2. d = es \o SubSeq(c, 1, k) /\ Partly(es, k + 1) = es \o SubSeq(c, 1, k + 1)
      BY Zenon DEF d, c, Partly
    <3>3. Closed(d) = Append(d, e)
      BY DEF Closed, e
    <3> QED
      BY <2>5, <3>1, <3>2, <3>3, Zenon
  <2>7. Rest(es, k + 1) = SubSeq(c, k + 2, Len(c))
    <3>1. (k + 1) + 1 = k + 2
      OBVIOUS
    <3> QED
      BY <3>1, Zenon DEF Rest, c
  <2> QED
    BY <2>1, <2>3, <2>5, <2>6, <2>7, Zenon DEF Converges
<1> HIDE DEF S
<1>3. \A k \in 0..Len(c) : k \in S
  <2> HIDE DEF c
  <2> QED
    BY <1>0, <1>1, <1>2, UpTo
<1> QED
  BY <1>3 DEF S

\* A log without closers is balanced.
LEMMA Balanced ==
    ASSUME NEW d \in Seq(Event), Good(d), Closers(d) = <<>>
    PROVE  ScanOf(d).openTurn = 0
<1> SUFFICES ASSUME ScanOf(d).openTurn # 0 PROVE FALSE
  OBVIOUS
<1>1. /\ Closers(d) = <<FirstCloser(ScanOf(d))>> \o Closers(Closed(d))
      /\ Closed(d) \in Seq(Event) /\ FirstCloser(ScanOf(d)) \in Event
  BY CloseOne
<1>2. Closers(Closed(d)) \in Seq(Event)
  BY <1>1, ClosersType
<1> DEFINE f == <<FirstCloser(ScanOf(d))>>
           x == Closers(Closed(d))
<1>3. f \in Seq(Event) /\ x \in Seq(Event) /\ Len(f) = 1
  BY <1>1, <1>2
<1>6. f \o x = <<>>
  BY <1>1
<1> HIDE DEF f, x
<1>4. Len(x) \in Nat
  BY <1>3, LenProperties
<1>7. Len(f \o x) = Len(f) + Len(x)
  BY <1>3, ConcatProperties
<1>5. Len(<<>>) = 0
  OBVIOUS
<1> QED
  BY <1>3, <1>4, <1>5, <1>6, <1>7

\* A repaired log is balanced, and its interrupted step is answered in order.
LEMMA RepairedLog ==
    ASSUME NEW es \in Seq(Event), Good(es)
    PROVE  /\ es \o Closers(es) \in Seq(Event) /\ Good(es \o Closers(es))
           /\ Closers(es \o Closers(es)) = <<>>
           /\ TraceOf(es).openStep # 0 =>
                LastStep(es \o Closers(es)).answered = LastStep(es \o Closers(es)).asked
<1> DEFINE c == Closers(es)
           d == es \o c
<1>0. c \in Seq(Event) /\ Len(c) \in Nat /\ Len(c) \in 0..Len(c)
  BY ClosersType, LenProperties
<1>1. Converges(es, Len(c))
  BY <1>0, Repairing
<1>2. Partly(es, Len(c)) = d
  <2>1. SubSeq(c, 1, Len(c)) = c
    BY <1>0, SubSeqFull
  <2> QED
    BY <2>1, Zenon DEF Partly
<1>3. Rest(es, Len(c)) = <<>>
  BY <1>0, SubSeqEmpty DEF Rest
<1>4. d \in Seq(Event) /\ Good(d) /\ Closers(d) = <<>> /\ (Whole(es) => Whole(d))
  BY <1>1, <1>2, <1>3, Zenon DEF Converges
<1> HIDE DEF d
<1>5. ASSUME TraceOf(es).openStep # 0 PROVE LastStep(d).answered = LastStep(d).asked
  <2>1. Fine(es) /\ Fine(d)
    <3>1. 0 \in 0..Len(es) /\ 0 \in 0..Len(d)
      BY <1>4, LenProperties
    <3> QED
      BY <1>4, <3>1, GoodPrefix
  <2>2. Whole(es)
    BY <1>5, <2>1 DEF Fine, Answering, Whole
  <2>3. ScanOf(d) \in Scans /\ LastStep(d) \in Hearings
    BY <1>4, Folded
  <2>4. ScanOf(d).openTurn = 0
    BY <1>4, Balanced
  <2>5. ScanOf(d).pending = <<>>
    <3>1. Counted(TraceOf(d)) /\ Paired(ScanOf(d), TraceOf(d))
      BY <2>1 DEF Fine
    <3> QED
      BY <2>4, <3>1 DEF Counted, Paired
  <2>6. LastStep(d).asked = LastStep(d).answered \o <<>> /\ LastStep(d).answered \in Seq(Ids)
    BY <1>4, <2>2, <2>3, <2>5 DEF Whole, Hearings
  <2> QED
    BY <2>6, ConcatEmptySeq
<1> QED
  BY <1>4, <1>5 DEF d

\* What the closers of a log are: no turn starts, and the results answer what
\* is pending.
LEMMA CloserKinds ==
    ASSUME NEW es \in Seq(Event), NEW i \in 1..Len(Closers(es))
    PROVE  /\ Closers(es)[i].type # "turn/start"
           /\ Closers(es)[i].type = "tool/result" =>
                \E j \in 1..Len(ScanOf(es).pending) :
                   Closers(es)[i] = Answer(ScanOf(es), ScanOf(es).pending[j])
<1> DEFINE s == ScanOf(es)
           a == Answers(s)
           b == Boundaries(s)
           c == Closers(es)
<1>0. s \in Scans
  BY Folded
<1>1. c = ClosersOf(s)
  BY ClosersAre
<1>2. /\ a \in Seq(Event) /\ Len(a) = Len(s.pending) /\ Len(a) \in Nat
      /\ \A j \in 1..Len(s.pending) : a[j] = Answer(s, s.pending[j])
      /\ b \in Seq(Event) /\ Len(b) \in Nat
  <2> HIDE DEF s
  <2> QED
    BY <1>0, AnswerTypes, ClosingIs, LenProperties
<1>3. c = a \o b
  <2>1. Len(<<>>) = 0
    OBVIOUS
  <2>2. s.openTurn # 0
    BY <1>1, <2>1 DEF ClosersOf
  <2>3. Closing(s) = a \o b
    <3> HIDE DEF s
    <3> QED
      BY <1>0, ClosingIs
  <2> QED
    BY <1>1, <2>2, <2>3, Zenon DEF ClosersOf
<1>4. ASSUME NEW j \in 1..Len(b) PROVE b[j].type \in {"step/end", "turn/end"}
  <2>1. s.openTurn \in Nat /\ s.openStep \in Nat
    BY <1>0 DEF Scans
  <2> DEFINE x == IF s.openStep = 0 THEN <<>> ELSE <<StepEnd(s.openTurn, s.openStep)>>
             y == <<TurnEnd(s.openTurn)>>
  <2>2. StepEnd(s.openTurn, s.openStep) \in Event /\ TurnEnd(s.openTurn) \in Event
    BY <2>1, EventTypes
  <2>3. x \in Seq(Event) /\ y \in Seq(Event) /\ Len(x) \in Nat /\ Len(y) = 1
    BY <2>2, LenProperties
  <2>4. \A n \in 1..Len(x) : x[n].type = "step/end"
    BY DEF StepEnd
  <2>5. \A n \in 1..Len(y) : y[n].type = "turn/end"
    BY DEF TurnEnd
  <2>6. b = x \o y
    BY Zenon DEF Boundaries
  <2> HIDE DEF x, y, b, s
  <2>7. /\ Len(b) = Len(x) + Len(y)
        /\ \A n \in 1..Len(x) + Len(y) : b[n] = IF n <= Len(x) THEN x[n] ELSE y[n - Len(x)]
    BY <2>3, <2>6, ConcatProperties
  <2>8. CASE j <= Len(x)
    BY <2>3, <2>4, <2>7, <2>8
  <2>9. CASE ~(j <= Len(x))
    <3>1. j - Len(x) \in 1..Len(y)
      BY <2>3, <2>7, <2>9
    <3> QED
      BY <2>3, <2>5, <2>7, <2>9, <3>1
  <2> QED
    BY <2>8, <2>9
<1> HIDE DEF a, b, c, s
<1>5. /\ Len(c) = Len(a) + Len(b)
      /\ \A n \in 1..Len(a) + Len(b) : c[n] = IF n <= Len(a) THEN a[n] ELSE b[n - Len(a)]
  BY <1>2, <1>3, ConcatProperties
<1>6. i \in 1..Len(c)
  BY DEF c
<1>7. CASE i <= Len(a)
  <2>1. i \in 1..Len(s.pending) /\ c[i] = Answer(s, s.pending[i])
    BY <1>2, <1>5, <1>6, <1>7
  <2>2. c[i].type = "tool/result"
    BY <2>1 DEF Answer, Result, ToolResult
  <2> QED
    BY <2>1, <2>2 DEF c, s
<1>8. CASE ~(i <= Len(a))
  <2>1. i - Len(a) \in 1..Len(b) /\ c[i] = b[i - Len(a)]
    BY <1>2, <1>5, <1>6, <1>8
  <2>2. c[i].type \in {"step/end", "turn/end"}
    BY <1>4, <2>1
  <2> QED
    BY <2>2 DEF c
<1> QED
  BY <1>7, <1>8

(***************************************************************************)
(* The inductive invariant.                                                 *)
(***************************************************************************)

\* Where the driver stands is what its log says.
DriverAgrees ==
    LET t == TraceOf(log)
        s == ScanOf(log)
        h == LastStep(log)
    IN  /\ stage = "idle" => t.openTurn = 0 /\ t.nextTurn = turn + 1
        /\ stage # "idle" => turn >= 1 /\ t.openTurn = turn
        /\ stage \in {"idle", "between"} => t.openStep = 0
        /\ stage = "between" => t.nextStep = step + 1
        /\ stage \in {"entered", "requested", "calling"} => step >= 1 /\ t.openStep = step
        /\ stage \in {"entered", "requested"} => h.asked = <<>>
        /\ stage # "calling" => asked = 0 /\ mark = NoMarks /\ t.pendingCalls = {}
        /\ stage = "calling" =>
             /\ Len(s.pending) = asked - committed
             /\ \A j \in 1..(asked - committed) : s.pending[j] = Call(committed + j)
             /\ t.pendingCalls = {Call(i) : i \in (committed + 1)..started}

\* The open step and its started calls are in the log, and a call whose body
\* asked for a checkpoint lies in front of its mark.
StepLogged ==
    /\ stage \in {"entered", "requested", "calling"} =>
         \E k \in 1..Len(log) : log[k] = StepStart(turn, step)
    /\ \A i \in 1..asked :
         /\ i <= started => \E k \in 1..Len(log) : log[k] = ToolCall(turn, step, Call(i))
         /\ mark[i] # 0 => \E k \in 1..mark[i] : log[k] = ToolCall(turn, step, Call(i))

\* A session that is not live is stored, and its driver is gone.
Down ==
    /\ stage = "idle" /\ asked = 0 /\ mark = NoMarks
    /\ life = "prepared" => closers = Closers(log)

\* The turns of the log are within the bound.
TurnsBounded ==
    \A i \in 1..Len(log) : log[i].type = "turn/start" => log[i].turn \in 1..MaxTurns

\* No result of the log denies a body that ran.
NotDenied ==
    \A i \in 1..Len(log) : log[i].type = "tool/result"
          /\ log[i].code \in {"refused", "notStarted"}
        => log[i].call \notin invoked

IInv ==
    /\ TypeOK /\ log \in Seq(Event) /\ Good(log) /\ TurnsBounded
    /\ life = "live" => DriverAgrees /\ StepLogged
    /\ life # "live" => Down
    /\ Recorded /\ NotDenied

\* What a log's one more event keeps of the invariant, apart from the driver's part.
LEMMA Appends ==
    ASSUME NEW e \in Event, IInv, log' = Append(log, e), durable' = durable, UNCHANGED history,
           Fits(ScanOf(log), TraceOf(log), LastStep(log), e),
           e.type = "turn/start" => e.turn \in 1..MaxTurns,
           e.type = "tool/result" /\ e.code \in {"refused", "notStarted"}
                 => e.call \notin invoked
    PROVE  /\ log' \in Seq(Event) /\ Len(log) \in Nat /\ Len(log') = Len(log) + 1
           /\ \A i \in 1..Len(log) : log'[i] = log[i]
           /\ log'[Len(log) + 1] = e
           /\ Good(log') /\ TurnsBounded' /\ Recorded' /\ NotDenied'
<1>0. log \in Seq(Event) /\ Good(log) /\ TurnsBounded /\ Recorded /\ NotDenied /\ TypeOK
  BY DEF IInv
<1>1. /\ log' \in Seq(Event) /\ Len(log') = Len(log) + 1 /\ Len(log) \in Nat
      /\ \A i \in 1..Len(log) : log'[i] = log[i]
      /\ log'[Len(log) + 1] = e
  BY <1>0, Appended
<1>2. Good(log')
  BY <1>0, GoodKeeps
<1>3. \A i \in 1..Len(log') : i \in 1..Len(log) \/ i = Len(log) + 1
  BY <1>1
<1>4. TurnsBounded'
  BY <1>0, <1>1, <1>3 DEF TurnsBounded
<1>5. requested' = requested /\ invoked' = invoked
  BY DEF history
<1>6. NotDenied'
  BY <1>0, <1>1, <1>3, <1>5 DEF NotDenied
<1>7. \A i \in 1..durable : log'[i] = log[i]
  BY <1>0, <1>1 DEF TypeOK
<1>8. Recorded'
  BY <1>0, <1>5, <1>7 DEF Recorded, RequestsRecorded, EffectsRecorded
<1> QED
  BY <1>1, <1>2, <1>4, <1>6, <1>8

\* What is fine about the log of the invariant, and its parts are typed.
LEMMA Standing ==
    ASSUME IInv
    PROVE  /\ log \in Seq(Event) /\ Len(log) \in Nat
           /\ ScanOf(log) \in Scans /\ TraceOf(log) \in Traces(Ids)
                 /\ LastStep(log) \in Hearings
           /\ Counted(TraceOf(log)) /\ Paired(ScanOf(log), TraceOf(log))
           /\ TraceOf(log).openStep # 0 => Answering(ScanOf(log), LastStep(log))
           /\ Matched(log, ScanOf(log)) /\ Latest(log, TraceOf(log))
           /\ TypeOK /\ (life = "live" => DriverAgrees /\ StepLogged)
           /\ durable \in Nat /\ turn \in Nat /\ step \in Nat /\ asked \in Nat
           /\ started \in Nat /\ committed \in Nat
<1>1. log \in Seq(Event) /\ Good(log) /\ TypeOK /\ (life = "live" => DriverAgrees /\ StepLogged)
  BY DEF IInv
<1>2. 0 \in 0..Len(log) /\ Len(log) \in Nat
  BY <1>1, LenProperties
<1>3. Fine(log)
  BY <1>1, <1>2, GoodPrefix
<1>4. ScanOf(log) \in Scans /\ TraceOf(log) \in Traces(Ids) /\ LastStep(log) \in Hearings
  BY <1>1, Folded
<1>5. MaxTurns \in Nat /\ MaxSteps \in Nat /\ MaxCalls \in Nat /\ MaxCrashes \in Nat
  BY BoundsAssumption
<1>6. /\ durable \in Nat /\ turn \in Nat /\ step \in Nat /\ asked \in Nat
      /\ started \in Nat /\ committed \in Nat
  BY <1>1, <1>2, <1>5 DEF TypeOK
<1> QED
  BY <1>1, <1>2, <1>3, <1>4, <1>6 DEF Fine

\* The inductive invariant holds at the start.
LEMMA InitIInv == Init => IInv
<1> SUFFICES ASSUME Init PROVE IInv
  OBVIOUS
<1>0. MaxTurns \in Nat /\ MaxSteps \in Nat /\ MaxCalls \in Nat /\ MaxCrashes \in Nat
  BY BoundsAssumption
<1>1. log = <<>> /\ log \in Seq(Event) /\ Len(log) = 0 /\ 1..0 = {}
  BY DEF Init
<1>2. TypeOK
  BY <1>0, <1>1 DEF Init, TypeOK, NoMarks
<1>3. Good(log)
  BY <1>1, GoodEmpty
<1>4. TurnsBounded /\ NotDenied
  BY <1>1 DEF TurnsBounded, NotDenied
<1>5. Recorded
  BY DEF Init, Recorded, RequestsRecorded, EffectsRecorded
<1>6. TraceOf(log) = ClosedAfter(0)
  BY <1>1, AdvanceFold DEF TraceOf
<1>7. /\ TraceOf(log).openTurn = 0 /\ TraceOf(log).openStep = 0 /\ TraceOf(log).nextTurn = 1
      /\ TraceOf(log).pendingCalls = {}
  BY <1>6 DEF ClosedAfter, Null
<1>8. stage = "idle" /\ turn = 0 /\ asked = 0 /\ mark = NoMarks /\ life = "live"
  BY DEF Init
<1>9. DriverAgrees
  BY <1>7, <1>8 DEF DriverAgrees
<1>10. StepLogged
  BY <1>8 DEF StepLogged
<1> QED
  BY <1>1, <1>2, <1>3, <1>4, <1>5, <1>8, <1>9, <1>10 DEF IInv

(***************************************************************************)
(* Every action of the driver keeps the inductive invariant.                *)
(***************************************************************************)

\* The bounds are numbers, and a log that grows keeps what points into it.
LEMMA Bounds ==
    /\ MaxTurns \in Nat /\ MaxSteps \in Nat /\ MaxCalls \in Nat /\ MaxCrashes \in Nat
    /\ \A n \in Nat : NoMarks \in [1..MaxCalls -> 0..n]
BY BoundsAssumption DEF NoMarks

\* A longer log keeps the bounds of what points into it.
LEMMA TypedGrows ==
    ASSUME TypeOK, Len(log) \in Nat, Len(log') = Len(log) + 1
    PROVE  durable \in 0..Len(log') /\ mark \in [1..MaxCalls -> 0..Len(log')]
<1>1. 0..Len(log) \subseteq 0..Len(log')
  OBVIOUS
<1> QED
  BY <1>1 DEF TypeOK

\* What the trace and the scan see behind one more event.
LEMMA Seen ==
    ASSUME IInv, NEW e \in Event, log' = Append(log, e)
    PROVE  /\ ScanOf(log') = Scan(ScanOf(log), e) /\ TraceOf(log') = Advance(TraceOf(log), e)
           /\ LastStep(log') = Heard(LastStep(log), e)
BY Standing, Unfolded

\* A turn starts: the last one was ended, and its number is the next.
LEMMA StartTurnKeeps ==
    ASSUME IInv, StartTurn
    PROVE  IInv'
<1> DEFINE e == TurnStart(turn + 1)
           t == TraceOf(log)
           s == ScanOf(log)
           h == LastStep(log)
<1>0. /\ life = "live" /\ stage = "idle" /\ turn < MaxTurns /\ log' = Append(log, e)
      /\ turn' = turn + 1 /\ step' = 0 /\ stage' = "between"
      /\ durable' = durable /\ life' = life /\ closers' = closers /\ crashes' = crashes
      /\ asked' = asked /\ started' = started /\ committed' = committed /\ mark' = mark
      /\ requested' = requested /\ invoked' = invoked
  BY DEF StartTurn, storage, calls, history
<1>1. TypeOK /\ DriverAgrees /\ turn \in Nat /\ s \in Scans /\ t \in Traces(Ids)
  BY <1>0, Standing
<1>2. /\ t.openTurn = 0 /\ t.nextTurn = turn + 1 /\ t.openStep = 0 /\ asked = 0
      /\ mark = NoMarks /\ t.pendingCalls = {}
  BY <1>0, <1>1 DEF DriverAgrees
<1>3. e \in Event /\ e.type = "turn/start" /\ e.turn = turn + 1
  BY <1>1, EventTypes DEF TurnStart
<1> HIDE DEF e
<1>4. turn + 1 \in 1..MaxTurns
  BY <1>0, <1>1, Bounds
<1>5. Fits(s, t, h, e)
  BY <1>2, <1>3 DEF Fits, Valid, Null
<1>6. /\ log' \in Seq(Event) /\ Len(log) \in Nat /\ Len(log') = Len(log) + 1
      /\ Good(log') /\ TurnsBounded' /\ Recorded' /\ NotDenied'
  BY <1>0, <1>3, <1>4, <1>5, Appends DEF history
<1>7. TypeOK'
  BY <1>0, <1>1, <1>2, <1>4, <1>6, TypedGrows, Bounds DEF TypeOK
<1>8. /\ Advance(t, e).openTurn = turn + 1 /\ Advance(t, e).openStep = 0
      /\ Advance(t, e).nextStep = 1 /\ Advance(t, e).pendingCalls = {}
  BY <1>1, <1>2, <1>3, AdvanceEffect
<1>9. TraceOf(log') = Advance(t, e)
  BY <1>0, <1>3, Seen
<1> HIDE DEF t, s, h
<1>10. DriverAgrees'
  BY <1>0, <1>1, <1>2, <1>8, <1>9 DEF DriverAgrees
<1>11. StepLogged'
  BY <1>0, <1>2 DEF StepLogged
<1> QED
  BY <1>0, <1>6, <1>7, <1>10, <1>11 DEF IInv

\* A step starts in the open turn, behind a flush of the whole log.
LEMMA StartStepKeeps ==
    ASSUME IInv, StartStep
    PROVE  IInv'
<1> DEFINE e == StepStart(turn, step + 1)
           t == TraceOf(log)
           s == ScanOf(log)
           h == LastStep(log)
<1>0. /\ life = "live" /\ stage = "between" /\ step < MaxSteps /\ log' = Append(log, e)
      /\ turn' = turn /\ step' = step + 1 /\ stage' = "entered"
      /\ durable' = durable /\ life' = life /\ closers' = closers /\ crashes' = crashes
      /\ asked' = asked /\ started' = started /\ committed' = committed /\ mark' = mark
      /\ requested' = requested /\ invoked' = invoked
  BY DEF StartStep, storage, calls, history
<1>1. /\ TypeOK /\ DriverAgrees /\ turn \in Nat /\ step \in Nat
      /\ s \in Scans /\ t \in Traces(Ids) /\ h \in Hearings
  BY <1>0, Standing
<1>2. /\ turn >= 1 /\ t.openTurn = turn /\ t.openStep = 0 /\ t.nextStep = step + 1
      /\ asked = 0 /\ mark = NoMarks /\ t.pendingCalls = {}
  BY <1>0, <1>1 DEF DriverAgrees
<1>3. e \in Event /\ e.type = "step/start" /\ e.turn = turn /\ e.step = step + 1
  BY <1>1, EventTypes DEF StepStart
<1> HIDE DEF e
<1>4. step + 1 \in 0..MaxSteps /\ step + 1 >= 1
  BY <1>0, <1>1, Bounds
<1>5. Fits(s, t, h, e)
  BY <1>1, <1>2, <1>3 DEF Fits, Valid, Null
<1>6. /\ log' \in Seq(Event) /\ Len(log) \in Nat /\ Len(log') = Len(log) + 1
      /\ log'[Len(log) + 1] = e
      /\ Good(log') /\ TurnsBounded' /\ Recorded' /\ NotDenied'
  BY <1>0, <1>3, <1>5, Appends DEF history
<1>7. TypeOK'
  BY <1>0, <1>1, <1>2, <1>4, <1>6, TypedGrows, Bounds DEF TypeOK
<1>8. /\ Advance(t, e).openTurn = turn /\ Advance(t, e).openStep = step + 1
      /\ Advance(t, e).pendingCalls = {}
  BY <1>1, <1>2, <1>3, AdvanceEffect
<1>h. Heard(h, e).asked = <<>>
  BY <1>1, <1>3, HeardEffect
<1>9. TraceOf(log') = Advance(t, e) /\ LastStep(log') = Heard(h, e)
  BY <1>0, <1>3, Seen
<1> HIDE DEF t, s, h
<1>10. DriverAgrees'
  BY <1>0, <1>2, <1>4, <1>8, <1>h, <1>9 DEF DriverAgrees
<1>11. StepLogged'
  <2>1. Len(log) + 1 \in 1..Len(log')
    BY <1>6
  <2>2. log'[Len(log) + 1] = StepStart(turn', step')
    BY <1>0, <1>6 DEF e
  <2> QED
    BY <1>0, <1>2, <2>1, <2>2 DEF StepLogged
<1> QED
  BY <1>0, <1>6, <1>7, <1>10, <1>11 DEF IInv

\* A request reaches the model: the start of its step is durable.
LEMMA RequestKeeps ==
    ASSUME IInv, Request
    PROVE  IInv'
<1>0. /\ life = "live" /\ stage = "entered" /\ durable = Len(log) /\ stage' = "requested"
      /\ requested' = requested \cup {<<turn, step>>}
      /\ log' = log /\ turn' = turn /\ step' = step
      /\ durable' = durable /\ life' = life /\ closers' = closers /\ crashes' = crashes
      /\ asked' = asked /\ started' = started /\ committed' = committed /\ mark' = mark
      /\ invoked' = invoked
  BY DEF Request, Checkpointed, storage, calls
<1>1. TypeOK /\ DriverAgrees /\ StepLogged /\ turn \in Nat /\ step \in Nat /\ Len(log) \in Nat
  BY <1>0, Standing
<1>2. turn >= 1 /\ step >= 1
  BY <1>0, <1>1 DEF DriverAgrees
<1>3. TypeOK'
  <2>1. turn \in 1..MaxTurns /\ step \in 1..MaxSteps
    BY <1>1, <1>2, Bounds DEF TypeOK
  <2> QED
    BY <1>0, <1>1, <2>1 DEF TypeOK
<1>4. DriverAgrees'
  BY <1>0, <1>1 DEF DriverAgrees, Call
<1>5. StepLogged'
  BY <1>0, <1>1 DEF StepLogged, Call
<1>6. Recorded'
  <2>1. Recorded
    BY DEF IInv
  <2>2. \E k \in 1..durable : log[k] = StepStart(turn, step)
    BY <1>0, <1>1 DEF StepLogged
  <2>3. \A r \in requested' : \E i \in 1..durable : log[i] = StepStart(r[1], r[2])
    BY <1>0, <2>1, <2>2 DEF Recorded, RequestsRecorded
  <2> QED
    BY <1>0, <2>1, <2>3 DEF Recorded, RequestsRecorded, EffectsRecorded
<1>7. Good(log') /\ TurnsBounded' /\ NotDenied' /\ log' \in Seq(Event)
  BY <1>0 DEF IInv, TurnsBounded, NotDenied
<1> QED
  BY <1>0, <1>3, <1>4, <1>5, <1>6, <1>7 DEF IInv

\* A step ends, also with calls that have no result.
LEMMA EndStepKeeps ==
    ASSUME IInv, EndStep
    PROVE  IInv'
<1> DEFINE e == StepEnd(turn, step)
           t == TraceOf(log)
           s == ScanOf(log)
           h == LastStep(log)
<1>0. /\ life = "live" /\ stage \in {"entered", "requested", "calling"} /\ log' = Append(log, e)
      /\ turn' = turn /\ step' = step /\ stage' = "between"
      /\ durable' = durable /\ life' = life /\ closers' = closers /\ crashes' = crashes
      /\ asked' = 0 /\ started' = 0 /\ committed' = 0 /\ mark' = NoMarks
      /\ requested' = requested /\ invoked' = invoked
  BY DEF EndStep, storage, history
<1>1. /\ TypeOK /\ DriverAgrees /\ turn \in Nat /\ step \in Nat
      /\ s \in Scans /\ t \in Traces(Ids) /\ h \in Hearings /\ Counted(t)
  BY <1>0, Standing
<1>2. turn >= 1 /\ t.openTurn = turn /\ step >= 1 /\ t.openStep = step
  BY <1>0, <1>1 DEF DriverAgrees
<1>n. t.nextStep = step
  BY <1>1, <1>2 DEF Counted
<1>3. e \in Event /\ e.type = "step/end" /\ e.turn = turn /\ e.step = step
  BY <1>1, EventTypes DEF StepEnd
<1> HIDE DEF e
<1>5. Fits(s, t, h, e)
  BY <1>1, <1>2, <1>3 DEF Fits, Valid, InOpenStep
<1>6. /\ log' \in Seq(Event) /\ Len(log) \in Nat /\ Len(log') = Len(log) + 1
      /\ Good(log') /\ TurnsBounded' /\ Recorded' /\ NotDenied'
  BY <1>0, <1>3, <1>5, Appends DEF history
<1>7. TypeOK'
  BY <1>0, <1>1, <1>6, TypedGrows, Bounds DEF TypeOK
<1>8. /\ Advance(t, e).openTurn = turn /\ Advance(t, e).openStep = 0
      /\ Advance(t, e).nextStep = step + 1 /\ Advance(t, e).pendingCalls = {}
  BY <1>1, <1>2, <1>n, <1>3, AdvanceEffect
<1>9. TraceOf(log') = Advance(t, e)
  BY <1>0, <1>3, Seen
<1> HIDE DEF t, s, h
<1>10. DriverAgrees'
  BY <1>0, <1>2, <1>8, <1>9 DEF DriverAgrees
<1>11. StepLogged'
  BY <1>0 DEF StepLogged
<1> QED
  BY <1>0, <1>6, <1>7, <1>10, <1>11 DEF IInv

\* A turn ends with its steps ended.
LEMMA EndTurnKeeps ==
    ASSUME IInv, EndTurn
    PROVE  IInv'
<1> DEFINE e == TurnEnd(turn)
           t == TraceOf(log)
           s == ScanOf(log)
           h == LastStep(log)
<1>0. /\ life = "live" /\ stage = "between" /\ log' = Append(log, e)
      /\ turn' = turn /\ step' = step /\ stage' = "idle"
      /\ durable' = durable /\ life' = life /\ closers' = closers /\ crashes' = crashes
      /\ asked' = asked /\ started' = started /\ committed' = committed /\ mark' = mark
      /\ requested' = requested /\ invoked' = invoked
  BY DEF EndTurn, storage, calls, history
<1>1. /\ TypeOK /\ DriverAgrees /\ turn \in Nat /\ step \in Nat
      /\ s \in Scans /\ t \in Traces(Ids) /\ h \in Hearings /\ Counted(t)
  BY <1>0, Standing
<1>2. /\ turn >= 1 /\ t.openTurn = turn /\ t.openStep = 0 /\ asked = 0 /\ mark = NoMarks
      /\ t.pendingCalls = {}
  BY <1>0, <1>1 DEF DriverAgrees
<1>n. t.nextTurn = turn
  BY <1>1, <1>2 DEF Counted
<1>3. e \in Event /\ e.type = "turn/end" /\ e.turn = turn
  BY <1>1, EventTypes DEF TurnEnd
<1> HIDE DEF e
<1>5. Fits(s, t, h, e)
  BY <1>1, <1>2, <1>3 DEF Fits, Valid, Null
<1>6. /\ log' \in Seq(Event) /\ Len(log) \in Nat /\ Len(log') = Len(log) + 1
      /\ Good(log') /\ TurnsBounded' /\ Recorded' /\ NotDenied'
  BY <1>0, <1>3, <1>5, Appends DEF history
<1>7. TypeOK'
  BY <1>0, <1>1, <1>6, TypedGrows, Bounds DEF TypeOK
<1>8. /\ Advance(t, e).openTurn = 0 /\ Advance(t, e).openStep = 0
      /\ Advance(t, e).nextTurn = turn + 1 /\ Advance(t, e).pendingCalls = {}
  BY <1>1, <1>2, <1>n, <1>3, AdvanceEffect
<1>9. TraceOf(log') = Advance(t, e)
  BY <1>0, <1>3, Seen
<1> HIDE DEF t, s, h
<1>10. DriverAgrees'
  BY <1>0, <1>2, <1>8, <1>9 DEF DriverAgrees
<1>11. StepLogged'
  BY <1>0, <1>2 DEF StepLogged
<1> QED
  BY <1>0, <1>6, <1>7, <1>10, <1>11 DEF IInv

\* Calls are told apart by their place, and are ids.
LEMMA CallsAre ==
    ASSUME turn \in Nat, step \in Nat
    PROVE  /\ \A i \in Nat : /\ Call(i) \in Ids /\ Call(i)[1] = turn /\ Call(i)[2] = step
                             /\ Call(i)[3] = i
           /\ \A i, j \in Nat : Call(i) = Call(j) => i = j
BY DEF Call, Ids

\* A response arrives: its calls are pending in the order of the message.
LEMMA RespondKeeps ==
    ASSUME IInv, NEW n \in 0..MaxCalls, Respond(n)
    PROVE  IInv'
<1> DEFINE cs == [i \in 1..n |-> Call(i)]
           e == AssistantMessage(turn, step, cs)
           t == TraceOf(log)
           s == ScanOf(log)
           h == LastStep(log)
<1>0. /\ life = "live" /\ stage = "requested" /\ log' = Append(log, e)
      /\ turn' = turn /\ step' = step /\ stage' = "calling" /\ asked' = n
      /\ durable' = durable /\ life' = life /\ closers' = closers /\ crashes' = crashes
      /\ started' = started /\ committed' = committed /\ mark' = mark
      /\ requested' = requested /\ invoked' = invoked
  BY DEF Respond, storage, history
<1>1. /\ TypeOK /\ DriverAgrees /\ StepLogged /\ turn \in Nat /\ step \in Nat /\ n \in Nat
      /\ s \in Scans /\ t \in Traces(Ids) /\ h \in Hearings
      /\ Paired(s, t) /\ (t.openStep # 0 => Answering(s, h))
  BY <1>0, Standing, Bounds
<1>2. /\ turn >= 1 /\ t.openTurn = turn /\ step >= 1 /\ t.openStep = step /\ h.asked = <<>>
      /\ asked = 0 /\ mark = NoMarks /\ t.pendingCalls = {}
  BY <1>0, <1>1 DEF DriverAgrees
<1>z. started = 0 /\ committed = 0
  BY <1>1, <1>2 DEF TypeOK
<1>c. cs = Asking(turn, step, n)
  BY DEF Call, Asking
<1>d. cs \in Seq(Ids) /\ Len(cs) = n /\ \A i \in 1..n : cs[i] = Call(i)
  <2>1. cs \in Seq(Ids) /\ Len(cs) = n
    <3> HIDE DEF cs
    <3>1. Asking(turn, step, n) \in Seq(Ids) /\ Len(Asking(turn, step, n)) = n
      BY <1>1, AskedCalls, Zenon
    <3> QED
      BY <1>c, <3>1
  <2> QED
    BY <2>1
<1> HIDE DEF cs
<1>3. /\ e \in Event /\ e.type = "assistant/message" /\ e.turn = turn /\ e.step = step
      /\ e.calls = cs
  BY <1>1, <1>d, EventTypes DEF AssistantMessage
<1> HIDE DEF e
<1>5. Fits(s, t, h, e)
  <2>1. e.calls = Asking(e.turn, e.step, n)
    BY <1>c, <1>3
  <2> QED
    BY <1>1, <1>2, <1>3, <2>1 DEF Fits, Valid, InOpenStep
<1>6. /\ log' \in Seq(Event) /\ Len(log) \in Nat /\ Len(log') = Len(log) + 1
      /\ \A i \in 1..Len(log) : log'[i] = log[i]
      /\ Good(log') /\ TurnsBounded' /\ Recorded' /\ NotDenied'
  BY <1>0, <1>3, <1>5, Appends DEF history
<1>7. TypeOK'
  <2>1. durable \in 0..Len(log') /\ mark \in [1..MaxCalls -> 0..Len(log')]
        /\ 0 \in 0..n /\ 0 \in 0..0
    BY <1>1, <1>6, TypedGrows
  <2> QED
    BY <1>0, <1>1, <1>z, <2>1 DEF TypeOK
<1>8. Advance(t, e) = t /\ Scan(s, e).pending = s.pending \o cs
  BY <1>1, <1>3, AdvanceEffect, ScanEffect
<1>p. s.pending = <<>> /\ Scan(s, e).pending = cs
  <2>1. s.pending \in Seq(Ids) /\ h.answered \in Seq(Ids)
    BY <1>1 DEF Scans, Hearings
  <2>2. h.answered \o s.pending = <<>>
    <3>1. t.openStep # 0
      BY <1>1, <1>2
    <3>2. h.asked = h.answered \o s.pending
      BY <1>1, <3>1 DEF Answering
    <3> QED
      BY <1>2, <3>2
  <2>3. s.pending = <<>>
    BY <2>1, <2>2, ConcatEqualIffEmpty
  <2> QED
    BY <1>8, <1>d, <2>3, ConcatEmptySeq
<1>9. TraceOf(log') = Advance(t, e) /\ ScanOf(log') = Scan(s, e)
  BY <1>0, <1>3, Seen
<1>e. (committed + 1)..started = {}
  BY <1>z
<1> HIDE DEF t, s, h
<1>10. DriverAgrees'
  <2>1. Len(ScanOf(log').pending) = asked' - committed'
    BY <1>0, <1>1, <1>z, <1>9, <1>p, <1>d
  <2>2. \A j \in 1..(asked' - committed') :
          ScanOf(log').pending[j] = <<turn', step', committed' + j>>
    BY <1>0, <1>1, <1>z, <1>9, <1>p, <1>d DEF Call
  <2>3. TraceOf(log').pendingCalls = {<<turn', step', i>> : i \in (committed' + 1)..started'}
    BY <1>0, <1>2, <1>8, <1>9, <1>e
  <2> QED
    BY <1>0, <1>2, <1>8, <1>9, <2>1, <2>2, <2>3 DEF DriverAgrees, Call
<1>11. StepLogged'
  <2>1. \A i \in 1..n : ~(i <= started) /\ mark[i] = 0
    BY <1>1, <1>2, <1>z, Bounds DEF NoMarks
  <2> QED
    BY <1>0, <1>1, <1>6, <2>1 DEF StepLogged
<1> QED
  BY <1>0, <1>6, <1>7, <1>10, <1>11 DEF IInv

\* The pending calls of a step that runs its tools are those not committed.
LEMMA PendingCalls ==
    ASSUME IInv, life = "live", asked # 0
    PROVE  /\ stage = "calling" /\ step >= 1 /\ turn >= 1
           /\ TraceOf(log).openTurn = turn /\ TraceOf(log).openStep = step
           /\ Len(ScanOf(log).pending) = asked - committed
           /\ \A j \in 1..(asked - committed) :
                ScanOf(log).pending[j] = <<turn, step, committed + j>>
           /\ TraceOf(log).pendingCalls = {<<turn, step, i>> : i \in (committed + 1)..started}
           /\ turn \in 1..MaxTurns /\ step \in 1..MaxSteps
           /\ committed <= started /\ started <= asked /\ asked <= MaxCalls
<1>1. DriverAgrees /\ TypeOK /\ turn \in Nat /\ step \in Nat
  BY Standing
<1>2. stage = "calling"
  BY <1>1 DEF DriverAgrees
<1>3. step >= 1 /\ turn >= 1
  BY <1>1, <1>2 DEF DriverAgrees
<1>4. turn \in 1..MaxTurns /\ step \in 1..MaxSteps
  BY <1>1, <1>3, Bounds DEF TypeOK
<1>5. committed <= started /\ started <= asked /\ asked <= MaxCalls
  BY <1>1, Bounds DEF TypeOK
<1>6. /\ TraceOf(log).openTurn = turn /\ TraceOf(log).openStep = step
      /\ Len(ScanOf(log).pending) = asked - committed
      /\ \A j \in 1..(asked - committed) :
           ScanOf(log).pending[j] = <<turn, step, committed + j>>
      /\ TraceOf(log).pendingCalls = {<<turn, step, i>> : i \in (committed + 1)..started}
  BY <1>1, <1>2, Zenon DEF DriverAgrees, Call
<1> QED
  BY <1>2, <1>3, <1>4, <1>5, <1>6

\* A pending call, by its place.
LEMMA IsPending ==
    ASSUME IInv, life = "live", NEW i \in (committed + 1)..asked
    PROVE  /\ i - committed \in 1..Len(ScanOf(log).pending)
           /\ ScanOf(log).pending[i - committed] = Call(i)
           /\ Call(i) \in ToSet(ScanOf(log).pending)
           /\ asked # 0 /\ i \in 1..asked /\ i \in Nat
<1>0. committed \in Nat /\ asked \in Nat /\ ScanOf(log).pending \in Seq(Ids)
  BY Standing DEF Scans
<1>1. asked # 0 /\ i \in 1..asked
  BY <1>0
<1>2. /\ Len(ScanOf(log).pending) = asked - committed
      /\ \A j \in 1..(asked - committed) :
           ScanOf(log).pending[j] = <<turn, step, committed + j>>
  BY <1>1, PendingCalls
<1>3. i - committed \in 1..(asked - committed) /\ committed + (i - committed) = i
  BY <1>0
<1>4. ScanOf(log).pending[i - committed] = Call(i)
  BY <1>2, <1>3 DEF Call
<1>5. DOMAIN ScanOf(log).pending = 1..Len(ScanOf(log).pending)
  BY <1>0, LenProperties
<1> QED
  BY <1>1, <1>2, <1>3, <1>4, <1>5 DEF ToSet

\* A call is logged: it is pending, and no later message named it.
LEMMA StartCallKeeps ==
    ASSUME IInv, StartCall
    PROVE  IInv'
<1> DEFINE e == ToolCall(turn, step, Call(started + 1))
           t == TraceOf(log)
           s == ScanOf(log)
           h == LastStep(log)
<1>0. /\ life = "live" /\ stage = "calling" /\ started < asked /\ log' = Append(log, e)
      /\ turn' = turn /\ step' = step /\ stage' = stage /\ started' = started + 1
      /\ durable' = durable /\ life' = life /\ closers' = closers /\ crashes' = crashes
      /\ asked' = asked /\ committed' = committed /\ mark' = mark
      /\ requested' = requested /\ invoked' = invoked
  BY DEF StartCall, phase, storage, history
<1>1. /\ TypeOK /\ DriverAgrees /\ StepLogged /\ turn \in Nat /\ step \in Nat
      /\ started \in Nat /\ committed \in Nat /\ asked \in Nat
      /\ s \in Scans /\ t \in Traces(Ids) /\ h \in Hearings
  BY <1>0, Standing
<1>a. asked # 0
  BY <1>0, <1>1
<1>2. /\ turn >= 1 /\ t.openTurn = turn /\ step >= 1 /\ t.openStep = step
      /\ committed <= started /\ started <= asked
      /\ Len(s.pending) = asked - committed
      /\ \A j \in 1..(asked - committed) : s.pending[j] = <<turn, step, committed + j>>
      /\ t.pendingCalls = {<<turn, step, i>> : i \in (committed + 1)..started}
  BY <1>0, <1>a, PendingCalls
<1>3. /\ e \in Event /\ e.type = "tool/call" /\ e.turn = turn /\ e.step = step
      /\ e.call = Call(started + 1)
  <2>1. Call(started + 1) \in Ids
    BY <1>1, CallsAre
  <2> QED
    BY <1>1, <2>1, EventTypes DEF ToolCall
<1>4. e.call \in ToSet(s.pending)
  <2>1. started + 1 \in (committed + 1)..asked
    BY <1>0, <1>1, <1>2
  <2> QED
    BY <1>0, <1>3, <2>1, IsPending
<1> HIDE DEF e
<1>5. Fits(s, t, h, e)
  BY <1>1, <1>2, <1>3, <1>4 DEF Fits, Valid, InOpenStep
<1>6. /\ log' \in Seq(Event) /\ Len(log) \in Nat /\ Len(log') = Len(log) + 1
      /\ \A i \in 1..Len(log) : log'[i] = log[i]
      /\ log'[Len(log) + 1] = e
      /\ Good(log') /\ TurnsBounded' /\ Recorded' /\ NotDenied'
  BY <1>0, <1>3, <1>5, Appends DEF history
<1>7. TypeOK'
  <2>1. started + 1 \in 0..asked /\ committed \in 0..started + 1
    BY <1>0, <1>1, <1>2
  <2> QED
    BY <1>0, <1>1, <2>1, <1>6, TypedGrows, Bounds DEF TypeOK
<1>8. /\ Advance(t, e).openTurn = turn /\ Advance(t, e).openStep = step
      /\ Advance(t, e).pendingCalls = t.pendingCalls \cup {e.call}
  BY <1>1, <1>2, <1>3, AdvanceEffect
<1>p. Scan(s, e).pending = s.pending
  BY <1>1, <1>3, ScanEffect
<1>9. TraceOf(log') = Advance(t, e) /\ ScanOf(log') = Scan(s, e)
  BY <1>0, <1>3, Seen
<1>10. DriverAgrees'
  <2>1. (committed + 1)..(started + 1) = ((committed + 1)..started) \cup {started + 1}
    <3>0. committed \in Nat /\ started \in Nat /\ committed <= started
      BY <1>1, <1>2
    <3> HIDE DEF t, s, h
    <3>1. \A i : i \in (committed + 1)..(started + 1)
                   <=> i \in (committed + 1)..started \/ i = started + 1
      BY <3>0
    <3> QED
      BY <3>1
  <2>2. e.call = <<turn, step, started + 1>>
    BY <1>3 DEF Call
  <2>3. TraceOf(log').pendingCalls = {<<turn', step', i>> : i \in (committed' + 1)..started'}
    <3>1. t.pendingCalls \cup {<<turn, step, started + 1>>}
            = {<<turn, step, i>> : i \in ((committed + 1)..started) \cup {started + 1}}
      BY <1>2
    <3> HIDE DEF t, s, h
    <3>2. TraceOf(log').pendingCalls = t.pendingCalls \cup {<<turn, step, started + 1>>}
      BY <1>8, <1>9, <2>2
    <3>3. TraceOf(log').pendingCalls
            = {<<turn, step, i>> : i \in (committed + 1)..(started + 1)}
      BY <2>1, <3>1, <3>2
    <3> QED
      BY <1>0, <3>3
  <2>4. /\ Len(ScanOf(log').pending) = asked' - committed'
        /\ \A j \in 1..(asked' - committed') :
             ScanOf(log').pending[j] = <<turn', step', committed' + j>>
    BY <1>0, <1>2, <1>9, <1>p
  <2> HIDE DEF t, s, h
  <2> QED
    BY <1>0, <1>2, <1>8, <1>9, <2>3, <2>4 DEF DriverAgrees, Call
<1>11. StepLogged'
  <2>0. /\ stage \in {"entered", "requested", "calling"}
        /\ \A i \in 1..asked : mark[i] \in 0..Len(log)
    BY <1>0, <1>1, Bounds DEF TypeOK
  <2>1. \E k \in 1..Len(log') : log'[k] = StepStart(turn, step)
    BY <1>1, <1>6, <2>0 DEF StepLogged
  <2>2. ASSUME NEW i \in 1..asked, i <= started + 1
        PROVE  \E k \in 1..Len(log') : log'[k] = ToolCall(turn, step, Call(i))
    <3>1. CASE i <= started
      BY <1>1, <1>6, <3>1 DEF StepLogged
    <3>2. CASE ~(i <= started)
      <4>1. i = started + 1
        BY <1>1, <2>2, <3>2
      <4>2. log'[Len(log) + 1] = ToolCall(turn, step, Call(i))
        BY <1>6, <4>1 DEF e
      <4> QED
        BY <1>6, <4>2
    <3> QED
      BY <3>1, <3>2
  <2>3. ASSUME NEW i \in 1..asked, mark[i] # 0
        PROVE  \E k \in 1..mark[i] : log'[k] = ToolCall(turn, step, Call(i))
    <3>1. PICK k \in 1..mark[i] : log[k] = ToolCall(turn, step, Call(i))
      BY <1>1, <2>3 DEF StepLogged
    <3>2. k \in 1..Len(log)
      BY <2>0, <3>1, <1>6
    <3> QED
      BY <1>6, <3>1, <3>2
  <2> QED
    BY <1>0, <2>1, <2>2, <2>3 DEF StepLogged, Call
<1> QED
  BY <1>0, <1>6, <1>7, <1>10, <1>11 DEF IInv

\* A body asks for a checkpoint: its call lies in front of the mark.
LEMMA AskCheckpointKeeps ==
    ASSUME IInv, NEW i \in 1..MaxCalls, AskCheckpoint(i)
    PROVE  IInv'
<1>0. /\ life = "live" /\ i \in (committed + 1)..started /\ mark[i] = 0
      /\ mark' = [mark EXCEPT ![i] = Len(log)]
      /\ log' = log /\ turn' = turn /\ step' = step /\ stage' = stage
      /\ durable' = durable /\ life' = life /\ closers' = closers /\ crashes' = crashes
      /\ asked' = asked /\ started' = started /\ committed' = committed
      /\ requested' = requested /\ invoked' = invoked
  BY DEF AskCheckpoint, phase, storage, history
<1>1. /\ TypeOK /\ DriverAgrees /\ StepLogged /\ Len(log) \in Nat
      /\ started \in Nat /\ committed \in Nat /\ asked \in Nat
  BY <1>0, Standing
<1>2. i \in 1..asked /\ i <= started /\ asked # 0
  BY <1>0, <1>1 DEF TypeOK
<1>3. stage = "calling"
  BY <1>0, <1>2, PendingCalls
<1>4. /\ mark' \in [1..MaxCalls -> 0..Len(log)] /\ mark'[i] = Len(log)
      /\ \A j \in 1..MaxCalls : j # i => mark'[j] = mark[j]
  BY <1>0, <1>1 DEF TypeOK
<1>5. TypeOK'
  BY <1>0, <1>1, <1>4 DEF TypeOK
<1>6. DriverAgrees'
  BY <1>0, <1>1, <1>3 DEF DriverAgrees, Call
<1>7. StepLogged'
  <2>1. \A j \in 1..asked : j \in 1..MaxCalls
    BY <1>1, Bounds DEF TypeOK
  <2>2. ASSUME NEW j \in 1..asked, mark'[j] # 0
        PROVE  \E k \in 1..mark'[j] : log[k] = ToolCall(turn, step, Call(j))
    <3>1. CASE j = i
      BY <1>1, <1>2, <1>4, <3>1 DEF StepLogged
    <3>2. CASE j # i
      BY <1>1, <1>4, <2>1, <2>2, <3>2 DEF StepLogged
    <3> QED
      BY <3>1, <3>2
  <2> QED
    BY <1>0, <1>1, <2>2 DEF StepLogged, Call
<1>8. /\ Good(log') /\ TurnsBounded' /\ NotDenied' /\ log' \in Seq(Event) /\ Recorded'
  BY <1>0 DEF IInv, TurnsBounded, NotDenied, Recorded, RequestsRecorded, EffectsRecorded
<1> QED
  BY <1>0, <1>5, <1>6, <1>7, <1>8 DEF IInv

\* A body runs: its call is durable, and no result denied it before.
LEMMA BodyRunsKeeps ==
    ASSUME IInv, NEW i \in 1..MaxCalls, BodyRuns(i)
    PROVE  IInv'
<1>0. /\ life = "live" /\ i \in (committed + 1)..started /\ mark[i] \in 1..durable
      /\ invoked' = invoked \cup {Call(i)}
      /\ log' = log /\ turn' = turn /\ step' = step /\ stage' = stage
      /\ durable' = durable /\ life' = life /\ closers' = closers /\ crashes' = crashes
      /\ asked' = asked /\ started' = started /\ committed' = committed /\ mark' = mark
      /\ requested' = requested
  BY DEF BodyRuns, phase, calls, storage
<1>1. /\ TypeOK /\ DriverAgrees /\ StepLogged /\ Len(log) \in Nat /\ durable \in Nat
      /\ started \in Nat /\ committed \in Nat /\ asked \in Nat
      /\ Matched(log, ScanOf(log)) /\ turn \in Nat /\ step \in Nat
  BY <1>0, Standing
<1>2. i \in (committed + 1)..asked /\ i \in 1..asked
  BY <1>0, <1>1 DEF TypeOK
<1>3. /\ i - committed \in 1..Len(ScanOf(log).pending)
      /\ ScanOf(log).pending[i - committed] = Call(i) /\ asked # 0
  BY <1>0, <1>2, IsPending
<1>4. turn \in 1..MaxTurns /\ step \in 1..MaxSteps
  BY <1>0, <1>3, PendingCalls
<1>5. TypeOK'
  <2>1. Call(i) \in (1..MaxTurns) \X (1..MaxSteps) \X (1..MaxCalls)
    BY <1>4 DEF Call
  <2> QED
    BY <1>0, <1>1, <2>1 DEF TypeOK
<1>6. DriverAgrees' /\ StepLogged'
  BY <1>0, <1>1 DEF DriverAgrees, StepLogged, Call
<1>7. Recorded'
  <2>1. Recorded
    BY DEF IInv
  <2>2. \E k \in 1..durable : log[k] = ToolCall(turn, step, Call(i))
    <3>1. mark[i] # 0
      BY <1>0
    <3>2. PICK k \in 1..mark[i] : log[k] = ToolCall(turn, step, Call(i))
      BY <1>1, <1>2, <3>1 DEF StepLogged
    <3>3. k \in 1..durable
      BY <1>0, <1>1
    <3> QED
      BY <3>2, <3>3
  <2>3. ToolCall(turn, step, Call(i)) = ToolCall(Call(i)[1], Call(i)[2], Call(i))
    BY DEF Call
  <2>4. \A c \in invoked' : \E k \in 1..durable : log[k] = ToolCall(c[1], c[2], c)
    BY <1>0, <2>1, <2>2, <2>3 DEF Recorded, EffectsRecorded
  <2> QED
    BY <1>0, <2>1, <2>4 DEF Recorded, RequestsRecorded, EffectsRecorded
<1>8. NotDenied'
  <2>1. NotDenied
    BY DEF IInv
  <2>2. \A k \in 1..Len(log) : log[k].type = "tool/result" => log[k].call # Call(i)
    BY <1>1, <1>3 DEF Matched
  <2> QED
    BY <1>0, <2>1, <2>2 DEF NotDenied
<1>9. /\ Good(log') /\ TurnsBounded' /\ log' \in Seq(Event)
  BY <1>0 DEF IInv, TurnsBounded
<1> QED
  BY <1>0, <1>5, <1>6, <1>7, <1>8, <1>9 DEF IInv

\* A result is logged: it is the first pending call's, and says whether the
\* body ran.
LEMMA CommitResultKeeps ==
    ASSUME IInv, CommitResult
    PROVE  IInv'
<1> DEFINE c == Call(committed + 1)
           code == IF c \in invoked THEN "ran" ELSE "refused"
           e == Result(c, code)
           t == TraceOf(log)
           s == ScanOf(log)
           h == LastStep(log)
<1>0. /\ life = "live" /\ stage = "calling" /\ committed < started /\ log' = Append(log, e)
      /\ turn' = turn /\ step' = step /\ stage' = stage /\ committed' = committed + 1
      /\ durable' = durable /\ life' = life /\ closers' = closers /\ crashes' = crashes
      /\ asked' = asked /\ started' = started /\ mark' = mark
      /\ requested' = requested /\ invoked' = invoked
  BY DEF CommitResult, phase, storage, history
<1>1. /\ TypeOK /\ DriverAgrees /\ StepLogged /\ turn \in Nat /\ step \in Nat
      /\ started \in Nat /\ committed \in Nat /\ asked \in Nat
      /\ s \in Scans /\ t \in Traces(Ids) /\ h \in Hearings /\ s.pending \in Seq(Ids)
  BY <1>0, Standing DEF Scans
<1>a. asked # 0
  BY <1>0, <1>1 DEF TypeOK
<1>2. /\ turn >= 1 /\ t.openTurn = turn /\ step >= 1 /\ t.openStep = step
      /\ committed <= started /\ started <= asked
      /\ Len(s.pending) = asked - committed
      /\ \A j \in 1..(asked - committed) : s.pending[j] = <<turn, step, committed + j>>
      /\ t.pendingCalls = {<<turn, step, i>> : i \in (committed + 1)..started}
  BY <1>0, <1>a, PendingCalls
<1>c. c \in Ids /\ c[1] = turn /\ c[2] = step /\ c = <<turn, step, committed + 1>>
  BY <1>1, CallsAre DEF Call
<1> HIDE DEF c
<1>3. /\ e \in Event /\ e.type = "tool/result" /\ e.turn = turn /\ e.step = step
      /\ e.call = c /\ e.code = code
  <2>1. code \in Codes
    BY DEF Codes
  <2>2. e = ToolResult(turn, step, c, code)
    BY <1>c DEF Result
  <2> HIDE DEF code, e
  <2>3. e \in Event
    BY <1>1, <1>c, <2>1, <2>2, EventTypes
  <2> QED
    BY <2>2, <2>3 DEF ToolResult
<1>4. s.pending # <<>> /\ e.call = s.pending[1] /\ e.call \in t.pendingCalls
  <2>1. 1 \in 1..(asked - committed) /\ committed + 1 \in (committed + 1)..started
    BY <1>0, <1>1, <1>2
  <2>2. s.pending[1] = c
    BY <1>2, <1>c, <2>1
  <2>3. c \in t.pendingCalls
    BY <1>2, <1>c, <2>1
  <2>4. Len(<<>>) = 0 /\ asked - committed # 0
    BY <2>1
  <2> HIDE DEF e, t, s
  <2> QED
    BY <1>2, <1>3, <2>2, <2>3, <2>4
<1>d. e.code \in {"refused", "notStarted"} => e.call \notin invoked
  BY <1>3
<1> HIDE DEF e, code
<1>5. Fits(s, t, h, e)
  BY <1>1, <1>2, <1>3, <1>4 DEF Fits, Valid, InOpenStep
<1>6. /\ log' \in Seq(Event) /\ Len(log) \in Nat /\ Len(log') = Len(log) + 1
      /\ \A i \in 1..Len(log) : log'[i] = log[i]
      /\ Good(log') /\ TurnsBounded' /\ Recorded' /\ NotDenied'
  BY <1>0, <1>3, <1>5, <1>d, Appends DEF history
<1>7. TypeOK'
  <2>1. committed + 1 \in 0..started
    BY <1>0, <1>1, <1>2
  <2> QED
    BY <1>0, <1>1, <2>1, <1>6, TypedGrows, Bounds DEF TypeOK
<1>8. /\ Advance(t, e).openTurn = turn /\ Advance(t, e).openStep = step
      /\ Advance(t, e).pendingCalls = t.pendingCalls \ {e.call}
  BY <1>1, <1>2, <1>3, AdvanceEffect
<1>p. Scan(s, e).pending = Tail(s.pending)
  <2>1. Scan(s, e).pending = RemoveFirst(s.pending, e.call)
    BY <1>1, <1>3, ScanEffect
  <2>2. RemoveFirst(s.pending, s.pending[1]) = Tail(s.pending)
    BY <1>1, <1>4, RemoveHead
  <2> QED
    BY <1>4, <2>1, <2>2
<1>9. TraceOf(log') = Advance(t, e) /\ ScanOf(log') = Scan(s, e)
  BY <1>0, <1>3, Seen
<1>10. DriverAgrees'
  <2>3. TraceOf(log').pendingCalls = {<<turn', step', i>> : i \in (committed' + 1)..started'}
    <3>1. (committed + 1)..started = ((committed + 2)..started) \cup {committed + 1}
      BY <1>0, <1>1
    <3>2. \A i \in (committed + 2)..started : i # committed + 1
      BY <1>1
    <3>3. t.pendingCalls \ {<<turn, step, committed + 1>>}
            = {<<turn, step, i>> : i \in (committed + 2)..started}
      BY <1>2, <3>1, <3>2
    <3>4. (committed + 1) + 1 = committed + 2
      BY <1>1
    <3>5. e.call = <<turn, step, committed + 1>>
      BY <1>3, <1>c
    <3> HIDE DEF t
    <3>6. TraceOf(log').pendingCalls = {<<turn, step, i>> : i \in (committed + 2)..started}
      BY <1>8, <1>9, <3>3, <3>5
    <3> QED
      BY <1>0, <3>4, <3>6
  <2>4. /\ Len(ScanOf(log').pending) = asked' - committed'
        /\ \A j \in 1..(asked' - committed') :
             ScanOf(log').pending[j] = <<turn', step', committed' + j>>
    <3> DEFINE u == Tail(s.pending)
    <3>1. /\ Len(u) = Len(s.pending) - 1
          /\ \A j \in 1..Len(u) : j + 1 \in 1..Len(s.pending) /\ u[j] = s.pending[j + 1]
      BY <1>1, <1>4, TailIs
    <3>2. ScanOf(log').pending = u
      BY <1>9, <1>p
    <3> HIDE DEF u, s, t
    <3>3. Len(u) = asked - (committed + 1)
      BY <1>1, <1>2, <3>1
    <3>4. \A j \in 1..Len(u) : u[j] = <<turn, step, (committed + 1) + j>>
      <4> TAKE j \in 1..Len(u)
      <4>1. j + 1 \in 1..(asked - committed) /\ committed + (j + 1) = (committed + 1) + j
        BY <1>1, <1>2, <3>1
      <4> QED
        BY <1>2, <3>1, <4>1
    <3> QED
      BY <1>0, <3>2, <3>3, <3>4
  <2> HIDE DEF t, s, h
  <2> QED
    BY <1>0, <1>2, <1>8, <1>9, <2>3, <2>4 DEF DriverAgrees, Call
<1>11. StepLogged'
  <2>0. /\ stage \in {"entered", "requested", "calling"}
        /\ \A i \in 1..asked : mark[i] \in 0..Len(log)
    BY <1>0, <1>1, Bounds DEF TypeOK
  <2>1. \E k \in 1..Len(log') : log'[k] = StepStart(turn, step)
    BY <1>1, <1>6, <2>0 DEF StepLogged
  <2>2. ASSUME NEW i \in 1..asked, i <= started
        PROVE  \E k \in 1..Len(log') : log'[k] = ToolCall(turn, step, Call(i))
    BY <1>1, <1>6, <2>2 DEF StepLogged
  <2>3. ASSUME NEW i \in 1..asked, mark[i] # 0
        PROVE  \E k \in 1..mark[i] : log'[k] = ToolCall(turn, step, Call(i))
    <3>1. PICK k \in 1..mark[i] : log[k] = ToolCall(turn, step, Call(i))
      BY <1>1, <2>3 DEF StepLogged
    <3>2. k \in 1..Len(log)
      BY <2>0, <3>1, <1>6
    <3> QED
      BY <1>6, <3>1, <3>2
  <2> QED
    BY <1>0, <2>1, <2>2, <2>3 DEF StepLogged, Call
<1> QED
  BY <1>0, <1>6, <1>7, <1>10, <1>11 DEF IInv

(***************************************************************************)
(* Every action of the store, the crash and the recovery keeps it.          *)
(***************************************************************************)

\* The write path stores more of the log.
LEMMA PersistKeeps ==
    ASSUME IInv, Persist
    PROVE  IInv'
<1>0. /\ life = "live" /\ durable' \in (durable + 1)..Len(log)
      /\ log' = log /\ turn' = turn /\ step' = step /\ stage' = stage
      /\ life' = life /\ closers' = closers /\ crashes' = crashes
      /\ asked' = asked /\ started' = started /\ committed' = committed /\ mark' = mark
      /\ requested' = requested /\ invoked' = invoked
  BY DEF Persist, phase, calls, history
<1>1. TypeOK /\ DriverAgrees /\ StepLogged /\ Len(log) \in Nat /\ durable \in Nat
  BY <1>0, Standing
<1>2. TypeOK'
  BY <1>0, <1>1 DEF TypeOK
<1>3. DriverAgrees' /\ StepLogged'
  BY <1>0, <1>1 DEF DriverAgrees, StepLogged, Call
<1>4. Recorded'
  <2>1. 1..durable \subseteq 1..durable'
    BY <1>0, <1>1
  <2> QED
    BY <1>0, <2>1 DEF IInv, Recorded, RequestsRecorded, EffectsRecorded
<1>5. Good(log') /\ TurnsBounded' /\ NotDenied' /\ log' \in Seq(Event)
  BY <1>0 DEF IInv, TurnsBounded, NotDenied
<1> QED
  BY <1>0, <1>2, <1>3, <1>4, <1>5 DEF IInv

\* A crash leaves a prefix of the log, and what was recorded stays recorded.
LEMMA CrashKeeps ==
    ASSUME IInv, Crash
    PROVE  IInv'
<1>0. /\ life = "live" /\ crashes < MaxCrashes /\ crashes' = crashes + 1
      /\ log' = SubSeq(log, 1, durable) /\ life' = "down"
      /\ turn' = 0 /\ step' = 0 /\ stage' = "idle"
      /\ asked' = 0 /\ started' = 0 /\ committed' = 0 /\ mark' = NoMarks
      /\ durable' = durable /\ closers' = closers
      /\ requested' = requested /\ invoked' = invoked
  BY DEF Crash, history
<1>1. TypeOK /\ Len(log) \in Nat /\ log \in Seq(Event) /\ durable \in 0..Len(log)
  BY Standing DEF TypeOK
<1>2. /\ log' \in Seq(Event) /\ Len(log') = durable
      /\ \A i \in 1..durable : log'[i] = log[i] /\ i \in 1..Len(log)
  BY <1>0, <1>1, Prefix
<1>3. Good(log')
  BY <1>0, <1>1, GoodPrefix DEF IInv
<1>4. TypeOK'
  BY <1>0, <1>1, <1>2, Bounds DEF TypeOK
<1>5. TurnsBounded' /\ NotDenied'
  BY <1>0, <1>2 DEF IInv, TurnsBounded, NotDenied
<1>6. Recorded'
  BY <1>0, <1>2 DEF IInv, Recorded, RequestsRecorded, EffectsRecorded
<1>7. Down'
  BY <1>0 DEF Down
<1> QED
  BY <1>0, <1>2, <1>3, <1>4, <1>5, <1>6, <1>7 DEF IInv

\* A source is prepared: its closers are those of the stored log.
LEMMA PrepareKeeps ==
    ASSUME IInv, Prepare
    PROVE  IInv'
<1>0. /\ life = "down" /\ life' = "prepared" /\ closers' = Closers(log)
      /\ log' = log /\ durable' = durable /\ crashes' = crashes
      /\ turn' = turn /\ step' = step /\ stage' = stage
      /\ asked' = asked /\ started' = started /\ committed' = committed /\ mark' = mark
      /\ requested' = requested /\ invoked' = invoked
  BY DEF Prepare, phase, calls, history
<1>1. TypeOK'
  BY <1>0 DEF IInv, TypeOK
<1>2. Down'
  BY <1>0 DEF IInv, Down
<1>3. Recorded' /\ Good(log') /\ TurnsBounded' /\ NotDenied' /\ log' \in Seq(Event)
  BY <1>0 DEF IInv, TurnsBounded, NotDenied, Recorded, RequestsRecorded, EffectsRecorded
<1> QED
  BY <1>0, <1>1, <1>2, <1>3 DEF IInv

\* The events behind a log that is partly repaired.
LEMMA RepairEvents ==
    ASSUME NEW es \in Seq(Event), NEW k \in 0..Len(Closers(es))
    PROVE  /\ Len(Partly(es, k)) = Len(es) + k /\ Len(es) \in Nat /\ k \in Nat
           /\ \A i \in 1..Len(es) : Partly(es, k)[i] = es[i]
           /\ \A i \in 1..Len(es) + k :
                \/ i \in 1..Len(es)
                \/ \E j \in 1..Len(Closers(es)) : Partly(es, k)[i] = Closers(es)[j]
<1> DEFINE c == Closers(es)
           p == SubSeq(c, 1, k)
<1>0. c \in Seq(Event) /\ Len(c) \in Nat /\ Len(es) \in Nat
  BY ClosersType, LenProperties
<1>k. k \in 0..Len(c)
  OBVIOUS
<1>1. p \in Seq(Event) /\ Len(p) = k /\ \A i \in 1..k : p[i] = c[i]
  <2> HIDE DEF c
  <2> QED
    BY <1>0, <1>k, Prefix
<1>2. Partly(es, k) = es \o p
  BY DEF Partly
<1> HIDE DEF c, p
<1>3. /\ Len(es \o p) = Len(es) + k
      /\ \A i \in 1..Len(es) + k : (es \o p)[i] = IF i <= Len(es) THEN es[i] ELSE p[i - Len(es)]
  BY <1>1, ConcatProperties
<1>4. k \in Nat /\ k <= Len(c)
  BY <1>0, <1>k
<1>5. \A i \in 1..Len(es) : i \in 1..Len(es) + k
  BY <1>0, <1>4
<1>6. ASSUME NEW i \in 1..Len(es) + k, i \notin 1..Len(es)
      PROVE  \E j \in 1..Len(c) : (es \o p)[i] = c[j]
  <2>1. ~(i <= Len(es)) /\ i - Len(es) \in 1..k /\ i - Len(es) \in 1..Len(c)
    BY <1>0, <1>4, <1>6
  <2>2. (es \o p)[i] = c[i - Len(es)]
    BY <1>1, <1>3, <2>1
  <2> QED
    BY <2>1, <2>2
<1>7. /\ Len(Partly(es, k)) = Len(es) + k /\ Len(es) \in Nat /\ k \in Nat
      /\ \A i \in 1..Len(es) : Partly(es, k)[i] = es[i]
  BY <1>0, <1>2, <1>3, <1>4, <1>5
<1>8. \A i \in 1..Len(es) + k :
        i \in 1..Len(es) \/ \E j \in 1..Len(c) : Partly(es, k)[i] = c[j]
  BY <1>2, <1>6
<1> QED
  BY <1>7, <1>8 DEF c

\* No closer denies a call that is recorded as started.
LEMMA ClosersDoNotDeny ==
    ASSUME NEW es \in Seq(Event), Good(es), NEW j \in 1..Len(Closers(es)),
           NEW n \in 1..Len(es), es[n].type = "tool/call",
           Closers(es)[j].type = "tool/result", Closers(es)[j].call = es[n].call
    PROVE  Closers(es)[j].code = "unknown"
<1> DEFINE s == ScanOf(es)
           x == Closers(es)[j]
<1>0. Matched(es, s)
  <2>1. 0 \in 0..Len(es)
    BY LenProperties
  <2>2. Fine(es)
    BY <2>1, GoodPrefix
  <2> QED
    BY <2>2 DEF Fine
<1>1. PICK m \in 1..Len(s.pending) : x = Answer(s, s.pending[m])
  BY CloserKinds
<1>2. x.call = s.pending[m] /\ (s.pending[m] \in s.recorded => x.code = "unknown")
  <2> HIDE DEF s, x
  <2>1. x.call = s.pending[m]
    BY <1>1 DEF Answer, Result, ToolResult
  <2>2. ASSUME s.pending[m] \in s.recorded PROVE x.code = "unknown"
    BY <1>1, <2>2 DEF Answer, Result, ToolResult
  <2> QED
    BY <2>1, <2>2
<1>3. s.pending[m] \in s.recorded
  <2>1. es[n].call = s.pending[m]
    BY <1>2
  <2> HIDE DEF s, x
  <2> QED
    BY <1>0, <2>1 DEF Matched
<1> QED
  BY <1>2, <1>3

\* A repair that stored some closers, all or none of them, keeps the invariant.
LEMMA RepairedKeeps ==
    ASSUME IInv, life = "prepared", NEW k \in 0..Len(closers), Repaired(k),
           crashes' \in 0..MaxCrashes
    PROVE  IInv'
<1>0. /\ log' = log \o SubSeq(closers, 1, k) /\ durable' = Len(log')
      /\ life' = "down" /\ closers' = <<>>
      /\ turn' = turn /\ step' = step /\ stage' = stage
      /\ asked' = asked /\ started' = started /\ committed' = committed /\ mark' = mark
      /\ requested' = requested /\ invoked' = invoked
  BY DEF Repaired, phase, calls, history
<1>1. /\ TypeOK /\ Len(log) \in Nat /\ log \in Seq(Event) /\ Good(log) /\ TurnsBounded
      /\ Recorded /\ NotDenied /\ Down /\ durable = Len(log)
  BY Standing DEF IInv, TypeOK
<1>2. closers = Closers(log)
  BY <1>1 DEF Down
<1>3. log' = Partly(log, k) /\ k \in 0..Len(Closers(log))
  BY <1>0, <1>2 DEF Partly
<1>4. log' \in Seq(Event) /\ Good(log')
  BY <1>1, <1>3, Repairing DEF Converges
<1>5. /\ Len(log') = Len(log) + k /\ k \in Nat
      /\ \A i \in 1..Len(log) : log'[i] = log[i]
      /\ \A i \in 1..Len(log') :
           i \in 1..Len(log) \/ \E j \in 1..Len(Closers(log)) : log'[i] = Closers(log)[j]
  <2>1. /\ Len(Partly(log, k)) = Len(log) + k /\ k \in Nat
        /\ \A i \in 1..Len(log) : Partly(log, k)[i] = log[i]
        /\ \A i \in 1..Len(log) + k :
             \/ i \in 1..Len(log)
             \/ \E j \in 1..Len(Closers(log)) : Partly(log, k)[i] = Closers(log)[j]
    BY <1>1, <1>3, RepairEvents
  <2> QED
    BY <1>3, <2>1
<1>6. TypeOK'
  <2>1. mark \in [1..MaxCalls -> 0..Len(log')]
    BY <1>1, <1>5, Bounds DEF Down
  <2>2. durable' \in 0..Len(log')
    BY <1>0, <1>1, <1>5
  <2> QED
    BY <1>0, <1>1, <2>1, <2>2 DEF TypeOK
<1>7. TurnsBounded'
  <2> SUFFICES ASSUME NEW i \in 1..Len(log'), log'[i].type = "turn/start"
               PROVE  log'[i].turn \in 1..MaxTurns
    BY DEF TurnsBounded
  <2>1. i \in 1..Len(log)
    BY <1>1, <1>5, CloserKinds
  <2> QED
    BY <1>1, <1>5, <2>1 DEF TurnsBounded
<1>8. NotDenied'
  <2> SUFFICES ASSUME NEW i \in 1..Len(log'), log'[i].type = "tool/result",
                      log'[i].code \in {"refused", "notStarted"}, log'[i].call \in invoked
               PROVE  FALSE
    BY <1>0 DEF NotDenied
  <2>1. i \notin 1..Len(log)
    BY <1>1, <1>5 DEF NotDenied
  <2>2. PICK j \in 1..Len(Closers(log)) : log'[i] = Closers(log)[j]
    BY <1>5, <2>1
  <2>3. PICK n \in 1..durable :
          log[n] = ToolCall(log'[i].call[1], log'[i].call[2], log'[i].call)
    BY <1>1 DEF Recorded, EffectsRecorded
  <2>4. log[n].type = "tool/call" /\ log[n].call = Closers(log)[j].call
    BY <2>2, <2>3 DEF ToolCall
  <2>5. Closers(log)[j].code = "unknown"
    BY <1>1, <2>2, <2>4, ClosersDoNotDeny
  <2> QED
    BY <2>2, <2>5
<1>9. Recorded'
  <2>1. \A i \in 1..durable : i \in 1..durable' /\ log'[i] = log[i]
    BY <1>0, <1>1, <1>5
  <2> QED
    BY <1>0, <1>1, <2>1 DEF Recorded, RequestsRecorded, EffectsRecorded
<1>10. Down'
  BY <1>0, <1>1 DEF Down
<1> QED
  BY <1>0, <1>4, <1>6, <1>7, <1>8, <1>9, <1>10 DEF IInv

\* A turn of a log is within the bound.
LEMMA LastTurnBound ==
    ASSUME IInv
    PROVE  LastTurnOf(log) \in 0..MaxTurns /\ LastTurn = LastTurnOf(log)
<1> DEFINE B == {i \in DOMAIN log : log[i].type = "turn/start"}
<1>0. log \in Seq(Event) /\ TurnsBounded /\ MaxTurns \in Nat
  BY Bounds DEF IInv
<1>1. LastTurn = LastTurnOf(log)
  BY Zenon DEF LastTurn, LastTurnOf
<1>2. CASE B = {}
  BY <1>0, <1>1, <1>2 DEF LastTurnOf
<1>3. CASE B # {}
  <2>1. B \in SUBSET (1..Len(log)) /\ Len(log) \in Nat
    BY <1>0, LenProperties
  <2>2. Max(B) \in B
    BY <1>3, <2>1, MaxIn
  <2>3. log[Max(B)].turn \in 1..MaxTurns
    BY <1>0, <2>1, <2>2 DEF TurnsBounded
  <2> HIDE DEF B
  <2>4. LastTurnOf(log) = log[Max(B)].turn
    BY <1>3 DEF LastTurnOf, B
  <2> QED
    BY <1>0, <1>1, <2>3, <2>4
<1> QED
  BY <1>2, <1>3

\* A balanced source resumes: the driver counts on from the log's last turn.
LEMMA ResumeKeeps ==
    ASSUME IInv, Resume
    PROVE  IInv'
<1>0. /\ life = "prepared" /\ closers = <<>> /\ life' = "live" /\ turn' = LastTurn
      /\ log' = log /\ durable' = durable /\ closers' = closers /\ crashes' = crashes
      /\ step' = step /\ stage' = stage
      /\ asked' = asked /\ started' = started /\ committed' = committed /\ mark' = mark
      /\ requested' = requested /\ invoked' = invoked
  BY DEF Resume, calls, history
<1>1. /\ TypeOK /\ Down /\ log \in Seq(Event) /\ Good(log)
  BY <1>0 DEF IInv
<1>2. /\ stage = "idle" /\ asked = 0 /\ mark = NoMarks /\ Closers(log) = <<>>
  BY <1>0, <1>1 DEF Down
<1>3. /\ Counted(TraceOf(log)) /\ Paired(ScanOf(log), TraceOf(log)) /\ Latest(log, TraceOf(log))
  BY Standing
<1>4. ScanOf(log).openTurn = 0
  BY <1>1, <1>2, Balanced
<1>5. /\ TraceOf(log).openTurn = 0 /\ TraceOf(log).openStep = 0
      /\ TraceOf(log).pendingCalls = {}
  BY <1>3, <1>4 DEF Counted, Paired
<1>6. TraceOf(log).nextTurn = turn' + 1 /\ turn' \in 0..MaxTurns
  BY <1>0, <1>3, <1>5, LastTurnBound DEF Latest
<1>7. TypeOK'
  BY <1>0, <1>1, <1>6 DEF TypeOK
<1>8. DriverAgrees' /\ StepLogged'
  BY <1>0, <1>2, <1>5, <1>6 DEF DriverAgrees, StepLogged
<1>9. Recorded' /\ Good(log') /\ TurnsBounded' /\ NotDenied' /\ log' \in Seq(Event)
  BY <1>0 DEF IInv, TurnsBounded, NotDenied, Recorded, RequestsRecorded, EffectsRecorded
<1> QED
  BY <1>0, <1>7, <1>8, <1>9 DEF IInv

(***************************************************************************)
(* The theorems about recovery.                                             *)
(***************************************************************************)

\* Every step keeps the inductive invariant.
LEMMA NextKeeps ==
    ASSUME IInv, [Next]_vars
    PROVE  IInv'
<1>0. crashes \in 0..MaxCrashes /\ MaxCrashes \in Nat
  BY Bounds DEF IInv, TypeOK
<1>1. CASE StartTurn BY <1>1, StartTurnKeeps
<1>2. CASE StartStep BY <1>2, StartStepKeeps
<1>3. CASE Request BY <1>3, RequestKeeps
<1>4. ASSUME NEW n \in 0..MaxCalls, Respond(n) PROVE IInv' BY <1>4, RespondKeeps
<1>5. CASE StartCall BY <1>5, StartCallKeeps
<1>6. ASSUME NEW i \in 1..MaxCalls, AskCheckpoint(i) PROVE IInv' BY <1>6, AskCheckpointKeeps
<1>7. ASSUME NEW i \in 1..MaxCalls, BodyRuns(i) PROVE IInv' BY <1>7, BodyRunsKeeps
<1>8. CASE CommitResult BY <1>8, CommitResultKeeps
<1>9. CASE EndStep BY <1>9, EndStepKeeps
<1>10. CASE EndTurn BY <1>10, EndTurnKeeps
<1>11. CASE Persist BY <1>11, PersistKeeps
<1>12. CASE Crash BY <1>12, CrashKeeps
<1>13. CASE Prepare BY <1>13, PrepareKeeps
<1>14. CASE Resume BY <1>14, ResumeKeeps
<1>15. life = "prepared" => Len(closers) \in Nat
  BY ClosersType, LenProperties DEF IInv, Down
<1>16. CASE CommitRepair
  <2>1. life = "prepared" /\ Repaired(Len(closers)) /\ crashes' = crashes
    BY <1>16 DEF CommitRepair
  <2>2. Len(closers) \in 0..Len(closers)
    BY <1>15, <2>1
  <2> QED
    BY <1>0, <2>1, <2>2, RepairedKeeps
<1>17. CASE RepairFails
  <2>1. life = "prepared" /\ Repaired(0) /\ crashes' = crashes
    BY <1>17 DEF RepairFails
  <2>2. 0 \in 0..Len(closers)
    BY <1>15, <2>1
  <2> QED
    BY <1>0, <2>1, <2>2, RepairedKeeps
<1>18. CASE RepairCrashes
  <2>1. PICK k \in 1..(Len(closers) - 1) : Repaired(k)
    BY <1>18 DEF RepairCrashes
  <2>2. life = "prepared" /\ crashes' \in 0..MaxCrashes
    BY <1>0, <1>18 DEF RepairCrashes
  <2>3. k \in 0..Len(closers)
    BY <1>15, <2>2
  <2> QED
    BY <2>1, <2>2, <2>3, RepairedKeeps
<1>19. CASE UNCHANGED vars
  <2>1. /\ log' = log /\ durable' = durable /\ life' = life /\ closers' = closers
        /\ crashes' = crashes /\ turn' = turn /\ step' = step /\ stage' = stage
        /\ asked' = asked /\ started' = started /\ committed' = committed /\ mark' = mark
        /\ requested' = requested /\ invoked' = invoked
    BY <1>19 DEF vars, storage, phase, calls, history
  <2>2. TypeOK' /\ Good(log') /\ TurnsBounded' /\ NotDenied' /\ log' \in Seq(Event)
    BY <2>1 DEF IInv, TypeOK, TurnsBounded, NotDenied
  <2>3. Recorded'
    BY <2>1 DEF IInv, Recorded, RequestsRecorded, EffectsRecorded
  <2>4. life # "live" => Down'
    BY <2>1 DEF IInv, Down
  <2>5. life = "live" => DriverAgrees' /\ StepLogged'
    BY <2>1 DEF IInv, DriverAgrees, StepLogged, Call
  <2> QED
    BY <2>1, <2>2, <2>3, <2>4, <2>5 DEF IInv
<1> QED
  BY <1>1, <1>2, <1>3, <1>4, <1>5, <1>6, <1>7, <1>8, <1>9, <1>10, <1>11, <1>12, <1>13,
     <1>14, <1>16, <1>17, <1>18, <1>19 DEF Next

\* The inductive invariant holds in every reachable state.
THEOREM Inductive == Spec => []IInv
BY InitIInv, NextKeeps, PTL DEF Spec

\* TypeOK: every variable of the session and of its recovery keeps its type.
THEOREM TypeCorrect == Spec => []TypeOK
<1>1. IInv => TypeOK
  BY DEF IInv
<1> QED
  BY <1>1, Inductive, PTL

\* What a crash leaves is a good log, and every event of it is one of the log.
LEMMA Surviving ==
    ASSUME IInv
    PROVE  /\ Survivors \in Seq(Event) /\ Good(Survivors) /\ Len(Survivors) = durable
           /\ durable \in Nat /\ Len(log) \in Nat
           /\ \A i \in 1..durable : Survivors[i] = log[i] /\ i \in 1..Len(log)
<1>1. log \in Seq(Event) /\ Good(log) /\ durable \in 0..Len(log) /\ Len(log) \in Nat
  BY Standing DEF IInv, TypeOK
<1>2. Good(SubSeq(log, 1, durable))
  BY <1>1, GoodPrefix
<1>3. /\ SubSeq(log, 1, durable) \in Seq(Event) /\ Len(SubSeq(log, 1, durable)) = durable
      /\ \A i \in 1..durable : SubSeq(log, 1, durable)[i] = log[i]
  BY <1>1, Prefix
<1>4. durable \in Nat /\ \A i \in 1..durable : i \in 1..Len(log)
  BY <1>1
<1> QED
  BY <1>1, <1>2, <1>3, <1>4 DEF Survivors

\* The events of a repaired log.
LEMMA RecoveredEvents ==
    ASSUME IInv, NEW e \in ToSet(Recovered)
    PROVE  \/ \E i \in 1..durable : e = Survivors[i]
           \/ \E j \in 1..Len(Closers(Survivors)) : e = Closers(Survivors)[j]
<1> DEFINE sv == Survivors
           c == Closers(sv)
<1>1. sv \in Seq(Event) /\ Len(sv) = durable /\ durable \in Nat
  BY Surviving
<1>2. c \in Seq(Event) /\ Len(c) \in Nat
  BY <1>1, ClosersType, LenProperties
<1>3. Recovered = sv \o c
  BY DEF Recovered
<1> HIDE DEF c, sv
<1>4. Len(sv \o c) = durable + Len(c) /\ sv \o c \in Seq(Event)
  BY <1>1, <1>2, ConcatProperties
<1>5. \A i \in 1..durable + Len(c) : (sv \o c)[i] = IF i <= durable THEN sv[i] ELSE c[i - durable]
  BY <1>1, <1>2, ConcatProperties
<1>6. PICK i \in 1..durable + Len(c) : e = (sv \o c)[i]
  BY <1>3, <1>4 DEF ToSet
<1>7. CASE i <= durable
  BY <1>1, <1>5, <1>6, <1>7 DEF sv
<1>8. CASE ~(i <= durable)
  <2>1. i - durable \in 1..Len(c)
    BY <1>1, <1>2, <1>8
  <2>2. e = c[i - durable]
    BY <1>5, <1>6, <1>8
  <2> QED
    BY <2>1, <2>2 DEF c, sv
<1> QED
  BY <1>7, <1>8

\* No result of the repaired log denies a body that ran.
LEMMA NoEffectDenied ==
    ASSUME IInv
    PROVE  EffectsNotDenied
<1> SUFFICES ASSUME NEW e \in ToSet(Recovered), e.type = "tool/result", e.call \in invoked
             PROVE  e.code \in {"ran", "unknown"}
  BY DEF EffectsNotDenied
<1>0. /\ Survivors \in Seq(Event) /\ Good(Survivors) /\ Len(Survivors) = durable
      /\ \A i \in 1..durable : Survivors[i] = log[i] /\ i \in 1..Len(log)
  BY Surviving
<1>1. ASSUME NEW i \in 1..durable, e = Survivors[i] PROVE e.code \in {"ran", "unknown"}
  <2>1. e = log[i] /\ i \in 1..Len(log) /\ log \in Seq(Event)
    BY <1>0, <1>1 DEF IInv
  <2>2. e \in Event
    BY <2>1, ElementOfSeq
  <2>3. e \in Results
    BY <2>2 DEF Event, TurnEvents, StepEvents, Messages, Started
  <2>4. e.code \in Codes
    BY <2>3 DEF Results
  <2>5. e.code \notin {"refused", "notStarted"}
    BY <2>1 DEF IInv, NotDenied
  <2> QED
    BY <2>4, <2>5 DEF Codes
<1>2. ASSUME NEW j \in 1..Len(Closers(Survivors)), e = Closers(Survivors)[j]
      PROVE  e.code \in {"ran", "unknown"}
  <2>1. PICK n \in 1..durable : log[n] = ToolCall(e.call[1], e.call[2], e.call)
    BY DEF IInv, Recorded, EffectsRecorded
  <2>2. n \in 1..Len(Survivors) /\ Survivors[n].type = "tool/call" /\ Survivors[n].call = e.call
    BY <1>0, <2>1 DEF ToolCall
  <2>3. Closers(Survivors)[j].code = "unknown"
    BY <1>0, <1>2, <2>2, ClosersDoNotDeny
  <2> QED
    BY <1>2, <2>3
<1> QED
  BY <1>1, <1>2, RecoveredEvents

\* EffectsSurvive: a request that reached the model and a body that ran are in
\* the durable log, and no result of the repaired log denies a body that ran
\* (afterCheckpoint, interruptedTurnClosers).
THEOREM EffectsSurviveCrashes == Spec => []EffectsSurvive
<1>1. IInv => EffectsSurvive
  BY NoEffectDenied DEF IInv, EffectsSurvive
<1> QED
  BY <1>1, Inductive, PTL

\* A good log is legal.
LEMMA GoodIsLegal ==
    ASSUME NEW es \in Seq(Event), Good(es)
    PROVE  Legal(es)
<1>1. 0 \in 0..Len(es)
  BY LenProperties
<1>2. Observation(es) = [trace |-> TraceOf(es), legal |-> TRUE]
  BY <1>1, GoodPrefix DEF Fine
<1>3. Legal(es) = Observation(es).legal
  BY Zenon DEF Legal, Observation, Unseen
<1>4. Observation(es).legal = TRUE
  BY <1>2
<1> QED
  BY <1>3, <1>4, Zenon

\* TranscriptHolds: the log is legal event by event, and so is what a crash now
\* and its repair would leave, which answers every call of the interrupted step
\* once and in order (interruptedTurnClosers, commitPrepared).
THEOREM TranscriptValid == Spec => []TranscriptHolds
<1>1. IInv => TranscriptHolds
  <2> SUFFICES ASSUME IInv PROVE TranscriptHolds
    OBVIOUS
  <2>1. Legal(log)
    BY GoodIsLegal DEF IInv
  <2>2. Survivors \in Seq(Event) /\ Good(Survivors)
    BY Surviving
  <2>3. /\ Recovered \in Seq(Event) /\ Good(Recovered)
        /\ TraceOf(Survivors).openStep # 0 =>
             LastStep(Recovered).answered = LastStep(Recovered).asked
    BY <2>2, RepairedLog DEF Recovered
  <2>4. Legal(Recovered)
    BY <2>3, GoodIsLegal
  <2> QED
    BY <2>1, <2>3, <2>4 DEF TranscriptHolds, LogLegal, InterruptedAnswered, Null
<1> QED
  BY <1>1, Inductive, PTL

\* A source that was prepared recovers to its log and the closers it holds.
LEMMA PreparedRecovers ==
    ASSUME IInv, life = "prepared"
    PROVE  /\ Survivors = log /\ closers = Closers(log) /\ Recovered = log \o closers
           /\ Len(closers) \in Nat /\ log \in Seq(Event) /\ Good(log) /\ closers \in Seq(Event)
<1>1. /\ log \in Seq(Event) /\ Good(log) /\ durable = Len(log) /\ closers = Closers(log)
  BY DEF IInv, TypeOK, Down
<1>2. Len(log) \in Nat /\ Len(log) \in 0..Len(log)
  BY <1>1, LenProperties
<1>3. SubSeq(log, 1, Len(log)) = log
  BY <1>1, <1>2, Prefix
<1>4. closers \in Seq(Event) /\ Len(closers) \in Nat
  BY <1>1, ClosersType, LenProperties
<1> QED
  BY <1>1, <1>3, <1>4 DEF Survivors, Recovered

\* A repair that was cut short leaves a log with the same recovery.
LEMMA RepairedRecovers ==
    ASSUME IInv, life = "prepared", NEW k \in 0..Len(closers), Repaired(k),
           crashes' \in 0..MaxCrashes
    PROVE  Recovered' = Recovered
<1> DEFINE p == SubSeq(closers, 1, k)
           r == SubSeq(closers, k + 1, Len(closers))
<1>0. /\ Survivors = log /\ closers = Closers(log) /\ Recovered = log \o closers
      /\ Len(closers) \in Nat /\ log \in Seq(Event) /\ Good(log) /\ closers \in Seq(Event)
  BY PreparedRecovers
<1>1. log' = log \o p /\ durable' = Len(log') /\ log' = Partly(log, k)
  BY <1>0 DEF Repaired, Partly
<1>2. /\ log' \in Seq(Event) /\ Closers(log') = r
  BY <1>0, <1>1, Repairing DEF Converges, Rest
<1>3. Recovered' = log' \o r
  <2>1. Len(log') \in 0..Len(log')
    BY <1>2, LenProperties
  <2>2. SubSeq(log', 1, Len(log')) = log'
    BY <1>2, <2>1, Prefix
  <2>3. Survivors' = log'
    BY <1>1, <2>2 DEF Survivors
  <2>4. Recovered' = Survivors' \o Closers(Survivors')
    BY DEF Recovered
  <2> QED
    BY <1>2, <2>3, <2>4
<1>4. p \in Seq(Event) /\ r \in Seq(Event)
  BY <1>0, Prefix, RestOf
<1>5. p \o r = closers
  <2>1. 1 \in 1..Len(closers) + 1 /\ k \in 1-1..Len(closers) /\ Len(closers) \in k..Len(closers)
    BY <1>0
  <2>2. p \o r = SubSeq(closers, 1, Len(closers))
    BY <1>0, <2>1, ConcatAdjacentSubSeq
  <2>3. SubSeq(closers, 1, Len(closers)) = closers
    BY <1>0, Prefix
  <2> QED
    BY <2>2, <2>3
<1> HIDE DEF p, r
<1>6. (log \o p) \o r = log \o (p \o r)
  BY <1>0, <1>4, EventsRegroup
<1> QED
  BY <1>0, <1>1, <1>3, <1>5, <1>6

\* A repair reaches the same log however often it is cut short (prepareCore,
\* commitRepair).
THEOREM RepairsConverge == Spec => RepairConverges
<1>1. ASSUME IInv, [Next]_vars, life = "prepared" PROVE Recovered' = Recovered
  <2>0. /\ Len(closers) \in Nat /\ crashes \in 0..MaxCrashes /\ MaxCrashes \in Nat
    BY <1>1, PreparedRecovers, Bounds DEF IInv, TypeOK
  <2>1. CASE UNCHANGED <<log, durable>>
    BY <2>1 DEF Recovered, Survivors
  <2>2. CASE CommitRepair
    <3>1. Repaired(Len(closers)) /\ crashes' = crashes
      BY <2>2 DEF CommitRepair
    <3>2. Len(closers) \in 0..Len(closers)
      BY <2>0
    <3> QED
      BY <1>1, <2>0, <3>1, <3>2, RepairedRecovers
  <2>3. CASE RepairFails
    <3>1. Repaired(0) /\ crashes' = crashes
      BY <2>3 DEF RepairFails
    <3>2. 0 \in 0..Len(closers)
      BY <2>0
    <3> QED
      BY <1>1, <2>0, <3>1, <3>2, RepairedRecovers
  <2>4. CASE RepairCrashes
    <3>1. PICK k \in 1..(Len(closers) - 1) : Repaired(k)
      BY <2>4 DEF RepairCrashes
    <3>2. crashes' \in 0..MaxCrashes
      BY <2>0, <2>4 DEF RepairCrashes
    <3>3. k \in 0..Len(closers)
      BY <2>0
    <3> QED
      BY <1>1, <3>1, <3>2, <3>3, RepairedRecovers
  <2>5. life # "live" /\ life # "down"
    BY <1>1
  <2>6. CASE Resume
    BY <2>1, <2>6 DEF Resume
  <2>7. CASE UNCHANGED vars
    BY <2>1, <2>7 DEF vars, storage
  <2> QED
    BY <1>1, <2>2, <2>3, <2>4, <2>5, <2>6, <2>7
    DEF Next, StartTurn, StartStep, Request, Respond, StartCall, AskCheckpoint, BodyRuns,
        CommitResult, EndStep, EndTurn, Persist, Crash, Prepare
<1>2. IInv /\ [Next]_vars => [life = "prepared" => Recovered' = Recovered]_vars
  BY <1>1
<1> QED
  BY <1>2, Inductive, PTL DEF Spec, RepairConverges

\* Every flush call was made when no more than the present log was logged.
TargetsLogged == \A c \in Callers : target[c] <= logged

\* The inductive invariant of the write path.
WriteInv == WriteTypeOK /\ StageInv /\ Conservation /\ TargetsLogged /\ FlushIsDurable

(***************************************************************************)
(* The write path: the log as a sequence of events.                         *)
(***************************************************************************)

\* The log of n events is a sequence of length n.
LEMMA EventsSeq ==
    ASSUME NEW n \in Nat
    PROVE  Events(n) \in Seq(Nat) /\ Len(Events(n)) = n
<1>1. Events(n) \in [1..n -> Nat] BY DEF Events
<1>2. Events(n) \in Seq(Nat) BY <1>1, SeqDef
<1>3. DOMAIN Events(n) = 1..n BY <1>1
<1>4. Len(Events(n)) = n BY <1>2, <1>3, LenProperties
<1> QED BY <1>2, <1>4

\* Appending an event to the session extends the log by its number.
LEMMA EventsAppend ==
    ASSUME NEW n \in Nat
    PROVE  Events(n + 1) = Append(Events(n), n + 1)
<1> DEFINE s == Append(Events(n), n + 1)
<1>1. /\ Events(n) \in Seq(Nat) /\ Len(Events(n)) = n
      /\ Events(n + 1) \in Seq(Nat) /\ Len(Events(n + 1)) = n + 1
  BY EventsSeq
<1>2. /\ s \in Seq(Nat) /\ Len(s) = n + 1
      /\ \A i \in 1..n : s[i] = Events(n)[i]
      /\ s[n + 1] = n + 1
  BY <1>1, AppendProperties
<1>3. ASSUME NEW i \in 1..(n + 1) PROVE Events(n + 1)[i] = s[i]
  BY <1>2 DEF Events
<1> HIDE DEF s
<1>4. Events(n + 1) = s
  BY <1>1, <1>2, <1>3, SeqEqual
<1> QED BY <1>4 DEF s

\* Appending commutes with the three-way split of the log.
LEMMA SplitAppend ==
    ASSUME NEW s \in Seq(Nat), NEW b \in Seq(Nat), NEW p \in Seq(Nat), NEW e \in Nat
    PROVE  s \o b \o Append(p, e) = Append(s \o b \o p, e)
<1>1. s \o b \in Seq(Nat) /\ s \o b \o p \in Seq(Nat) /\ <<e>> \in Seq(Nat)
  BY ConcatProperties
<1>2. Append(p, e) = p \o <<e>> BY AppendIsConcat
<1>3. Append(s \o b \o p, e) = (s \o b \o p) \o <<e>> BY <1>1, AppendIsConcat
<1>4. (s \o b) \o (p \o <<e>>) = ((s \o b) \o p) \o <<e>>
  BY <1>1, ConcatAssociative
<1> QED BY <1>2, <1>3, <1>4

\* A batch in flight may be stored, or put back in front of the queue.
LEMMA SplitMoves ==
    ASSUME NEW s \in Seq(Nat), NEW b \in Seq(Nat), NEW p \in Seq(Nat)
    PROVE  /\ s \o b \o p = (s \o b) \o <<>> \o p
           /\ s \o b \o p = s \o <<>> \o (b \o p)
           /\ s \o <<>> \o p = s \o p \o <<>>
           /\ s \o b \in Seq(Nat) /\ b \o p \in Seq(Nat)
           /\ Len(s) <= Len(s \o b)
<1>1. s \o b \in Seq(Nat) /\ b \o p \in Seq(Nat) /\ s \o p \in Seq(Nat)
  BY ConcatProperties
<1>2. Len(s \o b) = Len(s) + Len(b) /\ Len(s) \in Nat /\ Len(b) \in Nat
  BY ConcatProperties, LenProperties
<1>3. (s \o b) \o <<>> = s \o b /\ s \o <<>> = s /\ (s \o p) \o <<>> = s \o p
  BY <1>1, ConcatEmptySeq
<1>4. (s \o b) \o p = s \o (b \o p) OBVIOUS
<1>5. s \o b \o p = (s \o b) \o <<>> \o p BY <1>3
<1>6. s \o b \o p = s \o <<>> \o (b \o p) BY <1>3, <1>4
<1>7. s \o <<>> \o p = s \o p \o <<>> BY <1>3
<1>8. Len(s) <= Len(s \o b) BY <1>2
<1> QED BY <1>1, <1>5, <1>6, <1>7, <1>8

(***************************************************************************)
(* The inductive invariant of the write path, one part at a time.           *)
(***************************************************************************)

\* Types are kept by every step.
LEMMA TypeStep ==
    ASSUME WriteTypeOK, [WriteNext]_writeVars
    PROVE  WriteTypeOK'
<1> USE MaxEventsAssumption DEF WriteTypeOK
<1>1. CASE Enqueue
  <2>1. logged + 1 \in Nat /\ logged' \in 0..MaxEvents BY <1>1 DEF Enqueue
  <2>2. pending' \in Seq(Nat) BY <1>1, <2>1, AppendProperties DEF Enqueue
  <2> QED BY <1>1, <2>1, <2>2 DEF Enqueue, flushCalls
<1>2. CASE OnDeadline
  BY <1>2, EmptySeq DEF OnDeadline, StartWrite, Stages, flushCalls
<1>3. CASE WriteCommits
  BY <1>3, ConcatProperties, EmptySeq DEF WriteCommits, Stages, flushCalls
<1>4. CASE WriteFails
  BY <1>4, ConcatProperties, EmptySeq
  DEF WriteFails, Retained, CancelAutomaticWait, Stages, flushCalls
<1>5. CASE WriteSettles
  BY <1>5 DEF WriteSettles, Stages, BarrierStages, flushCalls
<1>6. CASE ContinueAutomatic
  BY <1>6, EmptySeq DEF ContinueAutomatic, StartWrite, Stages, flushCalls
<1>7. ASSUME NEW c \in Callers, FlushCall(c) PROVE WriteTypeOK'
  BY <1>7 DEF FlushCall, CancelAutomaticWait, CallStages
<1>8. ASSUME NEW c \in Callers, FlushGivesUp(c) PROVE WriteTypeOK'
  BY <1>8 DEF FlushGivesUp, CancelAutomaticWait, CallStages
<1>9. ASSUME NEW c \in Callers, FlushJoins(c) PROVE WriteTypeOK'
  BY <1>9 DEF FlushJoins, controller, CallStages
<1>10. ASSUME NEW c \in Callers, FlushRaises(c) PROVE WriteTypeOK'
  BY <1>10, EmptySeq DEF FlushRaises, StartWrite, Stages, BarrierStages, CallStages
<1>11. CASE DrainAfterOverlap
  BY <1>11, EmptySeq
  DEF DrainAfterOverlap, DrainLoop, StartWrite, SettleBarrier, Stages, BarrierStages, CallStages
<1>12. CASE DrainAfterWrite
  BY <1>12, EmptySeq
  DEF DrainAfterWrite, DrainLoop, StartWrite, SettleBarrier, Stages, BarrierStages, CallStages
<1>13. CASE DrainFails
  BY <1>13 DEF DrainFails, SettleBarrier, BarrierStages, CallStages
<1>14. CASE InitSettles
  BY <1>14 DEF InitSettles, controller, flushCalls
<1>15. CASE UNCHANGED writeVars
  BY <1>15 DEF writeVars, controller, flushCalls
<1> QED
  BY <1>1, <1>2, <1>3, <1>4, <1>5, <1>6, <1>7, <1>8, <1>9, <1>10, <1>11, <1>12,
     <1>13, <1>14, <1>15 DEF WriteNext

\* The stages of the write and of the barrier keep their relation.
LEMMA StageStep ==
    ASSUME WriteTypeOK, StageInv, [WriteNext]_writeVars
    PROVE  StageInv'
<1> USE DEF WriteTypeOK, StageInv, Active, Stages, BarrierStages
<1>1. CASE Enqueue
  BY <1>1 DEF Enqueue
<1>2. CASE OnDeadline
  BY <1>2 DEF OnDeadline, StartWrite, Microtasks
<1>3. CASE WriteCommits
  BY <1>3 DEF WriteCommits
<1>4. CASE WriteFails
  BY <1>4 DEF WriteFails, CancelAutomaticWait
<1>5. CASE WriteSettles
  BY <1>5 DEF WriteSettles
<1>6. CASE ContinueAutomatic
  BY <1>6 DEF ContinueAutomatic, StartWrite
<1>7. ASSUME NEW c \in Callers, FlushCall(c) PROVE StageInv'
  BY <1>7 DEF FlushCall, CancelAutomaticWait
<1>8. ASSUME NEW c \in Callers, FlushGivesUp(c) PROVE StageInv'
  BY <1>8 DEF FlushGivesUp, CancelAutomaticWait
<1>9. ASSUME NEW c \in Callers, FlushJoins(c) PROVE StageInv'
  BY <1>9 DEF FlushJoins, controller
<1>10. ASSUME NEW c \in Callers, FlushRaises(c) PROVE StageInv'
  BY <1>10 DEF FlushRaises, StartWrite
<1>11. CASE DrainAfterOverlap
  BY <1>11 DEF DrainAfterOverlap, DrainLoop, StartWrite, SettleBarrier
<1>12. CASE DrainAfterWrite
  BY <1>12 DEF DrainAfterWrite, DrainLoop, StartWrite, SettleBarrier
<1>13. CASE DrainFails
  BY <1>13 DEF DrainFails, SettleBarrier
<1>14. CASE InitSettles
  BY <1>14 DEF InitSettles, controller
<1>15. CASE UNCHANGED writeVars
  BY <1>15 DEF writeVars, controller
<1> QED
  BY <1>1, <1>2, <1>3, <1>4, <1>5, <1>6, <1>7, <1>8, <1>9, <1>10, <1>11, <1>12,
     <1>13, <1>14, <1>15 DEF WriteNext

\* No step loses, duplicates or reorders an event.
LEMMA ConservationStep ==
    ASSUME WriteTypeOK, StageInv, Conservation, [WriteNext]_writeVars
    PROVE  Conservation'
<1> DEFINE Same == UNCHANGED <<logged, stored, batch, pending>>
           \* A write starts: its batch is the queue.
           Taken == /\ UNCHANGED <<logged, stored>>
                    /\ ~Active /\ batch' = pending /\ pending' = <<>>
<1>1. CASE Same BY <1>1 DEF Conservation
<1>2. CASE Taken
  <2>1. batch = <<>> BY <1>2 DEF StageInv, Active
  <2>2. stored \o <<>> \o pending = stored \o pending \o <<>>
    BY SplitMoves DEF WriteTypeOK
  <2> QED BY <1>2, <2>1, <2>2 DEF Conservation
<1>3. CASE Enqueue
  <2>1. logged \in Nat BY MaxEventsAssumption DEF WriteTypeOK
  <2>2. logged' = logged + 1 /\ pending' = Append(pending, logged + 1)
        /\ UNCHANGED <<stored, batch>>
    BY <1>3 DEF Enqueue
  <2>3. stored \o batch \o Append(pending, logged + 1)
          = Append(stored \o batch \o pending, logged + 1)
    <3>1. /\ stored \in Seq(Nat) /\ batch \in Seq(Nat) /\ pending \in Seq(Nat)
          /\ logged + 1 \in Nat
      BY <2>1 DEF WriteTypeOK
    <3> QED BY <3>1, SplitAppend
  <2>4. Events(logged + 1) = Append(Events(logged), logged + 1)
    BY <2>1, EventsAppend
  <2> QED BY <2>2, <2>3, <2>4 DEF Conservation
<1>4. CASE WriteCommits
  <2>1. stored \o batch \o pending = (stored \o batch) \o <<>> \o pending
    BY SplitMoves DEF WriteTypeOK
  <2> QED BY <1>4, <2>1 DEF WriteCommits, Conservation
<1>5. CASE WriteFails
  <2>0. stored \in Seq(Nat) /\ batch \in Seq(Nat) /\ pending \in Seq(Nat)
    BY DEF WriteTypeOK
  <2>1. stored \o <<>> = stored BY <2>0, ConcatEmptySeq
  <2>2. (stored \o batch) \o pending = stored \o (batch \o pending)
    BY <2>0
  <2> QED BY <1>5, <2>1, <2>2 DEF WriteFails, Retained, Conservation
<1>6. OnDeadline => Same \/ Taken
  BY DEF OnDeadline, StartWrite
<1>7. WriteSettles => Same BY DEF WriteSettles
<1>8. ContinueAutomatic => Same \/ Taken
  BY DEF ContinueAutomatic, StartWrite, StageInv
<1>9. ASSUME NEW c \in Callers
      PROVE  FlushCall(c) \/ FlushGivesUp(c) \/ FlushJoins(c) \/ FlushRaises(c)
               => Same \/ Taken
  BY DEF FlushCall, FlushGivesUp, FlushJoins, FlushRaises, StartWrite, controller
<1>10. DrainAfterOverlap \/ DrainAfterWrite => Same \/ Taken
  BY DEF DrainAfterOverlap, DrainAfterWrite, DrainLoop, StartWrite, StageInv
<1>11. DrainFails \/ InitSettles \/ UNCHANGED writeVars => Same
  BY DEF DrainFails, InitSettles, controller, writeVars
<1> HIDE DEF Same, Taken
<1> QED
  BY <1>1, <1>2, <1>3, <1>4, <1>5, <1>6, <1>7, <1>8, <1>9, <1>10, <1>11 DEF WriteNext

\* The log never shrinks, and a call is made against the log of that moment.
LEMMA TargetsStep ==
    ASSUME WriteTypeOK, TargetsLogged, [WriteNext]_writeVars
    PROVE  TargetsLogged'
<1> USE MaxEventsAssumption DEF WriteTypeOK, TargetsLogged
<1>1. CASE Enqueue BY <1>1 DEF Enqueue, flushCalls
<1>2. ASSUME NEW c \in Callers, FlushCall(c) PROVE TargetsLogged'
  BY <1>2 DEF FlushCall
<1>3. CASE UNCHANGED <<logged, target>> BY <1>3
<1>4. ASSUME NEW c \in Callers
      PROVE  FlushGivesUp(c) \/ FlushJoins(c) \/ FlushRaises(c) => UNCHANGED <<logged, target>>
  BY DEF FlushGivesUp, FlushJoins, FlushRaises
<1>5. \/ OnDeadline \/ WriteCommits \/ WriteFails \/ WriteSettles \/ ContinueAutomatic
      \/ DrainAfterOverlap \/ DrainAfterWrite \/ DrainFails \/ InitSettles
      \/ UNCHANGED writeVars
      => UNCHANGED <<logged, target>>
  BY DEF OnDeadline, WriteCommits, WriteFails, WriteSettles, ContinueAutomatic,
         DrainAfterOverlap, DrainAfterWrite, DrainFails, InitSettles, writeVars, flushCalls
<1> QED BY <1>1, <1>2, <1>3, <1>4, <1>5 DEF WriteNext

\* When nothing is queued or in flight, the whole log is durable.
LEMMA DrainedIsDurable ==
    ASSUME WriteTypeOK, StageInv, Conservation, TargetsLogged, ~Active, pending = <<>>
    PROVE  Len(stored) = logged /\ \A c \in Callers : target[c] <= Len(stored)
<1>1. batch = <<>> BY DEF StageInv, Active
<1>2. stored = Events(logged)
  BY <1>1, ConcatEmptySeq DEF Conservation, WriteTypeOK
<1>3. logged \in Nat BY MaxEventsAssumption DEF WriteTypeOK
<1>4. Len(stored) = logged BY <1>2, <1>3, EventsSeq
<1> QED BY <1>4 DEF TargetsLogged

\* A flush resolves only with its events durable.
LEMMA FlushStep ==
    ASSUME WriteInv, [WriteNext]_writeVars
    PROVE  FlushIsDurable'
<1> USE MaxEventsAssumption DEF WriteTypeOK, FlushIsDurable
<1> DEFINE NoneResolves ==
      /\ UNCHANGED <<stored, target>>
      /\ \A c \in Callers : caller'[c] = "resolved" => caller[c] = "resolved"
<1>0. WriteTypeOK /\ FlushIsDurable BY DEF WriteInv
<1>1. CASE NoneResolves BY <1>0, <1>1
<1>2. CASE UNCHANGED <<stored, target>> /\ ~Active /\ pending = <<>>
  BY <1>2, DrainedIsDurable DEF WriteInv
<1>3. CASE WriteCommits
  <2>1. Len(stored) <= Len(stored') /\ Len(stored) \in Nat /\ Len(stored') \in Nat
    BY <1>0, <1>3, SplitMoves, LenProperties DEF WriteCommits
  <2>2. caller' = caller /\ target' = target BY <1>3 DEF WriteCommits, flushCalls
  <2>3. ASSUME NEW c \in Callers, caller[c] = "resolved" PROVE target[c] <= Len(stored')
    <3>1. target[c] <= Len(stored) /\ target[c] \in Nat BY <1>0, <2>3
    <3> QED BY <2>1, <3>1
  <2> QED BY <2>2, <2>3
<1>4. ASSUME NEW c \in Callers, FlushCall(c) PROVE FlushIsDurable'
  BY <1>0, <1>4 DEF FlushCall
<1>5. ASSUME NEW c \in Callers
      PROVE  FlushGivesUp(c) \/ FlushJoins(c) => NoneResolves
  BY <1>0 DEF FlushGivesUp, FlushJoins
<1>6. ASSUME NEW c \in Callers, FlushRaises(c) PROVE FlushIsDurable'
  <2>1. CASE Active \/ pending # <<>>
    <3>1. NoneResolves BY <1>0, <1>6, <2>1 DEF FlushRaises
    <3> QED BY <3>1, <1>1
  <2>2. CASE ~Active /\ pending = <<>> BY <1>2, <1>6, <2>2 DEF FlushRaises
  <2> QED BY <2>1, <2>2
<1>7. CASE DrainAfterOverlap \/ DrainAfterWrite
  <2>1. ~Active BY <1>7 DEF DrainAfterOverlap, DrainAfterWrite, WriteInv, StageInv
  <2>2. UNCHANGED <<stored, target>> BY <1>7 DEF DrainAfterOverlap, DrainAfterWrite
  <2>3. pending # <<>> => NoneResolves
    BY <1>7, <2>2 DEF DrainAfterOverlap, DrainAfterWrite, DrainLoop
  <2> QED BY <2>1, <2>2, <2>3, <1>1, <1>2
<1>8. DrainFails => NoneResolves BY <1>0 DEF DrainFails, SettleBarrier
<1>9. \/ Enqueue \/ OnDeadline \/ WriteFails \/ WriteSettles \/ ContinueAutomatic
      \/ InitSettles \/ UNCHANGED writeVars
      => NoneResolves
  BY DEF Enqueue, OnDeadline, WriteFails, WriteSettles, ContinueAutomatic,
         InitSettles, writeVars, flushCalls
<1> HIDE DEF NoneResolves, FlushIsDurable
<1> QED
  BY <1>1, <1>3, <1>4, <1>5, <1>6, <1>7, <1>8, <1>9 DEF WriteNext

\* Every step leaves queued events with something that will take them.
LEMMA StrandedStep ==
    ASSUME WriteTypeOK, StageInv, NoStrandedEvents, [WriteNext]_writeVars
    PROVE  NoStrandedEvents'
<1> USE DEF NoStrandedEvents, StageInv, Active
<1>1. CASE Enqueue
  <2>1. caller' = caller /\ init' = init BY <1>1 DEF Enqueue, flushCalls
  <2> QED BY <1>1, <2>1 DEF Enqueue
<1>2. CASE OnDeadline BY <1>2 DEF OnDeadline, StartWrite, flushCalls
<1>3. CASE WriteCommits BY <1>3 DEF WriteCommits, flushCalls
<1>4. CASE WriteFails BY <1>4 DEF WriteFails, CancelAutomaticWait
<1>5. CASE WriteSettles BY <1>5 DEF WriteSettles, flushCalls, WriteTypeOK, BarrierStages, Stages
<1>6. CASE ContinueAutomatic BY <1>6 DEF ContinueAutomatic, StartWrite, flushCalls
<1>7. ASSUME NEW c \in Callers, FlushCall(c) PROVE NoStrandedEvents'
  BY <1>7 DEF FlushCall, WriteTypeOK
<1>8. ASSUME NEW c \in Callers, FlushGivesUp(c) PROVE NoStrandedEvents'
  BY <1>8 DEF FlushGivesUp
<1>9. ASSUME NEW c \in Callers, FlushJoins(c) PROVE NoStrandedEvents'
  BY <1>9 DEF FlushJoins, controller
<1>10. ASSUME NEW c \in Callers, FlushRaises(c) PROVE NoStrandedEvents'
  BY <1>10 DEF FlushRaises, StartWrite
<1>11. CASE DrainAfterOverlap \/ DrainAfterWrite
  BY <1>11 DEF DrainAfterOverlap, DrainAfterWrite, DrainLoop, StartWrite
<1>12. CASE DrainFails BY <1>12 DEF DrainFails
<1>13. CASE InitSettles BY <1>13 DEF InitSettles, controller, flushCalls
<1>14. CASE UNCHANGED writeVars BY <1>14 DEF writeVars, controller, flushCalls
<1> QED
  BY <1>1, <1>2, <1>3, <1>4, <1>5, <1>6, <1>7, <1>8, <1>9, <1>10, <1>11, <1>12,
     <1>13, <1>14 DEF WriteNext

(***************************************************************************)
(* The theorems about the write path.                                       *)
(***************************************************************************)

\* The inductive invariant holds at the start.
LEMMA WriteInitInv == WriteInit => WriteInv /\ NoStrandedEvents
<1> SUFFICES ASSUME WriteInit PROVE WriteInv /\ NoStrandedEvents OBVIOUS
<1>1. WriteTypeOK
  <2>1. <<>> \in Seq(Nat) /\ 0 \in 0..MaxEvents BY MaxEventsAssumption, EmptySeq
  <2>2. /\ caller \in [Callers -> CallStages] /\ target \in [Callers -> 0..MaxEvents]
    BY <2>1 DEF WriteInit, CallStages
  <2> QED BY <2>1, <2>2 DEF WriteInit, WriteTypeOK, Stages, BarrierStages
<1>2. Conservation
  <2>1. Events(0) \in Seq(Nat) /\ Len(Events(0)) = 0 BY EventsSeq
  <2>2. Events(0) = <<>> BY <2>1, EmptySeq
  <2>3. <<>> \o <<>> \o <<>> = <<>> BY EmptySeq, ConcatEmptySeq
  <2> QED BY <2>2, <2>3 DEF WriteInit, Conservation
<1> QED
  BY <1>1, <1>2
  DEF WriteInit, WriteInv, StageInv, Active, TargetsLogged, FlushIsDurable, NoStrandedEvents

\* Every variable of the write controller keeps its type.
THEOREM WriteTypes == WriteSpec => []WriteTypeOK
<1>1. WriteInit => WriteTypeOK BY WriteInitInv DEF WriteInv
<1>2. WriteTypeOK /\ [WriteNext]_writeVars => WriteTypeOK' BY TypeStep
<1> QED BY <1>1, <1>2, PTL DEF WriteSpec

\* The inductive invariant holds always.
LEMMA WriteInvariance == WriteSpec => []WriteInv
<1>1. WriteInit => WriteInv BY WriteInitInv
<1>2. WriteInv /\ [WriteNext]_writeVars => WriteInv'
  BY TypeStep, StageStep, ConservationStep, TargetsStep, FlushStep DEF WriteInv
<1> QED BY <1>1, <1>2, PTL DEF WriteSpec

\* Types and stages: the active write, the barrier and the automatic path agree, and a
\* paused path holds no deadline (startWrite, enqueue, continueAutomatic, drainBarrier).
THEOREM StagesAgree == WriteSpec => []WriteStateOK
<1>1. WriteInv => WriteStateOK BY DEF WriteInv, WriteStateOK
<1> QED BY <1>1, WriteInvariance, PTL

\* Conservation: whichever writes fail and are retried, the durable log, the
\* batch in flight and the queue are the session's log, in order.
THEOREM NothingLost == WriteSpec => []Conservation
<1>1. WriteInv => Conservation BY DEF WriteInv
<1> QED BY <1>1, WriteInvariance, PTL

\* FlushIsDurable: a resolved flush made durable what was logged before it.
THEOREM FlushDurable == WriteSpec => []FlushIsDurable
<1>1. WriteInv => FlushIsDurable BY DEF WriteInv
<1> QED BY <1>1, WriteInvariance, PTL

\* NoStrandedEvents: unless a failure paused the automatic path, something is
\* always under way that will take the queued events.
THEOREM NothingStranded == WriteSpec => []NoStrandedEvents
<1>1. WriteInit => NoStrandedEvents BY WriteInitInv
<1>2. WriteInv /\ NoStrandedEvents /\ [WriteNext]_writeVars => NoStrandedEvents'
  BY StrandedStep DEF WriteInv
<1> QED BY <1>1, <1>2, WriteInvariance, PTL DEF WriteSpec

\* OneWriteAtATime: no write starts while one is active.
THEOREM WritesDoNotOverlap == WriteSpec => OneWriteAtATime
<1>1. WriteInv /\ [WriteNext]_writeVars =>
        [WriteStarts => op = "none"]_writeVars
  <2> SUFFICES ASSUME WriteInv, WriteNext, WriteStarts, op # "none" PROVE FALSE
    BY DEF writeVars
  <2> USE DEF WriteInv, WriteTypeOK, StageInv, Active, WriteStarts, Stages, BarrierStages
  <2>1. \/ Enqueue \/ WriteCommits \/ WriteFails \/ WriteSettles \/ DrainFails \/ InitSettles
        => FALSE
    BY DEF Enqueue, WriteCommits, WriteFails, WriteSettles, DrainFails, InitSettles,
           controller
  <2>2. OnDeadline => FALSE BY DEF OnDeadline
  <2>3. ContinueAutomatic => FALSE BY DEF ContinueAutomatic
  <2>4. DrainAfterOverlap \/ DrainAfterWrite => FALSE
    BY DEF DrainAfterOverlap, DrainAfterWrite
  <2>5. ASSUME NEW c \in Callers
        PROVE  FlushCall(c) \/ FlushGivesUp(c) \/ FlushJoins(c) \/ FlushRaises(c) => FALSE
    BY DEF FlushCall, FlushGivesUp, FlushJoins, FlushRaises, controller
  <2> QED BY <2>1, <2>2, <2>3, <2>4, <2>5 DEF WriteNext
<1> QED BY <1>1, WriteInvariance, PTL DEF WriteSpec, OneWriteAtATime

\* PausedUntilAsked: the automatic path does not retry a failed write.
THEOREM FailuresNotRetried == WriteSpec => PausedUntilAsked
<1>1. WriteInv /\ [WriteNext]_writeVars =>
        [automaticPaused /\ WriteStarts => barrier' # "none"]_writeVars
  <2> SUFFICES ASSUME WriteInv, WriteNext, automaticPaused, WriteStarts PROVE barrier' # "none"
    BY DEF writeVars
  <2> USE DEF WriteInv, WriteTypeOK, StageInv, Active, WriteStarts, Stages, BarrierStages
  <2>1. \/ Enqueue \/ WriteCommits \/ WriteFails \/ WriteSettles \/ DrainFails \/ InitSettles
        => FALSE
    BY DEF Enqueue, WriteCommits, WriteFails, WriteSettles, DrainFails, InitSettles,
           controller
  <2>2. OnDeadline \/ ContinueAutomatic => FALSE BY DEF OnDeadline, ContinueAutomatic
  <2>3. DrainAfterOverlap \/ DrainAfterWrite => barrier' # "none"
    BY DEF DrainAfterOverlap, DrainAfterWrite, DrainLoop
  <2>4. ASSUME NEW c \in Callers
        PROVE  FlushCall(c) \/ FlushGivesUp(c) \/ FlushJoins(c) \/ FlushRaises(c)
                 => barrier' # "none"
    BY DEF FlushCall, FlushGivesUp, FlushJoins, FlushRaises, controller
  <2> QED BY <2>1, <2>2, <2>3, <2>4 DEF WriteNext
<1> QED BY <1>1, WriteInvariance, PTL DEF WriteSpec, PausedUntilAsked

\* AutomaticPathHolds: it takes what is queued unless a failure paused it, and
\* then waits to be asked.
THEOREM AutomaticPath == WriteSpec => AutomaticPathHolds
  BY NothingStranded, FailuresNotRetried DEF AutomaticPathHolds

(***************************************************************************)
(* The write path implements DurableLog.                                    *)
(***************************************************************************)

\* A batch that commits extends the durable prefix, within the log.
LEMMA CommitPersists ==
    ASSUME WriteInv, WriteCommits
    PROVE  Promise!Persist \/ UNCHANGED Promise!vars
<1>1. /\ stored \in Seq(Nat) /\ batch \in Seq(Nat) /\ pending \in Seq(Nat)
      /\ logged \in Nat
  BY MaxEventsAssumption DEF WriteInv, WriteTypeOK
<1>2. /\ Len(stored) \in Nat /\ Len(batch) \in Nat /\ Len(pending) \in Nat
      /\ Len(stored \o batch) = Len(stored) + Len(batch)
      /\ Len(stored \o batch \o pending) = Len(stored) + Len(batch) + Len(pending)
  BY <1>1, ConcatProperties, LenProperties
<1>3. Len(stored \o batch \o pending) = logged
  BY <1>1, EventsSeq DEF WriteInv, Conservation
<1>4. Len(stored') \in Len(stored)..logged /\ Len(stored') \in Nat
  BY <1>1, <1>2, <1>3 DEF WriteCommits
<1>5. UNCHANGED <<logged, FlushStatus, target>> BY DEF WriteCommits, flushCalls, FlushStatus
<1>6. CASE Len(stored') = Len(stored) BY <1>5, <1>6 DEF Promise!vars
<1>7. CASE Len(stored') # Len(stored)
  <2>1. Len(stored') \in (Len(stored) + 1)..logged BY <1>1, <1>2, <1>4, <1>7
  <2> QED BY <2>1, <1>5 DEF Promise!Persist
<1> QED BY <1>6, <1>7

\* Every step of the write path is a step of its promise, or changes nothing
\* the promise speaks of.
LEMMA StepSimulation ==
    ASSUME WriteInv, [WriteNext]_writeVars
    PROVE  [Promise!Next]_(Promise!vars)
<1> USE DEF Promise!Next, Promise!vars
<1>0. /\ caller \in [Callers -> CallStages] /\ target \in [Callers -> 0..MaxEvents]
      /\ logged \in Nat
  BY MaxEventsAssumption DEF WriteInv, WriteTypeOK
<1>1. CASE Enqueue
  <2>1. UNCHANGED <<stored, FlushStatus, target>> BY <1>1 DEF Enqueue, flushCalls, FlushStatus
  <2> QED BY <1>1, <2>1 DEF Enqueue, Promise!Log
<1>2. CASE WriteCommits BY <1>2, CommitPersists
<1>3. ASSUME NEW c \in Callers, FlushCall(c) PROVE Promise!Flush(c)
  <2>1. FlushStatus[c] # "waiting" /\ FlushStatus' = [FlushStatus EXCEPT ![c] = "waiting"]
    BY <1>0, <1>3 DEF FlushCall, FlushStatus, CallStages
  <2> QED BY <1>3, <2>1 DEF FlushCall, Promise!Flush
<1>4. ASSUME NEW c \in Callers, FlushGivesUp(c) PROVE Promise!Reject({c})
  <2>1. /\ FlushStatus[c] = "waiting"
        /\ FlushStatus' = [d \in Callers |-> IF d \in {c} THEN "rejected" ELSE FlushStatus[d]]
    BY <1>0, <1>4 DEF FlushGivesUp, FlushStatus
  <2> QED BY <1>4, <2>1 DEF FlushGivesUp, Promise!Reject
<1>5. ASSUME NEW c \in Callers, FlushJoins(c) PROVE UNCHANGED Promise!vars
  <2>1. UNCHANGED FlushStatus BY <1>0, <1>5 DEF FlushJoins, FlushStatus
  <2> QED BY <1>5, <2>1 DEF FlushJoins
<1>6. ASSUME NEW c \in Callers, FlushRaises(c)
      PROVE  Promise!Resolve({c}) \/ UNCHANGED Promise!vars
  <2>1. CASE Active \/ pending # <<>>
    <3>1. UNCHANGED FlushStatus BY <1>0, <1>6, <2>1 DEF FlushRaises, FlushStatus
    <3> QED BY <1>6, <3>1 DEF FlushRaises
  <2>2. CASE ~Active /\ pending = <<>>
    <3>1. /\ FlushStatus[c] = "waiting"
          /\ FlushStatus' = [d \in Callers |-> IF d \in {c} THEN "resolved" ELSE FlushStatus[d]]
      BY <1>0, <1>6, <2>2 DEF FlushRaises, FlushStatus
    <3>2. target[c] <= Len(stored) BY <2>2, DrainedIsDurable DEF WriteInv
    <3> QED BY <1>6, <3>1, <3>2 DEF FlushRaises, Promise!Resolve
  <2> QED BY <2>1, <2>2
<1> DEFINE Joined == {c \in Callers : caller[c] = "barrier"}
<1>7. ASSUME NEW outcome \in {"resolved", "rejected"}, SettleBarrier(outcome)
      PROVE  /\ \A c \in Joined : FlushStatus[c] = "waiting"
             /\ FlushStatus' =
                  [c \in Callers |-> IF c \in Joined THEN outcome ELSE FlushStatus[c]]
  BY <1>0, <1>7 DEF SettleBarrier, FlushStatus
<1>8. CASE DrainAfterOverlap \/ DrainAfterWrite
  <2>1. UNCHANGED <<logged, stored, target>>
    BY <1>8 DEF DrainAfterOverlap, DrainAfterWrite
  <2>2. CASE pending # <<>>
    <3>1. UNCHANGED FlushStatus
      BY <1>8, <2>2 DEF DrainAfterOverlap, DrainAfterWrite, DrainLoop, FlushStatus
    <3> QED BY <2>1, <3>1
  <2>3. CASE pending = <<>>
    <3>1. SettleBarrier("resolved")
      BY <1>8, <2>3 DEF DrainAfterOverlap, DrainAfterWrite, DrainLoop
    <3>2. ~Active BY <1>8 DEF DrainAfterOverlap, DrainAfterWrite, WriteInv, StageInv
    <3>3. \A c \in Callers : target[c] <= Len(stored)
      BY <2>3, <3>2, DrainedIsDurable DEF WriteInv
    <3>4. Promise!Resolve(Joined)
      BY <2>1, <3>1, <3>3, <1>7 DEF Promise!Resolve
    <3> QED BY <3>4
  <2> QED BY <2>2, <2>3
<1>9. CASE DrainFails
  <2>1. UNCHANGED <<logged, stored, target>> /\ SettleBarrier("rejected")
    BY <1>9 DEF DrainFails
  <2>2. Promise!Reject(Joined) BY <2>1, <1>7 DEF Promise!Reject
  <2> QED BY <2>2
<1>10. \/ OnDeadline \/ WriteFails \/ WriteSettles \/ ContinueAutomatic \/ InitSettles
       \/ UNCHANGED writeVars
       => UNCHANGED Promise!vars
  BY DEF OnDeadline, WriteFails, WriteSettles, ContinueAutomatic, InitSettles,
         writeVars, flushCalls, FlushStatus
<1> QED
  BY <1>1, <1>2, <1>3, <1>4, <1>5, <1>6, <1>8, <1>9, <1>10 DEF WriteNext

\* ImplementsDurableLog: the write controller implements DurableLog.
THEOREM WriteRefinement == WriteSpec => ImplementsDurableLog
<1>1. WriteInit => Promise!Init
  <2>1. ASSUME WriteInit PROVE Len(stored) = 0 /\ FlushStatus = [c \in Callers |-> "none"]
    BY <2>1, EmptySeq DEF WriteInit, FlushStatus
  <2> QED BY <2>1 DEF WriteInit, Promise!Init
<1>2. WriteInv /\ [WriteNext]_writeVars => [Promise!Next]_(Promise!vars) BY StepSimulation
<1> QED BY <1>1, <1>2, WriteInvariance, PTL DEF WriteSpec, ImplementsDurableLog, Promise!Spec

\* WritePathHolds: the order of the log, the durability of a resolved flush and
\* the automatic path, together.
THEOREM WritePath == WriteSpec => WritePathHolds
<1> QED BY NothingLost, FlushDurable, AutomaticPath, PTL DEF WritePathHolds
=============================================================================
