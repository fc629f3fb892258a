----------------------- MODULE CBotConnector_proofs -----------------------
(***************************************************************************)
(* Proofs about CBotConnector, for any levels, depth of the thread, size   *)
(* of the outbox, backlog of events and number of refused orders: types    *)
(* (TypeInv), what the end of a job leaves at the broker (EntryInv), and   *)
(* that nothing is placed twice (TurnInv).                                 *)
(***************************************************************************)
EXTENDS CBotConnector, SequenceTheorems, FiniteSetTheorems, WellFoundedInduction, TLAPS

-----------------------------------------------------------------------------
(* Lists of reports and of events.                                         *)

LEMMA NotLess ==
  ASSUME NEW m \in Nat, NEW n \in Nat, <<m, n>> \notin OpToRel(<, Nat)
  PROVE  ~(m < n)
<1>1. <<m, n>> \in Nat \X Nat /\ <<m, n>>[1] = m /\ <<m, n>>[2] = n
  OBVIOUS
<1>2. QED
  BY <1>1, Zenon DEF OpToRel

\* A set of naturals that is not empty has a least member.
LEMMA LeastNumber ==
  ASSUME NEW T, T \subseteq Nat, T # {}
  PROVE  \E n \in T : \A m \in T : n <= m
<1>1. PICK n \in T : \A m \in T : <<m, n>> \notin OpToRel(<, Nat)
  <2> DEFINE R == OpToRel(<, Nat)
  <2>1. IsWellFoundedOn(R, Nat)
    BY NatLessThanWellFounded
  <2> HIDE DEF R
  <2>2. \E n \in T : \A m \in T : <<m, n>> \notin R
    BY <2>1, WFMin
  <2>3. QED
    BY <2>2 DEF R
<1>2. \A m \in T : ~(m < n)
  BY <1>1, NotLess
<1>3. QED
  BY <1>2

\* What a report makes of a status is a status.
LEMMA AppliedStatus ==
  ASSUME NEW status \in Status, NEW phase \in Phase
  PROVE  Applied(status, phase) \in Status
  BY DEF Applied, StatusForPhase, NoStatus, Status, Phase

LEMMA MaxOfAdded ==
  ASSUME NEW n \in Nat, NEW s \in SUBSET (1 .. n + 1), n + 1 \in s
  PROVE  Max(s) = n + 1
<1>1. \A x \in s : x \in Int /\ n + 1 >= x
  OBVIOUS
<1>2. \A x \in s : (\A y \in s : x >= y) <=> x = n + 1
  BY <1>1
<1>3. QED
  BY <1>2, Zenon DEF Max

\* The value of the fold over the first reports, by the set of their places.
LEMMA FoldExists ==
  ASSUME NEW status \in Status, NEW phases \in Seq(Phase)
  PROVE  \E h \in [SUBSET (1 .. Len(phases)) -> Status] :
           \A s \in SUBSET (1 .. Len(phases)) :
             h[s] = IF s = {} THEN status ELSE Applied(h[s \ {Max(s)}], phases[Max(s)])
<1> DEFINE Values(n) == {h \in [SUBSET (1 .. n) -> Status] :
                 \A s \in SUBSET (1 .. n) :
                   h[s] = IF s = {} THEN status ELSE Applied(h[s \ {Max(s)}], phases[Max(s)])}
           Without0 == {n \in 0 .. Len(phases) : Values(n) = {}}
<1>0. Len(phases) \in Nat /\ \A i \in 1 .. Len(phases) : phases[i] \in Phase
  BY LenProperties, ElementOfSeq
<1>1. Values(0) # {}
  <2>1. SUBSET (1 .. 0) = {{}}
    OBVIOUS
  <2>2. [s \in {{}} |-> status] \in Values(0)
    BY <2>1
  <2>3. QED
    BY <2>2
<1>2. ASSUME NEW n \in 0 .. Len(phases), n + 1 <= Len(phases), Values(n) # {}
      PROVE  Values(n + 1) # {}
  <2>1. PICK h \in Values(n) : TRUE
    BY <1>2
  <2>2. /\ h \in [SUBSET (1 .. n) -> Status]
        /\ \A s \in SUBSET (1 .. n) :
             h[s] = IF s = {} THEN status ELSE Applied(h[s \ {Max(s)}], phases[Max(s)])
    BY <2>1
  <2> DEFINE g == [s \in SUBSET (1 .. n + 1) |->
                     IF n + 1 \in s THEN Applied(h[s \ {n + 1}], phases[n + 1]) ELSE h[s]]
  <2>3. \A s \in SUBSET (1 .. n + 1) : s \ {n + 1} \in SUBSET (1 .. n)
    BY <1>0
  <2>4. phases[n + 1] \in Phase
    BY <1>0, <1>2
  <2>5. g \in [SUBSET (1 .. n + 1) -> Status]
    <3>1. ASSUME NEW s \in SUBSET (1 .. n + 1) PROVE g[s] \in Status
      <4>1. h[s \ {n + 1}] \in Status
        BY <2>2, <2>3
      <4>2. n + 1 \notin s => s = s \ {n + 1}
        OBVIOUS
      <4>3. Applied(h[s \ {n + 1}], phases[n + 1]) \in Status
        BY <4>1, <2>4, AppliedStatus
      <4>4. QED
        BY <4>1, <4>2, <4>3
    <3>2. QED
      BY <3>1
  <2>6. ASSUME NEW s \in SUBSET (1 .. n + 1)
        PROVE  g[s] = IF s = {} THEN status ELSE Applied(g[s \ {Max(s)}], phases[Max(s)])
    <3>1. CASE n + 1 \in s
      <4>1. Max(s) = n + 1 /\ s # {}
        BY <3>1, <1>0, MaxOfAdded
      <4>2. g[s] = Applied(h[s \ {n + 1}], phases[n + 1])
        BY <3>1
      <4>3. g[s \ {n + 1}] = h[s \ {n + 1}]
        OBVIOUS
      <4>4. QED
        BY <4>1, <4>2, <4>3
    <3>2. CASE n + 1 \notin s
      <4>1. s \in SUBSET (1 .. n) /\ n + 1 \notin s \ {Max(s)}
        BY <3>2, <2>3
      <4>2. g[s] = h[s] /\ g[s \ {Max(s)}] = h[s \ {Max(s)}]
        BY <3>2, <4>1
      <4>3. QED
        BY <2>2, <4>1, <4>2
    <3>3. QED
      BY <3>1, <3>2
  <2>7. g \in Values(n + 1)
    BY <2>5, <2>6
  <2>8. QED
    BY <2>7
<1>3. Without0 = {}
  <2>1. SUFFICES ASSUME Without0 # {} PROVE FALSE
    OBVIOUS
  <2>2. Without0 \subseteq Nat
    BY <1>0
  <2> HIDE DEF Values
  <2>3. PICK n \in Without0 : \A m \in Without0 : n <= m
    <3> HIDE DEF Without0
    <3>1. QED
      BY <2>1, <2>2, LeastNumber
  <2>4. n # 0 /\ n \in 1 .. Len(phases)
    BY <1>0, <1>1
  <2>5. n - 1 \notin Without0 /\ n - 1 \in 0 .. Len(phases)
    BY <1>0, <2>3, <2>4
  <2>6. Values(n - 1) # {} /\ (n - 1) + 1 = n
    BY <2>4, <2>5
  <2>7. Values(n) # {}
    BY <1>2, <2>4, <2>5, <2>6
  <2>8. QED
    BY <2>3, <2>7
<1>4. Values(Len(phases)) # {}
  <2> HIDE DEF Values
  <2>1. QED
    BY <1>0, <1>3
<1>5. QED
  BY <1>4

LEMMA FoldStatus ==
  ASSUME NEW status \in Status, NEW phases \in Seq(Phase)
  PROVE  FoldLeft(Applied, status, phases) \in Status
<1> DEFINE D == 1 .. Len(phases)
           Step(g, s) == IF s = {} THEN status ELSE Applied(g[s \ {Max(s)}], phases[Max(s)])
           fold == CHOOSE g : g = [s \in SUBSET D |-> Step(g, s)]
<1>1. DOMAIN phases = D
  BY LenProperties
<1>2. FoldLeft(Applied, status, phases) = fold[D]
  BY <1>1 DEF FoldLeft, MapThenFoldSet
<1>3. PICK h \in [SUBSET D -> Status] : \A s \in SUBSET D : h[s] = Step(h, s)
  BY FoldExists
<1>4. h = [s \in SUBSET D |-> Step(h, s)]
  BY <1>3
<1>5. fold = [s \in SUBSET D |-> Step(fold, s)]
  BY <1>4
<1> HIDE DEF fold
<1>0. Len(phases) \in Nat /\ \A i \in 1 .. Len(phases) : phases[i] \in Phase
  BY LenProperties, ElementOfSeq
<1> DEFINE Outside == {n \in 0 .. Len(phases) : \E s \in SUBSET (1 .. n) : fold[s] \notin Status}
<1>6. 0 \notin Outside
  <2>1. SUBSET (1 .. 0) = {{}} /\ {} \in SUBSET D
    OBVIOUS
  <2>2. fold[{}] = status
    BY <1>5, <2>1
  <2>3. QED
    BY <2>1, <2>2
<1>7. ASSUME NEW n \in 1 .. Len(phases), n - 1 \notin Outside PROVE n \notin Outside
  <2>1. SUFFICES ASSUME NEW s \in SUBSET (1 .. n) PROVE fold[s] \in Status
    OBVIOUS
  <2>2. s \in SUBSET D /\ s \ {n} \in SUBSET (1 .. n - 1) /\ n - 1 \in 0 .. Len(phases)
    BY <1>0
  <2>3. fold[s \ {n}] \in Status
    BY <1>7, <2>2
  <2>4. CASE n \in s
    <3>1. Max(s) = n
      <4>1. n - 1 \in Nat /\ n = (n - 1) + 1
        BY <1>0
      <4>2. QED
        BY <2>4, <4>1, MaxOfAdded
    <3>2. fold[s] = Applied(fold[s \ {n}], phases[n])
      BY <1>5, <2>2, <2>4, <3>1
    <3>3. QED
      BY <1>0, <2>3, <3>2, AppliedStatus
  <2>5. CASE n \notin s
    <3>1. s = s \ {n}
      BY <2>5
    <3>2. QED
      BY <2>3, <3>1
  <2>6. QED
    BY <2>4, <2>5
<1>8. Outside = {}
  <2>1. SUFFICES ASSUME Outside # {} PROVE FALSE
    OBVIOUS
  <2>2. Outside \subseteq Nat
    BY <1>0
  <2>3. PICK n \in Outside : \A m \in Outside : n <= m
    <3> HIDE DEF Outside
    <3>1. QED
      BY <2>1, <2>2, LeastNumber
  <2>4. n \in 1 .. Len(phases) /\ n - 1 \notin Outside
    <3>1. n \in 0 .. Len(phases)
      OBVIOUS
    <3> HIDE DEF Outside
    <3>2. QED
      BY <1>0, <1>6, <2>3, <3>1
  <2>5. QED
    BY <1>7, <2>3, <2>4
<1>9. QED
  BY <1>0, <1>2, <1>8

\* A list of finitely many events is a sequence of them.
LEMMA FinitelyMany ==
  ASSUME NEW S \in SUBSET ({"closed"} \X Order) PROVE IsFiniteSet(S)
<1> DEFINE place(o) == 4 * o.level + (IF o.leg = "I" THEN 0 ELSE 2) + (IF o.side = "BUY" THEN 0 ELSE 1)
           f == [e \in S |-> place(e[2])]
<1>0. Levels \in Nat \ {0}
  BY ConnectorAssumption
<1>1. \A o \in Order : place(o) \in 0 .. 4 * Levels + 3
  BY <1>0 DEF Order, Side
<1>2. ASSUME NEW o \in Order, NEW p \in Order, place(o) = place(p) PROVE o = p
  <2>1. o.level = p.level /\ o.leg = p.leg /\ o.side = p.side
    BY <1>0, <1>2 DEF Order, Side
  <2>2. QED
    BY <2>1 DEF Order
<1> HIDE DEF place
<1>3. f \in [S -> 0 .. 4 * Levels + 3]
  BY <1>1
<1>4. IsInjective(f)
  BY <1>2 DEF IsInjective
<1>5. f \in Injection(S, 0 .. 4 * Levels + 3)
  BY <1>3, <1>4 DEF Injection
<1>6. IsFiniteSet(0 .. 4 * Levels + 3)
  BY <1>0, FS_Interval
<1>7. QED
  BY <1>5, <1>6, FS_Injection

LEMMA ListOfSet ==
  ASSUME NEW T, NEW S \in SUBSET T, IsFiniteSet(S) PROVE SetToSeq(S) \in Seq(T)
<1>1. Cardinality(S) \in Nat /\ Bijection(1 .. Cardinality(S), S) # {}
  BY FS_CardinalityType DEF ExistsBijection
<1>2. \E f \in [1 .. Cardinality(S) -> S] : IsInjective(f)
  BY <1>1 DEF Bijection, Injection
<1>3. SetToSeq(S) \in [1 .. Cardinality(S) -> S]
  BY <1>2, Zenon DEF SetToSeq
<1>4. QED
  BY <1>1, <1>3

-----------------------------------------------------------------------------
(* The stack.                                                              *)

StackOK == stack \in Seq(Handler)

LEMMA TopOfStack ==
  ASSUME StackOK, stack # <<>>
  PROVE  /\ Len(stack) \in Nat \ {0} /\ Top \in Handler /\ Top = stack[Len(stack)]
         /\ Front(stack) \in Seq(Handler) /\ Len(Front(stack)) = Len(stack) - 1
         /\ \A i \in 1 .. Len(stack) - 1 : Front(stack)[i] = stack[i]
<1>1. Len(stack) \in Nat \ {0} /\ \A i \in 1 .. Len(stack) : stack[i] \in Handler
  BY EmptySeq, ElementOfSeq, LenProperties DEF StackOK
<1>2. Top = stack[Len(stack)] /\ Top \in Handler
  BY <1>1 DEF Top, Last
<1>3. /\ Front(stack) \in Seq(Handler) /\ Len(Front(stack)) = Len(stack) - 1
      /\ \A i \in 1 .. Len(stack) - 1 : Front(stack)[i] = stack[i]
  <2> DEFINE n == Len(stack) - 1
  <2>1. n \in Nat /\ \A i \in 1 .. n : stack[i] \in Handler
    BY <1>1
  <2>2. /\ SubSeq(stack, 1, n) \in Seq(Handler)
        /\ Len(SubSeq(stack, 1, n)) = IF 1 <= n THEN n - 1 + 1 ELSE 0
        /\ \A i \in 1 .. n - 1 + 1 : SubSeq(stack, 1, n)[i] = stack[1 + i - 1]
    BY <2>1, SubSeqProperties
  <2> HIDE DEF n
  <2>3. /\ n - 1 + 1 = n /\ (IF 1 <= n THEN n - 1 + 1 ELSE 0) = n
        /\ \A i \in 1 .. n : 1 + i - 1 = i
    BY <2>1
  <2>4. /\ SubSeq(stack, 1, n) \in Seq(Handler) /\ Len(SubSeq(stack, 1, n)) = n
        /\ \A i \in 1 .. n : SubSeq(stack, 1, n)[i] = stack[i]
    BY <2>2, <2>3
  <2>5. QED
    BY <2>4 DEF Front, n
<1>4. QED
  BY <1>1, <1>2, <1>3

\* The running handler returns.
LEMMA StackReturns ==
  ASSUME StackOK, stack # <<>>, Returns
  PROVE  /\ StackOK' /\ Len(stack) \in Nat \ {0} /\ Len(stack') = Len(stack) - 1
         /\ \A i \in 1 .. Len(stack') : stack'[i] = stack[i] /\ i \in 1 .. Len(stack)
  BY TopOfStack DEF Returns, StackOK

\* The running handler goes on at another place.
LEMMA StackBecomes ==
  ASSUME StackOK, stack # <<>>, NEW h \in Handler, Becomes(h)
  PROVE  /\ StackOK' /\ Len(stack) \in Nat \ {0} /\ Len(stack') = Len(stack)
         /\ stack'[Len(stack)] = h
         /\ \A i \in 1 .. Len(stack) : i # Len(stack) => stack'[i] = stack[i]
<1>1. /\ Len(stack) \in Nat \ {0} /\ Front(stack) \in Seq(Handler)
      /\ Len(Front(stack)) = Len(stack) - 1
      /\ \A i \in 1 .. Len(stack) - 1 : Front(stack)[i] = stack[i]
  BY TopOfStack
<1>2. /\ stack' \in Seq(Handler) /\ Len(stack') = Len(Front(stack)) + 1
      /\ \A i \in 1 .. Len(Front(stack)) : stack'[i] = Front(stack)[i]
      /\ stack'[Len(Front(stack)) + 1] = h
  BY <1>1, AppendProperties DEF Becomes
<1>3. QED
  BY <1>1, <1>2 DEF StackOK

\* A handler starts on top of the others.
LEMMA StackGrows ==
  ASSUME StackOK, NEW h \in Handler, stack' = Append(stack, h)
  PROVE  /\ StackOK' /\ Len(stack) \in Nat /\ Len(stack') = Len(stack) + 1
         /\ stack'[Len(stack) + 1] = h
         /\ \A i \in 1 .. Len(stack) : stack'[i] = stack[i]
  BY AppendProperties, LenProperties DEF StackOK

LEMMA StackGrowsByTwo ==
  ASSUME StackOK, NEW h \in Handler, NEW k \in Handler, stack' = stack \o <<h, k>>
  PROVE  /\ StackOK' /\ Len(stack) \in Nat /\ Len(stack') = Len(stack) + 2
         /\ stack'[Len(stack) + 1] = h /\ stack'[Len(stack) + 2] = k
         /\ \A i \in 1 .. Len(stack) : stack'[i] = stack[i]
<1>1. <<h, k>> \in Seq(Handler) /\ Len(<<h, k>>) = 2
  OBVIOUS
<1>2. Len(stack) \in Nat
  BY LenProperties DEF StackOK
<1>3. /\ stack' \in Seq(Handler) /\ Len(stack') = Len(stack) + 2
      /\ \A i \in 1 .. Len(stack) + 2 :
           stack'[i] = IF i <= Len(stack) THEN stack[i] ELSE <<h, k>>[i - Len(stack)]
  BY <1>1, ConcatProperties DEF StackOK
<1>4. /\ \A i \in 1 .. Len(stack) : i \in 1 .. Len(stack) + 2 /\ i <= Len(stack)
      /\ Len(stack) + 1 \in 1 .. Len(stack) + 2 /\ ~(Len(stack) + 1 <= Len(stack))
      /\ Len(stack) + 2 \in 1 .. Len(stack) + 2 /\ ~(Len(stack) + 2 <= Len(stack))
      /\ (Len(stack) + 1) - Len(stack) = 1 /\ (Len(stack) + 2) - Len(stack) = 2
  BY <1>2
<1>5. stack'[Len(stack) + 1] = <<h, k>>[1] /\ stack'[Len(stack) + 2] = <<h, k>>[2]
  BY <1>3, <1>4
<1>6. QED
  BY <1>2, <1>3, <1>4, <1>5 DEF StackOK

-----------------------------------------------------------------------------
(* Frames of the stack.                                                    *)

\* The handlers of ProcessJobs; the others are those of an event.
Initial == {"due", "place", "placed", "rollback", "check", "closing"}
Placement == {"place", "placed", "rollback"}
Turning == {"reverse", "reversed"}

\* What a suspended handler relies on, its flags in r, the trouble so far in t.
FrameOK(h, r, t) ==
  /\ h.at \in Initial => h.busy
  /\ h.at = "place" => h.next <= Len(Legs)
  /\ h.at = "reverse" => h.next <= Levels
  /\ h.at = "check" => h.phase # None
  /\ h.at \in {"begin"} \cup Turning => h.side \in Side
  /\ h.at \in Placement => r.submitted /\ (h.got # "all" => r.attempts <= t)
  /\ h.at \in Turning => r.reversing /\ (h.got # "all" => r.tries <= t)
  /\ h.at = "rollback" => h.got # "all"
  /\ h.at = "due" => h.got = "all" /\ h.next = 1

Frames == \A i \in 1 .. Len(stack) : FrameOK(stack[i], rt, trouble)

\* One handler of the timer at most, and one basket of reversal orders being placed.
OneBusy    == \A i, j \in 1 .. Len(stack) : stack[i].busy /\ stack[j].busy => i = j
OneReverse == \A i, j \in 1 .. Len(stack) :
                stack[i].at \in Turning /\ stack[j].at \in Turning => i = j

Thread == StackOK /\ Frames /\ OneBusy /\ OneReverse

\* The flags and counters a suspended handler relies on are left alone.
Undisturbed ==
  /\ trouble <= trouble'
  /\ rt.submitted => rt'.submitted
  /\ rt'.attempts = rt.attempts /\ rt'.tries = rt.tries /\ rt'.reversing = rt.reversing

Counts == /\ rt.attempts \in Nat /\ rt.tries \in Nat /\ trouble \in Nat /\ trouble' \in Nat

LEMMA FrameStays ==
  ASSUME Counts, Undisturbed, NEW h, FrameOK(h, rt, trouble)
  PROVE  FrameOK(h, rt', trouble')
  BY DEF Counts, Undisturbed, FrameOK

LEMMA ThreadSame ==
  ASSUME Thread, mode' = mode, stack' = stack,
         \A i \in 1 .. Len(stack) : FrameOK(stack[i], rt', trouble')
  PROVE  Thread'
  BY DEF Thread, StackOK, Frames, OneBusy, OneReverse, FrameOK, Legs

LEMMA ThreadReturns ==
  ASSUME Thread, mode' = mode, stack # <<>>, Returns,
         \A i \in 1 .. Len(stack) : i # Len(stack) => FrameOK(stack[i], rt', trouble')
  PROVE  Thread'
<1>1. /\ StackOK' /\ Len(stack) \in Nat \ {0} /\ Len(stack') = Len(stack) - 1
      /\ \A i \in 1 .. Len(stack') : stack'[i] = stack[i] /\ i \in 1 .. Len(stack)
  BY StackReturns DEF Thread
<1>2. \A i \in 1 .. Len(stack') : FrameOK(stack'[i], rt', trouble')
  BY <1>1
<1>3. Legs' = Legs
  BY DEF Legs
<1>4. Frames'
  BY <1>2, <1>3 DEF Frames, FrameOK
<1>5. QED
  BY <1>1, <1>4 DEF Thread, OneBusy, OneReverse

LEMMA ThreadBecomes ==
  ASSUME Thread, mode' = mode, stack # <<>>, NEW h \in Handler, Becomes(h),
         \A i \in 1 .. Len(stack) : i # Len(stack) => FrameOK(stack[i], rt', trouble'),
         FrameOK(h, rt', trouble'), h.busy => Top.busy,
         h.at \in Turning => \/ Top.at \in Turning
                             \/ \A i \in 1 .. Len(stack) : stack[i].at \notin Turning
  PROVE  Thread'
<1>1. /\ StackOK' /\ Len(stack) \in Nat \ {0} /\ Len(stack') = Len(stack)
      /\ stack'[Len(stack)] = h
      /\ \A i \in 1 .. Len(stack) : i # Len(stack) => stack'[i] = stack[i]
  BY StackBecomes DEF Thread
<1>2. \A i \in 1 .. Len(stack') : FrameOK(stack'[i], rt', trouble')
  BY <1>1
<1>3. Legs' = Legs
  BY DEF Legs
<1>4. Frames'
  BY <1>2, <1>3 DEF Frames, FrameOK
<1>5. Top = stack[Len(stack)] /\ Len(stack) \in 1 .. Len(stack)
  BY <1>1, TopOfStack DEF Thread
<1>6. OneBusy' /\ OneReverse'
  BY <1>1, <1>5 DEF Thread, OneBusy, OneReverse
<1>7. QED
  BY <1>1, <1>4, <1>6 DEF Thread

LEMMA ThreadGrows ==
  ASSUME Thread, mode' = mode, NEW h \in Handler, stack' = Append(stack, h),
         \A i \in 1 .. Len(stack) : FrameOK(stack[i], rt', trouble'),
         FrameOK(h, rt', trouble'), h.busy => ~Busy, h.at \notin Turning
  PROVE  Thread'
<1>1. /\ StackOK' /\ Len(stack) \in Nat /\ Len(stack') = Len(stack) + 1
      /\ stack'[Len(stack) + 1] = h
      /\ \A i \in 1 .. Len(stack) : stack'[i] = stack[i]
  BY StackGrows DEF Thread
<1>2. \A i \in 1 .. Len(stack') : i \in 1 .. Len(stack) \/ i = Len(stack) + 1
  BY <1>1
<1>3. \A i \in 1 .. Len(stack') : FrameOK(stack'[i], rt', trouble')
  BY <1>1, <1>2
<1>4. Legs' = Legs
  BY DEF Legs
<1>5. Frames'
  BY <1>3, <1>4 DEF Frames, FrameOK
<1>6. h.busy => \A i \in 1 .. Len(stack) : ~stack[i].busy
  BY LenProperties DEF Busy, Thread, StackOK
<1>7. OneBusy' /\ OneReverse'
  BY <1>1, <1>2, <1>6 DEF Thread, OneBusy, OneReverse
<1>8. QED
  BY <1>1, <1>5, <1>7 DEF Thread

-----------------------------------------------------------------------------
(* The flags of a job and the counters of its attempts.                    *)

Flags == [armed : BOOLEAN, submitted : BOOLEAN, terminal : BOOLEAN, attempts : Nat,
          wait : BOOLEAN, placing : BOOLEAN, rollback : BOOLEAN, placed : BOOLEAN,
          failed : BOOLEAN, reversing : BOOLEAN, tries : Nat, pause : BOOLEAN,
          trigger : Side \cup {None}, deferred : Side \cup {None}]

StoreOK == /\ job \in [known : BOOLEAN, cancel : BOOLEAN, close : BOOLEAN]
           /\ accepting \in BOOLEAN /\ rt \in Flags

WorldOK == /\ mode \in Modes /\ now \in 0 .. 5 /\ trouble \in 0 .. MaxRefused
           /\ nested \in BOOLEAN /\ crossed \in BOOLEAN /\ restarted \in BOOLEAN

\* A basket is tried once more than it was refused at most.
Counters ==
  /\ rt.attempts <= trouble + 1 /\ (~rt.submitted => rt.attempts <= trouble)
  /\ rt.tries <= trouble + 1 /\ (~rt.placed /\ ~rt.reversing => rt.tries <= trouble)
  /\ rt.tries > 0 => rt.trigger \in Side

Room1 == Len(stack) <= Depth + 1

Core == StoreOK /\ WorldOK /\ Thread /\ Counters /\ Room1

LEMMA Numbers ==
  /\ Levels \in Nat \ {0} /\ Depth \in Nat \ {0} /\ MaxRefused \in Nat /\ Outbox \in Nat
  /\ 1 \in 1 .. 2 * Levels /\ 0 \in 0 .. 5
  BY ConnectorAssumption

Place0 == {"due", "place", "placed", "rollback", "check", "closing",
           "begin", "reverse", "reversed", "unwind"}

LEMMA Started ==
  ASSUME NEW place \in Place0
  PROVE  /\ Start(place) \in Handler /\ Start(place).at = place /\ Start(place).busy
         /\ Start(place).next = 1 /\ Start(place).got = "all"
  BY Numbers DEF Start, Handler, Place0

LEMMA Begun ==
  ASSUME NEW side \in Side
  PROVE  /\ Begin(side) \in Handler /\ Begin(side).at = "begin" /\ Begin(side).side = side
         /\ ~Begin(side).busy
<1>1. PICK s : s = Start("begin")
  OBVIOUS
<1>2. s \in Handler /\ s.at = "begin"
  BY <1>1, Started DEF Place0
<1>3. PICK h : h = [s EXCEPT !.side = side, !.busy = FALSE]
  OBVIOUS
<1>4. h \in Handler /\ h.at = "begin" /\ h.side = side /\ ~h.busy
  BY <1>2, <1>3 DEF Handler
<1> QED  BY <1>1, <1>3, <1>4 DEF Begin

LEMMA CheckStarts ==
  ASSUME NEW phase \in {"CANCELLED", "CLOSED"}
  PROVE  LET h == [Start("check") EXCEPT !.phase = phase] IN
         h \in Handler /\ h.at = "check" /\ h.busy /\ h.phase # None
<1> DEFINE s == Start("check")
           h == [s EXCEPT !.phase = phase]
<1>1. s \in Handler /\ s.at = "check" /\ s.busy
  BY Started DEF Place0
<1>2. phase # None
  BY DEF None
<1> HIDE DEF s
<1>3. h \in Handler /\ h.at = "check" /\ h.busy /\ h.phase # None
  BY <1>1, <1>2 DEF Handler
<1>4. QED
  BY <1>3 DEF s

LEMMA LegsThere ==
  /\ Len(Legs) \in 1 .. 2 * Levels /\ Legs \in Seq(Order)
  /\ \A i \in 1 .. Len(Legs) : Legs[i] \in Order /\ Legs[i].leg = "I"
<1>1. CASE mode = "MARKET"
  <2>1. Label("I", "BUY", 1) \in Order
    BY Numbers DEF Label, Order, Side
  <2>2. Legs = <<Label("I", "BUY", 1)>>
    BY <1>1 DEF Legs
  <2>3. QED
    BY <2>1, <2>2, Numbers DEF Label
<1>2. CASE mode = "STRADDLE"
  <2>1. Label("I", "BUY", 1) \in Order /\ Label("I", "SELL", 1) \in Order
    BY Numbers DEF Label, Order, Side
  <2>2. Legs = <<Label("I", "BUY", 1), Label("I", "SELL", 1)>>
    BY <1>2 DEF Legs
  <2>3. QED
    BY <2>1, <2>2, Numbers DEF Label
<1>3. CASE mode \notin {"MARKET", "STRADDLE"}
  <2>1. Legs = [i \in 1 .. 2 * Levels |-> Label("I", IF i % 2 = 1 THEN "BUY" ELSE "SELL", (i + 1) \div 2)]
    BY <1>3 DEF Legs
  <2>2. ASSUME NEW i \in 1 .. 2 * Levels
        PROVE  /\ Label("I", IF i % 2 = 1 THEN "BUY" ELSE "SELL", (i + 1) \div 2) \in Order
               /\ Label("I", IF i % 2 = 1 THEN "BUY" ELSE "SELL", (i + 1) \div 2).leg = "I"
    <3>1. (i + 1) \div 2 \in 1 .. Levels
      BY Numbers
    <3>2. QED
      BY <3>1 DEF Label, Order, Side
  <2>3. Legs \in [1 .. 2 * Levels -> Order] /\ 2 * Levels \in Nat
    BY <2>1, <2>2, Numbers
  <2>4. Legs \in Seq(Order) /\ Len(Legs) = 2 * Levels
    BY <2>3
  <2>5. QED
    BY <2>1, <2>2, <2>4, Numbers
<1>4. QED
  BY <1>1, <1>2, <1>3

LEMMA OpStack ==
  ASSUME Core
  PROVE  /\ Len(stack) \in Nat /\ trouble \in Nat
         /\ stack # <<>> => Len(stack) \in 1 .. Len(stack) /\ Top = stack[Len(stack)]
                              /\ Top \in Handler /\ FrameOK(Top, rt, trouble)
  BY Numbers, LenProperties, TopOfStack DEF Core, WorldOK, Thread, StackOK, Frames

\* The flags the counters speak of stay; the stack may lose its top or stay.
LEMMA CoreSame ==
  ASSUME Core, StoreOK', WorldOK', mode' = mode, Undisturbed,
         rt'.placed = rt.placed, rt.tries > 0 => rt'.trigger = rt.trigger,
         stack' = stack \/ (stack # <<>> /\ Returns)
  PROVE  Core'
<1>1. \A i \in 1 .. Len(stack) : FrameOK(stack[i], rt', trouble')
  <2>1. Counts
    BY DEF Counts, Core, StoreOK, Flags, WorldOK
  <2>2. QED
    BY <2>1, FrameStays DEF Core, Thread, Frames
<1>2. Thread' /\ Len(stack') <= Len(stack) /\ Len(stack') \in Nat
  <2>1. CASE stack' = stack
    BY <1>1, <2>1, ThreadSame, OpStack DEF Core
  <2>2. CASE stack # <<>> /\ Returns
    BY <1>1, <2>2, ThreadReturns, StackReturns, OpStack DEF Core, Thread
  <2>3. QED
    BY <2>1, <2>2
<1>3. Counters'
  BY DEF Core, Counters, Undisturbed, StoreOK, Flags, WorldOK
<1>4. Room1'
  BY <1>2, OpStack, Numbers DEF Core, Room1
<1>5. QED
  BY <1>2, <1>3, <1>4 DEF Core

\* The flags stay, a handler of the timer or of an event starts.
LEMMA CoreGrows ==
  ASSUME Core, Room, UNCHANGED <<job, accepting, mode, now, nested, crossed, restarted, trouble>>,
         rt' \in Flags, Undisturbed, rt'.submitted = rt.submitted, rt'.placed = rt.placed,
         rt'.trigger = rt.trigger,
         NEW h \in Handler, stack' = Append(stack, h),
         h.at \in {"closing", "check", "begin"}, h.busy => ~Busy, FrameOK(h, rt', trouble')
  PROVE  Core'
<1>1. \A i \in 1 .. Len(stack) : FrameOK(stack[i], rt', trouble')
  <2>1. Counts
    BY DEF Counts, Core, StoreOK, Flags, WorldOK
  <2>2. QED
    BY <2>1, FrameStays DEF Core, Thread, Frames
<1>2. Thread'
  <2>1. h.at \notin Turning
    BY DEF Turning
  <2>2. QED
    BY <1>1, <2>1, ThreadGrows DEF Core
<1>3. Room1'
  <2>1. Len(stack') = Len(stack) + 1 /\ Len(stack) \in Nat
    BY StackGrows DEF Core, Thread
  <2>2. QED
    BY <2>1, Numbers DEF Room, Room1
<1>4. Counters' /\ StoreOK' /\ WorldOK'
  BY DEF Core, Counters, Undisturbed, StoreOK, Flags, WorldOK
<1>5. QED
  BY <1>2, <1>3, <1>4 DEF Core

-----------------------------------------------------------------------------
(* The steps keep Core.                                                    *)

WireOK == /\ server \in Row /\ link \in {"up", "broken", "down"}
          /\ Len(outbox) <= Outbox /\ outbox \in Seq(Phase)

\* Neither the flags nor the thread are touched.
LEMMA CoreQuiet ==
  ASSUME Core, StoreOK', WorldOK', UNCHANGED <<mode, rt, stack>>, trouble <= trouble'
  PROVE  Core'
<1>1. Undisturbed
  BY Numbers DEF Undisturbed, Core, StoreOK, Flags
<1>2. QED
  BY <1>1, CoreSame

\* The handlers of events and of the connection, the broker, the user, the clock.
Outside == \/ NoJob \/ HearNothing \/ (\E o \in Order : FillPlain(o) \/ Fill(o) \/ StopOrTarget(o) \/ Expire(o))
           \/ Poll \/ Connect \/ Break \/ Notice \/ UserCancels \/ UserCloses \/ Halt \/ Resume \/ Tick

LEMMA CoreOutside ==
  ASSUME Core, WireOK, Outside
  PROVE  Core'
<1>1. UNCHANGED <<mode, rt, stack>>
  <2>1. CASE NoJob
    BY <2>1 DEF NoJob, Pass, world
  <2>2. CASE HearNothing
    BY <2>2 DEF HearNothing, memory, world
  <2>3. ASSUME NEW o \in Order, FillPlain(o) \/ Fill(o) \/ StopOrTarget(o) \/ Expire(o) PROVE UNCHANGED <<mode, rt, stack>>
    BY <2>3 DEF FillPlain, Fill, StopOrTarget, Expire, memory, world
  <2>4. CASE Poll \/ Connect \/ Break \/ Notice
    BY <2>4 DEF Poll, Connect, Break, Notice, memory, world
  <2>5. CASE UserCancels \/ UserCloses \/ Halt \/ Resume \/ Tick
    BY <2>5 DEF UserCancels, UserCloses, Halt, Resume, Tick, memory, world
  <2>6. QED
    BY <2>1, <2>2, <2>3, <2>4, <2>5 DEF Outside
<1>2. WorldOK' /\ trouble <= trouble'
  <2>0. WorldOK /\ MaxRefused \in Nat /\ trouble \in Nat
    BY Numbers DEF Core, WorldOK
  <2>1. CASE UNCHANGED world
    BY <2>0, <2>1 DEF WorldOK, world
  <2>2. CASE Tick
    BY <2>0, <2>2 DEF Tick, WorldOK
  <2>3. CASE Trouble /\ UNCHANGED <<mode, now, nested, crossed, restarted>>
    BY <2>0, <2>3 DEF Trouble, WorldOK
  <2>4. QED
    BY <2>1, <2>2, <2>3 DEF Outside, NoJob, Pass, HearNothing, FillPlain, Fill, StopOrTarget, Expire, Poll, Connect,
       Break, Notice, UserCancels, UserCloses, Halt, Resume
<1>3. StoreOK'
  <2>1. CASE Poll
    <3>1. /\ server.accept \in BOOLEAN /\ server.cancel \in BOOLEAN /\ server.close \in BOOLEAN
          /\ job \in [known : BOOLEAN, cancel : BOOLEAN, close : BOOLEAN] /\ rt \in Flags
      BY DEF WireOK, Row, Core, StoreOK
    <3>2. QED
      BY <1>1, <2>1, <3>1 DEF Poll, StoreOK
  <2>2. CASE ~Poll
    <3>1. UNCHANGED <<job, accepting>>
      <4>1. CASE NoJob \/ HearNothing
        BY <4>1 DEF NoJob, Pass, HearNothing, memory
      <4>2. ASSUME NEW o \in Order, FillPlain(o) \/ Fill(o) \/ StopOrTarget(o) \/ Expire(o)
            PROVE  UNCHANGED <<job, accepting>>
        BY <4>2 DEF FillPlain, Fill, StopOrTarget, Expire, memory
      <4>3. CASE Connect \/ Break \/ Notice \/ UserCancels \/ UserCloses \/ Halt \/ Resume \/ Tick
        BY <4>3 DEF Connect, Break, Notice, UserCancels, UserCloses, Halt, Resume, Tick, memory
      <4>4. QED
        BY <2>2, <4>1, <4>2, <4>3 DEF Outside
    <3>2. QED
      BY <1>1, <3>1 DEF Core, StoreOK
  <2>3. QED
    BY <2>1, <2>2
<1>4. QED
  BY <1>1, <1>2, <1>3, CoreQuiet

LEMMA ArmedFlags ==
  ASSUME Core
  PROVE  /\ Armed \in Flags
         /\ Armed.submitted = rt.submitted /\ Armed.attempts = rt.attempts /\ Armed.tries = rt.tries
         /\ Armed.reversing = rt.reversing /\ Armed.placed = rt.placed /\ Armed.trigger = rt.trigger
         /\ Armed.placing = rt.placing /\ Armed.rollback = rt.rollback /\ Armed.terminal = rt.terminal
<1>0. rt \in Flags
  BY DEF Core, StoreOK
<1>1. Arms \in BOOLEAN
  BY DEF Arms
<1>2. Armed \in Flags /\ Armed = [rt EXCEPT !.armed = Armed.armed]
  BY <1>0, <1>1 DEF Armed, Flags
<1>3. QED
  BY <1>0, <1>2 DEF Flags

LEMMA DeclinedFlags ==
  ASSUME NEW r \in Flags, NEW phases \in Outcomes
  PROVE  /\ Declined(r, phases) \in Flags
         /\ Declined(r, phases).attempts = r.attempts /\ Declined(r, phases).tries = r.tries
         /\ Declined(r, phases).reversing = r.reversing /\ Declined(r, phases).placed = r.placed
         /\ Declined(r, phases).trigger = r.trigger
         /\ r.submitted => Declined(r, phases).submitted
         /\ Declined(r, phases).placing = r.placing /\ Declined(r, phases).rollback = r.rollback
<1>1. CASE phases = <<>>
  BY <1>1 DEF Declined
<1>2. CASE phases = <<"SUBMITTED">>
  <2>1. phases # <<>>
    BY <1>2
  <2>2. Declined(r, phases) = Submitted(r)
    BY <2>1, <1>2 DEF Declined
  <2>3. QED
    BY <2>2 DEF Submitted, Flags
<1>3. CASE phases # <<>> /\ phases # <<"SUBMITTED">>
  <2>1. Declined(r, phases) = Ends(Submitted(r))
    BY <1>3 DEF Declined
  <2>2. QED
    BY <2>1 DEF Submitted, Ends, Flags
<1>4. QED
  BY <1>1, <1>2, <1>3

LEMMA EndsFlags ==
  ASSUME NEW r \in Flags
  PROVE  /\ Ends(r) \in Flags /\ Ends(r).terminal
         /\ Ends(r).submitted = r.submitted /\ Ends(r).attempts = r.attempts /\ Ends(r).tries = r.tries
         /\ Ends(r).reversing = r.reversing /\ Ends(r).placed = r.placed /\ Ends(r).trigger = r.trigger
         /\ Ends(r).placing = r.placing /\ Ends(r).rollback = r.rollback
  BY DEF Ends, Flags

\* The flags a suspended handler relies on, and those the counters speak of, are kept.
Alike(r) == /\ r \in Flags /\ r.attempts = rt.attempts /\ r.tries = rt.tries
            /\ r.reversing = rt.reversing /\ r.placed = rt.placed /\ r.trigger = rt.trigger
            /\ rt.submitted => r.submitted

\* A handler runs to its end at once, or the running one returns.
LEMMA CoreFlags ==
  ASSUME Core, Alike(rt'), UNCHANGED <<job, accepting, mode, now, trouble>>,
         nested' \in BOOLEAN, crossed' \in BOOLEAN, restarted' \in BOOLEAN,
         stack' = stack \/ (stack # <<>> /\ Returns)
  PROVE  Core'
<1>1. Undisturbed
  BY Numbers DEF Undisturbed, Core, StoreOK, Flags, Alike, WorldOK
<1>2. StoreOK' /\ WorldOK'
  BY DEF Core, StoreOK, WorldOK, Alike
<1>3. QED
  BY <1>1, <1>2, CoreSame DEF Alike

LEMMA CoreEnds ==
  ASSUME Core, Disabled \/ (\E o \in Order : Close(o)) \/ PauseEnds \/ CloseAll \/ Check
  PROVE  Core'
<1>0. rt \in Flags /\ nested \in BOOLEAN /\ crossed \in BOOLEAN /\ restarted \in BOOLEAN
  BY DEF Core, StoreOK, WorldOK
<1>1. Alike(rt) /\ Alike(Ends(rt))
  BY <1>0, EndsFlags DEF Alike
<1>2. CASE Disabled
  <2>1. rt' = rt \/ rt' = Ends(rt)
    BY <1>2 DEF Disabled
  <2>2. UNCHANGED <<job, accepting, mode, now, trouble, nested, crossed, restarted, stack>>
    BY <1>2 DEF Disabled, Pass, world
  <2>3. QED
    BY <1>0, <1>1, <2>1, <2>2, CoreFlags
<1>3. ASSUME NEW o \in Order, Close(o) PROVE Core'
  <2>1. (rt' = rt /\ nested' = nested) \/ (rt' = Ends(rt) /\ nested' \in BOOLEAN)
    BY <1>0, <1>3 DEF Close
  <2>2. UNCHANGED <<job, accepting, mode, now, trouble, crossed, restarted, stack>>
    BY <1>3 DEF Close
  <2>3. QED
    BY <1>0, <1>1, <2>1, <2>2, CoreFlags
<1>4. CASE PauseEnds
  <2>1. Alike(rt')
    BY <1>0, <1>4 DEF PauseEnds, Alike, Flags
  <2>2. UNCHANGED <<job, accepting, mode, now, trouble, nested, crossed, restarted, stack>>
    BY <1>4 DEF PauseEnds, world
  <2>3. QED
    BY <1>0, <2>1, <2>2, CoreFlags
<1>5. CASE CloseAll
  <2>1. (rt' = rt \/ rt' = Ends(rt)) /\ stack # <<>> /\ Returns
    BY <1>5 DEF CloseAll, At
  <2>2. UNCHANGED <<job, accepting, mode, now, trouble, nested, crossed, restarted>>
    BY <1>5 DEF CloseAll, world
  <2>3. QED
    BY <1>0, <1>1, <2>1, <2>2, CoreFlags
<1>6. CASE Check
  <2>1. (rt' = rt \/ rt' = Ends(rt)) /\ stack # <<>> /\ Returns
    BY <1>6 DEF Check, At
  <2>2. UNCHANGED <<job, accepting, mode, now, trouble, nested, crossed, restarted>>
    BY <1>6 DEF Check, world
  <2>3. QED
    BY <1>0, <1>1, <2>1, <2>2, CoreFlags
<1>7. QED
  BY <1>2, <1>3, <1>4, <1>5, <1>6

\* The timer's handler stops at a call of the broker.
LEMMA CoreAsks ==
  ASSUME Core, CloseAsked \/ CancelAsked \/ ManagementEnds
  PROVE  Core'
<1>1. /\ Room /\ ~Busy /\ rt' = rt
      /\ UNCHANGED <<job, accepting, mode, now, nested, crossed, restarted, trouble>>
  BY DEF CloseAsked, CancelAsked, ManagementEnds, Pass, world
<1>2. PICK phase \in {"CANCELLED", "CLOSED"} :
        \/ stack' = Append(stack, Start("closing"))
        \/ stack' = Append(stack, [Start("check") EXCEPT !.phase = phase])
  BY DEF CloseAsked, CancelAsked, ManagementEnds, Suspend
<1>3. rt' \in Flags /\ Undisturbed
  BY <1>1, Numbers DEF Core, StoreOK, Flags, Undisturbed, WorldOK
<1>4. CASE stack' = Append(stack, Start("closing"))
  <2>1. Start("closing") \in Handler /\ Start("closing").at = "closing" /\ Start("closing").busy
    BY Started DEF Place0
  <2>2. FrameOK(Start("closing"), rt', trouble')
    BY <2>1 DEF FrameOK, Turning, Placement
  <2>3. QED
    BY <1>1, <1>3, <1>4, <2>1, <2>2, CoreGrows
<1>5. CASE stack' = Append(stack, [Start("check") EXCEPT !.phase = phase])
  <2> DEFINE h == [Start("check") EXCEPT !.phase = phase]
  <2>1. h \in Handler /\ h.at = "check" /\ h.busy /\ h.phase # None
    BY CheckStarts
  <2>2. FrameOK(h, rt', trouble')
    BY <2>1 DEF FrameOK, Turning, Placement
  <2> HIDE DEF h
  <2>3. stack' = Append(stack, h)
    BY <1>5 DEF h
  <2>4. QED
    BY <1>1, <1>3, <2>1, <2>2, <2>3, CoreGrows
<1>6. QED
  BY <1>2, <1>4, <1>5

LEMMA CoreFillStarts ==
  ASSUME Core, NEW o \in Order, FillStarts(o)
  PROVE  Core'
<1>0. rt \in Flags /\ o.side \in Side
  BY DEF Core, StoreOK, Order
<1>1. Alike(rt') /\ rt'.submitted = rt.submitted
  BY <1>0 DEF FillStarts, Alike, Flags
<1>2. UNCHANGED <<job, accepting, mode, now, nested, crossed, restarted, trouble>>
  BY DEF FillStarts, world
<1>3. CASE stack' = stack
  BY <1>1, <1>2, <1>3, CoreFlags DEF Core, WorldOK
<1>4. CASE Room /\ stack' = Append(stack, Begin(o.side))
  <2>1. /\ Begin(o.side) \in Handler /\ Begin(o.side).at = "begin" /\ Begin(o.side).side = o.side
        /\ ~Begin(o.side).busy
    BY <1>0, Begun
  <2>2. FrameOK(Begin(o.side), rt', trouble')
    BY <1>0, <2>1 DEF FrameOK, Initial, Turning, Placement
  <2>3. Undisturbed
    BY <1>1, <1>2, Numbers DEF Undisturbed, Alike, Core, WorldOK
  <2>4. QED
    BY <1>1, <1>2, <1>4, <2>1, <2>2, <2>3, CoreGrows DEF Alike
<1>5. QED
  BY <1>3, <1>4 DEF FillStarts

LEMMA CoreFollows ==
  ASSUME Core, Rejected \/ Accepted \/ Unwind
  PROVE  Core'
<1>0. /\ rt \in Flags /\ WorldOK /\ stack # <<>>
      /\ Top \in Handler /\ FrameOK(Top, rt, trouble)
  BY OpStack DEF Core, StoreOK, Rejected, Accepted, Unwind, At
<1>1. CASE Unwind
  <2>1. Alike(rt') /\ nested' \in BOOLEAN
    <3>1. Alike([rt EXCEPT !.rollback = FALSE, !.pause = TRUE])
          /\ Alike([rt EXCEPT !.rollback = FALSE, !.failed = TRUE])
          /\ Alike([rt EXCEPT !.rollback = FALSE, !.failed = TRUE, !.terminal = TRUE])
      BY <1>0 DEF Alike, Flags
    <3>2. \/ rt' = [rt EXCEPT !.rollback = FALSE, !.pause = TRUE]
          \/ rt' = [rt EXCEPT !.rollback = FALSE, !.failed = TRUE]
          \/ rt' = [rt EXCEPT !.rollback = FALSE, !.failed = TRUE, !.terminal = TRUE]
      BY <1>0, <1>1 DEF Unwind, Ends, Flags
    <3>3. nested' \in BOOLEAN
      BY <1>0, <1>1 DEF Unwind, WorldOK
    <3>4. QED
      BY <3>1, <3>2, <3>3
  <2>2. Returns /\ UNCHANGED <<job, accepting, mode, now, trouble, crossed, restarted>>
    BY <1>1 DEF Unwind
  <2>3. QED
    BY <1>0, <2>1, <2>2, CoreFlags DEF WorldOK
<1>2. CASE Accepted /\ Returns
  <2>1. Alike(rt')
    BY <1>0, <1>2 DEF Accepted, Alike, Flags
  <2>2. UNCHANGED <<job, accepting, mode, now, trouble, nested, crossed, restarted>>
    BY <1>2 DEF Accepted, world
  <2>3. QED
    BY <1>0, <1>2, <2>1, <2>2, CoreFlags DEF WorldOK
<1>3. ASSUME NEW h \in Handler, Becomes(h), h.busy = Top.busy, h.at \notin Turning,
             Alike(rt'), FrameOK(h, rt', trouble'), UNCHANGED <<job, accepting, world>>
      PROVE  Core'
  <2>1. Undisturbed
    BY <1>0, <1>3, Numbers DEF Undisturbed, Alike, WorldOK, world
  <2>2. \A i \in 1 .. Len(stack) : FrameOK(stack[i], rt', trouble')
    BY <1>3, <2>1, FrameStays, Numbers DEF Counts, Core, Thread, Frames, StoreOK, Flags, Alike, WorldOK, world
  <2>3. Thread'
    BY <1>0, <1>3, <2>2, ThreadBecomes DEF Core, world
  <2>4. Counters' /\ StoreOK' /\ WorldOK'
    BY <1>0, <1>3 DEF Core, Counters, Alike, StoreOK, WorldOK, world
  <2>5. Room1'
    BY <1>0, <1>3, StackBecomes DEF Core, Thread, Room1
  <2>6. QED
    BY <2>3, <2>4, <2>5 DEF Core
<1>4. CASE Rejected
  <2> DEFINE h == [Top EXCEPT !.at = "rollback"]
  <2>1. /\ h \in Handler /\ h.at = "rollback" /\ h.busy = Top.busy /\ h.got = Top.got
        /\ h.next = Top.next
    BY <1>0 DEF Handler
  <2>2. Top.at = "placed" /\ Top.got # "all" /\ Becomes(h) /\ UNCHANGED <<job, accepting, world>>
    BY <1>4 DEF Rejected, At, Goes
  <2>3. Alike(rt') /\ UNCHANGED trouble
    BY <1>0, <1>4 DEF Rejected, Alike, Flags, world
  <2> HIDE DEF h
  <2>4. FrameOK(h, rt', trouble')
    BY <1>0, <2>1, <2>2, <2>3 DEF FrameOK, Initial, Placement, Turning, Alike
  <2>5. QED
    BY <1>3, <2>1, <2>2, <2>3, <2>4 DEF Turning
<1>5. CASE Accepted /\ ~Returns
  <2> DEFINE h == [Top EXCEPT !.at = "begin", !.side = rt.deferred]
  <2>1. /\ rt.deferred # None /\ Becomes(h) /\ UNCHANGED <<job, accepting, world>>
    BY <1>5 DEF Accepted
  <2>2. h \in Handler /\ h.at = "begin" /\ h.busy = Top.busy /\ h.side \in Side
    BY <1>0, <2>1 DEF Handler, Flags
  <2>3. Alike(rt')
    BY <1>0, <1>5 DEF Accepted, Alike, Flags
  <2> HIDE DEF h
  <2>4. FrameOK(h, rt', trouble')
    BY <2>2 DEF FrameOK, Initial, Placement, Turning
  <2>5. QED
    BY <1>3, <2>1, <2>2, <2>3, <2>4 DEF Turning
<1>6. QED
  BY <1>1, <1>2, <1>4, <1>5

LEMMA CoreTryPlace ==
  ASSUME Core, TryPlace
  PROVE  Core'
<1>0. /\ rt \in Flags /\ WorldOK /\ stack # <<>> /\ crossed' \in BOOLEAN
      /\ Top \in Handler /\ FrameOK(Top, rt, trouble) /\ Top.at = "begin"
  BY OpStack DEF Core, StoreOK, TryPlace, MaxReversals, At, WorldOK
<1>1. UNCHANGED <<job, accepting, mode, now, trouble, nested, restarted>>
  BY DEF TryPlace, MaxReversals
<1>2. CASE rt.placed \/ rt.reversing
  <2>1. rt' = rt /\ Returns
    BY <1>2 DEF TryPlace, MaxReversals
  <2>2. Alike(rt')
    BY <1>0, <2>1 DEF Alike
  <2>3. QED
    BY <1>0, <1>1, <2>1, <2>2, CoreFlags DEF WorldOK
<1>3. CASE ~rt.placed /\ ~rt.reversing
  <2> DEFINE h == [Top EXCEPT !.at = "reverse", !.next = 1, !.got = "all"]
  <2>1. rt' = [rt EXCEPT !.reversing = TRUE, !.trigger = Top.side, !.tries = @ + 1] /\ Becomes(h)
    BY <1>3 DEF TryPlace, MaxReversals
  <2>2. /\ h \in Handler /\ h.at = "reverse" /\ h.busy = Top.busy /\ h.side = Top.side
        /\ h.next = 1 /\ h.got = "all"
    BY <1>0, Numbers DEF Handler
  <2>3. Top.side \in Side /\ rt.tries \in Nat /\ rt.tries + 1 \in Nat
    BY <1>0 DEF FrameOK, Flags
  <2> HIDE DEF h
  <2>4. /\ rt' \in Flags /\ rt'.reversing /\ rt'.trigger = Top.side /\ rt'.tries = rt.tries + 1
        /\ rt'.submitted = rt.submitted /\ rt'.attempts = rt.attempts /\ rt'.placed = rt.placed
    BY <1>0, <2>1, <2>3 DEF Flags
  <2>5. FrameOK(h, rt', trouble')
    BY <2>2, <2>3, <2>4, Numbers DEF FrameOK, Initial, Placement, Turning
  <2>6. ASSUME NEW i \in 1 .. Len(stack)
        PROVE  FrameOK(stack[i], rt', trouble') /\ stack[i].at \notin Turning
    <3>1. FrameOK(stack[i], rt, trouble)
      BY DEF Core, Thread, Frames
    <3>2. stack[i].at \notin Turning
      BY <1>3, <3>1 DEF FrameOK
    <3>3. QED
      BY <1>1, <2>4, <3>1, <3>2 DEF FrameOK
  <2>7. Thread'
    BY <1>0, <1>1, <2>1, <2>2, <2>5, <2>6, ThreadBecomes DEF Core
  <2>8. Counters'
    <3>1. rt.tries <= trouble /\ trouble' = trouble
      BY <1>1, <1>3 DEF Core, Counters
    <3>2. QED
      BY <1>0, <2>3, <2>4, <3>1, Numbers DEF Core, Counters, WorldOK
  <2>9. Room1'
    BY <1>0, <2>1, <2>2, StackBecomes DEF Core, Thread, Room1
  <2>10. StoreOK' /\ WorldOK'
    BY <1>0, <1>1, <2>4 DEF Core, StoreOK, WorldOK
  <2>11. QED
    BY <2>7, <2>8, <2>9, <2>10 DEF Core
<1>4. QED
  BY <1>0, <1>2, <1>3 DEF Flags

\* The rows of FrameOK that an order of a basket touches.
LEMMA PlacesFrame ==
  ASSUME Core, stack # <<>>, NEW o, NEW state, NEW last \in BOOLEAN, NEW after \in Place0,
         Top.next + 1 \in 1 .. 2 * Levels \/ last,
         Places(o, state, last, after)
  PROVE  \E h \in Handler :
           /\ Becomes(h) /\ h.busy = Top.busy /\ h.side = Top.side
           /\ h.at = (IF last THEN after ELSE Top.at) /\ h.next = (IF last THEN 1 ELSE Top.next + 1)
           /\ \/ h.got = Top.got /\ trouble' = trouble
              \/ h.got # "all" /\ trouble' = trouble + 1 /\ trouble < MaxRefused
<1>0. Top \in Handler
  BY OpStack
<1> DEFINE h(got) == [Top EXCEPT !.got = got, !.next = IF last THEN 1 ELSE Top.next + 1,
                                 !.at = IF last THEN after ELSE Top.at]
<1>1. ASSUME NEW got \in {"all", "transient", "permanent"}
      PROVE  /\ h(got) \in Handler /\ h(got).busy = Top.busy /\ h(got).side = Top.side /\ h(got).got = got
             /\ h(got).at = (IF last THEN after ELSE Top.at)
             /\ h(got).next = (IF last THEN 1 ELSE Top.next + 1)
  <2>1. (IF last THEN 1 ELSE Top.next + 1) \in 1 .. 2 * Levels
    BY Numbers
  <2>2. (IF last THEN after ELSE Top.at) \in Place0
    BY <1>0 DEF Handler, Place0
  <2> DEFINE n == IF last THEN 1 ELSE Top.next + 1
             a == IF last THEN after ELSE Top.at
  <2> HIDE DEF n, a
  <2>3. h(got) = [Top EXCEPT !.got = got, !.next = n, !.at = a]
    BY DEF n, a
  <2>4. n \in 1 .. 2 * Levels /\ a \in Place0
    BY <2>1, <2>2 DEF n, a
  <2> HIDE DEF h
  <2>5. /\ h(got) \in Handler /\ h(got).busy = Top.busy /\ h(got).side = Top.side /\ h(got).got = got
        /\ h(got).at = a /\ h(got).next = n
    BY <1>0, <2>3, <2>4 DEF Handler, Place0
  <2>6. QED
    BY <2>5 DEF n, a
<1>2. \/ Becomes(h(Top.got)) /\ trouble' = trouble
      \/ \E error \in {"transient", "permanent"} :
           Becomes(h(IF Top.got = "all" THEN error ELSE Top.got)) /\ trouble' = trouble + 1 /\ trouble < MaxRefused
  BY DEF Places, Refused
<1>3. Top.got \in {"all", "transient", "permanent"}
  BY <1>0 DEF Handler
<1> HIDE DEF h
<1>4. CASE Becomes(h(Top.got)) /\ trouble' = trouble
  BY <1>1, <1>3, <1>4
<1>5. ASSUME NEW error \in {"transient", "permanent"},
             Becomes(h(IF Top.got = "all" THEN error ELSE Top.got)), trouble' = trouble + 1, trouble < MaxRefused
      PROVE  \E g \in {"transient", "permanent"} : Becomes(h(g))
  BY <1>3, <1>5
<1>6. CASE \E error \in {"transient", "permanent"} :
             Becomes(h(IF Top.got = "all" THEN error ELSE Top.got)) /\ trouble' = trouble + 1 /\ trouble < MaxRefused
  <2>1. PICK g \in {"transient", "permanent"} : Becomes(h(g))
    BY <1>5, <1>6
  <2>2. trouble' = trouble + 1 /\ trouble < MaxRefused
    BY <1>6
  <2>3. QED
    BY <1>1, <2>1, <2>2
<1>7. QED
  BY <1>2, <1>4, <1>6

LEMMA CorePlaces ==
  ASSUME Core, Place \/ TryReversalOrder
  PROVE  Core'
<1>0. /\ rt \in Flags /\ WorldOK /\ stack # <<>>
      /\ Top \in Handler /\ FrameOK(Top, rt, trouble) /\ Len(Legs) \in 1 .. 2 * Levels
  BY OpStack, LegsThere, Numbers DEF Core, StoreOK, Place, TryReversalOrder, At
<1>1. UNCHANGED <<job, accepting, rt, mode, now, nested, crossed, restarted>>
  BY DEF Place, TryReversalOrder, memory
<1>2. ASSUME NEW h \in Handler, Becomes(h), h.busy = Top.busy, h.at \in Turning => Top.at \in Turning,
             trouble' = trouble \/ (trouble' = trouble + 1 /\ trouble < MaxRefused),
             FrameOK(h, rt', trouble')
      PROVE  Core'
  <2>1. trouble' \in 0 .. MaxRefused /\ trouble <= trouble'
    BY <1>0, <1>2, Numbers DEF WorldOK
  <2>2. \A i \in 1 .. Len(stack) : FrameOK(stack[i], rt', trouble')
    <3>1. Undisturbed /\ Counts
      BY <1>0, <1>1, <2>1 DEF Undisturbed, Counts, Flags, WorldOK
    <3>2. QED
      BY <3>1, FrameStays DEF Core, Thread, Frames
  <2>3. Thread'
    BY <1>0, <1>1, <1>2, <2>2, ThreadBecomes DEF Core
  <2>4. Counters' /\ StoreOK' /\ WorldOK'
    BY <1>0, <1>1, <2>1 DEF Core, Counters, StoreOK, WorldOK, Flags
  <2>5. Room1'
    BY <1>0, <1>2, StackBecomes DEF Core, Thread, Room1
  <2>6. QED
    BY <2>3, <2>4, <2>5 DEF Core
<1>3. CASE Place
  <2> DEFINE last == Top.next = Len(Legs)
  <2>1. Top.at = "place" /\ Top.busy /\ Top.next \in 1 .. Len(Legs) /\ rt.submitted
    BY <1>0, <1>3 DEF Place, At, FrameOK, Initial, Placement, Handler
  <2>2. last \/ (Top.next + 1 \in 1 .. 2 * Levels /\ Top.next + 1 <= Len(Legs))
    BY <1>0, <2>1, Numbers
  <2>3. Places(Legs[Top.next], IF mode = "MARKET" THEN "open" ELSE "pending", last, "placed")
    BY <1>3 DEF Place
  <2> HIDE DEF last
  <2>4. last \in BOOLEAN /\ "placed" \in Place0
    BY DEF last, Place0
  <2>5. PICK h \in Handler :
           /\ Becomes(h) /\ h.busy = Top.busy /\ h.side = Top.side
           /\ h.at = (IF last THEN "placed" ELSE Top.at) /\ h.next = (IF last THEN 1 ELSE Top.next + 1)
           /\ \/ h.got = Top.got /\ trouble' = trouble
              \/ h.got # "all" /\ trouble' = trouble + 1 /\ trouble < MaxRefused
    BY <1>0, <2>2, <2>3, <2>4, PlacesFrame
  <2>6. h.got # "all" => rt.attempts <= trouble'
    BY <1>0, <2>1, <2>5 DEF FrameOK, Placement, Core, Counters
  <2>7. FrameOK(h, rt', trouble')
    <3>1. h.at \in {"place", "placed"} /\ (h.at = "place" => h.next <= Len(Legs))
      BY <2>1, <2>2, <2>5
    <3>2. Len(Legs') = Len(Legs)
      BY <1>1 DEF Legs
    <3>3. QED
      BY <1>1, <2>1, <2>5, <2>6, <3>1, <3>2 DEF FrameOK, Initial, Placement, Turning
  <2>8. h.at \notin Turning
    BY <2>1, <2>5 DEF Turning
  <2>9. QED
    BY <1>2, <2>5, <2>7, <2>8
<1>4. CASE TryReversalOrder
  <2> DEFINE last == Top.next = Levels
  <2>1. Top.at = "reverse" /\ Top.side \in Side /\ Top.next \in 1 .. Levels /\ rt.reversing
    BY <1>0, <1>4, Numbers DEF TryReversalOrder, At, FrameOK, Turning, Handler
  <2>2. last \/ (Top.next + 1 \in 1 .. 2 * Levels /\ Top.next + 1 <= Levels)
    BY <1>0, <2>1, Numbers
  <2>3. PICK state \in {"pending", "open"} :
          Places(ReversalLegs(Top.side)[Top.next], state, last, "reversed")
    BY <1>4 DEF TryReversalOrder
  <2> HIDE DEF last
  <2>4. last \in BOOLEAN /\ "reversed" \in Place0
    BY DEF last, Place0
  <2>5. PICK h \in Handler :
           /\ Becomes(h) /\ h.busy = Top.busy /\ h.side = Top.side
           /\ h.at = (IF last THEN "reversed" ELSE Top.at) /\ h.next = (IF last THEN 1 ELSE Top.next + 1)
           /\ \/ h.got = Top.got /\ trouble' = trouble
              \/ h.got # "all" /\ trouble' = trouble + 1 /\ trouble < MaxRefused
    BY <1>0, <2>2, <2>3, <2>4, PlacesFrame
  <2>6. h.got # "all" => rt.tries <= trouble'
    BY <1>0, <2>1, <2>5 DEF FrameOK, Turning, Core, Counters
  <2>7. FrameOK(h, rt', trouble')
    <3>1. h.at \in {"reverse", "reversed"} /\ (h.at = "reverse" => h.next <= Levels)
      BY <2>1, <2>2, <2>5
    <3>2. QED
      BY <1>1, <2>1, <2>5, <2>6, <3>1 DEF FrameOK, Initial, Placement, Turning
  <2>8. Top.at \in Turning
    BY <2>1 DEF Turning
  <2>9. QED
    BY <1>2, <2>5, <2>7, <2>8
<1>5. QED
  BY <1>3, <1>4

LEMMA CoreReversed ==
  ASSUME Core, Reversed
  PROVE  Core'
<1>0. /\ rt \in Flags /\ WorldOK /\ stack # <<>> /\ Len(stack) \in 1 .. Len(stack)
      /\ Top = stack[Len(stack)] /\ Top \in Handler /\ FrameOK(Top, rt, trouble) /\ Top.at = "reversed"
  BY OpStack DEF Core, StoreOK, Reversed, At
<1>1. UNCHANGED <<job, accepting, mode, now, nested, crossed, restarted, trouble>>
  BY DEF Reversed, world
<1>2. rt.reversing /\ (Top.got # "all" => rt.tries <= trouble)
  BY <1>0 DEF FrameOK, Turning
<1>3. /\ rt' \in Flags /\ rt'.submitted = rt.submitted /\ rt'.attempts = rt.attempts
      /\ rt'.tries = rt.tries /\ rt'.trigger = rt.trigger
      /\ (Top.got = "all" => rt'.placed) /\ (Top.got # "all" => rt'.placed = rt.placed)
  <2>1. CASE Top.got = "all"
    BY <1>0, <2>1 DEF Reversed, Flags
  <2>2. CASE Top.got # "all"
    BY <1>0, <2>2 DEF Reversed, Flags
  <2>3. QED
    BY <2>1, <2>2
<1>4. \A i \in 1 .. Len(stack) : i # Len(stack) => FrameOK(stack[i], rt', trouble')
  <2>1. SUFFICES ASSUME NEW i \in 1 .. Len(stack), i # Len(stack) PROVE FrameOK(stack[i], rt', trouble')
    OBVIOUS
  <2>2. FrameOK(stack[i], rt, trouble) /\ stack[i].at \notin Turning
    BY <1>0, <2>1 DEF Core, Thread, Frames, OneReverse, Turning
  <2>3. QED
    BY <1>1, <1>3, <2>2 DEF FrameOK
<1>5. Thread' /\ Len(stack') <= Len(stack)
  <2>1. CASE Top.got = "all"
    <3>1. Returns
      BY <2>1 DEF Reversed
    <3>2. QED
      BY <1>0, <1>1, <1>4, <3>1, ThreadReturns, StackReturns DEF Core, Thread
  <2>2. CASE Top.got # "all"
    <3> DEFINE h == [Top EXCEPT !.at = "unwind"]
    <3>1. h \in Handler /\ h.at = "unwind" /\ h.busy = Top.busy
      BY <1>0 DEF Handler
    <3>2. Becomes(h)
      BY <2>2 DEF Reversed, Goes
    <3> HIDE DEF h
    <3>3. FrameOK(h, rt', trouble')
      BY <3>1 DEF FrameOK, Initial, Placement, Turning
    <3>4. h.at \notin Turning
      BY <3>1 DEF Turning
    <3>5. QED
      BY <1>0, <1>1, <1>4, <3>1, <3>2, <3>3, <3>4, ThreadBecomes, StackBecomes DEF Core, Thread
  <2>3. QED
    BY <2>1, <2>2
<1>6. Counters'
  BY <1>0, <1>1, <1>2, <1>3 DEF Core, Counters, Flags
<1>7. Room1' /\ StoreOK' /\ WorldOK'
  <2>1. Len(stack') \in Nat /\ Len(stack) \in Nat
    BY <1>5, LenProperties DEF Thread, StackOK, Core
  <2>2. QED
    BY <1>0, <1>1, <1>3, <1>5, <2>1, Numbers DEF Core, Room1, StoreOK, WorldOK
<1>8. QED
  BY <1>5, <1>6, <1>7 DEF Core

LEMMA CoreRollback ==
  ASSUME Core, Rollback
  PROVE  Core'
<1>0. /\ rt \in Flags /\ WorldOK /\ stack # <<>> /\ Len(stack) \in 1 .. Len(stack)
      /\ Top = stack[Len(stack)] /\ Top \in Handler /\ FrameOK(Top, rt, trouble) /\ Top.at = "rollback"
  BY OpStack DEF Core, StoreOK, Rollback, At
<1>1. UNCHANGED <<job, accepting, mode, now, nested, crossed, restarted, trouble>> /\ Returns
  BY DEF Rollback, world
<1>2. rt.submitted /\ Top.busy /\ rt.attempts <= trouble
  BY <1>0 DEF FrameOK, Placement, Initial
<1>3. /\ rt' \in Flags /\ rt'.attempts = rt.attempts /\ rt'.tries = rt.tries
      /\ rt'.trigger = rt.trigger /\ rt'.placed = rt.placed /\ rt'.reversing = rt.reversing
  <2> DEFINE done == [rt EXCEPT !.rollback = FALSE, !.deferred = None]
  <2>1. done \in Flags /\ done.attempts = rt.attempts /\ done.tries = rt.tries
        /\ done.trigger = rt.trigger /\ done.placed = rt.placed /\ done.reversing = rt.reversing
    BY <1>0 DEF Flags
  <2>2. rt' = [done EXCEPT !.submitted = FALSE, !.wait = TRUE] \/ rt' = Ends(done)
    BY DEF Rollback
  <2> HIDE DEF done
  <2>3. QED
    BY <2>1, <2>2 DEF Ends, Flags
<1>4. \A i \in 1 .. Len(stack) : i # Len(stack) => FrameOK(stack[i], rt', trouble')
  <2>1. SUFFICES ASSUME NEW i \in 1 .. Len(stack), i # Len(stack) PROVE FrameOK(stack[i], rt', trouble')
    OBVIOUS
  <2>2. FrameOK(stack[i], rt, trouble) /\ ~stack[i].busy
    BY <1>0, <1>2, <2>1 DEF Core, Thread, Frames, OneBusy
  <2>3. stack[i].at \notin Placement
    BY <2>2 DEF FrameOK, Initial, Placement
  <2>4. QED
    BY <1>1, <1>3, <2>2, <2>3 DEF FrameOK
<1>5. Thread' /\ Len(stack') <= Len(stack)
  BY <1>0, <1>1, <1>4, ThreadReturns, StackReturns DEF Core, Thread
<1>6. Counters'
  BY <1>0, <1>1, <1>2, <1>3 DEF Core, Counters, Flags
<1>7. Room1' /\ StoreOK' /\ WorldOK'
  <2>1. Len(stack') \in Nat /\ Len(stack) \in Nat
    BY <1>5, LenProperties DEF Thread, StackOK, Core
  <2>2. QED
    BY <1>0, <1>1, <1>3, <1>5, <2>1, Numbers DEF Core, Room1, StoreOK, WorldOK
<1>8. QED
  BY <1>5, <1>6, <1>7 DEF Core

\* The next attempt to place the basket.
LEMMA PlacingFlags ==
  ASSUME NEW r \in Flags
  PROVE  /\ Placing(r) \in Flags /\ Placing(r).submitted /\ Placing(r).attempts = r.attempts + 1
         /\ Placing(r).tries = r.tries /\ Placing(r).reversing = r.reversing
         /\ Placing(r).placed = r.placed /\ Placing(r).trigger = r.trigger
         /\ Placing(r).rollback = r.rollback /\ Placing(r).terminal = r.terminal
<1>1. r.attempts + 1 \in Nat /\ (mode = "NEWS_REVERSAL") \in BOOLEAN
  BY DEF Flags
<1>2. QED
  BY <1>1 DEF Placing, Flags

\* An attempt: the frames there were are not of a basket.
LEMMA CoreAttempt ==
  ASSUME Core, NEW r \in Flags, r.submitted = rt.submitted, r.attempts = rt.attempts,
         r.tries = rt.tries, r.reversing = rt.reversing, r.placed = rt.placed, r.trigger = rt.trigger,
         rt' = Placing(r), ~rt.submitted, NEW t, Submits(t),
         UNCHANGED <<job, accepting, mode, now, nested, crossed, restarted, trouble>>
  PROVE  /\ \A i \in 1 .. Len(stack) : FrameOK(stack[i], rt', trouble')
         /\ StoreOK' /\ WorldOK' /\ Counters' /\ rt'.submitted
<1>1. /\ rt' \in Flags /\ rt'.submitted /\ rt'.attempts = rt.attempts + 1
      /\ rt'.tries = rt.tries /\ rt'.reversing = rt.reversing /\ rt'.placed = rt.placed
      /\ rt'.trigger = rt.trigger
  BY PlacingFlags
<1>2. ASSUME NEW i \in 1 .. Len(stack) PROVE FrameOK(stack[i], rt', trouble')
  <2>1. FrameOK(stack[i], rt, trouble)
    BY DEF Core, Thread, Frames
  <2>2. stack[i].at \notin Placement
    BY <2>1 DEF FrameOK
  <2>3. QED
    BY <1>1, <2>1, <2>2 DEF FrameOK
<1>3. Counters'
  BY <1>1 DEF Core, Counters, StoreOK, Flags, WorldOK
<1>4. StoreOK' /\ WorldOK'
  BY <1>1 DEF Core, StoreOK, WorldOK
<1>5. QED
  BY <1>1, <1>2, <1>3, <1>4

LEMMA CoreDue ==
  ASSUME Core, Due
  PROVE  Core'
<1>0. rt \in Flags /\ WorldOK
  BY DEF Core, StoreOK
<1>1. Room /\ ~Busy /\ UNCHANGED <<job, accepting, mode, now, nested, crossed, restarted, trouble>>
  BY DEF Due, Pass, world
<1>2. /\ Armed \in Flags
      /\ Armed.submitted = rt.submitted /\ Armed.attempts = rt.attempts /\ Armed.tries = rt.tries
      /\ Armed.reversing = rt.reversing /\ Armed.placed = rt.placed /\ Armed.trigger = rt.trigger
  BY ArmedFlags
<1>3. ASSUME NEW phases \in Outcomes, rt' = Declined(Armed, phases), UNCHANGED stack PROVE Core'
  <2>1. Alike(rt')
    BY <1>2, <1>3, DeclinedFlags DEF Alike
  <2>2. QED
    BY <1>0, <1>1, <1>3, <2>1, CoreFlags DEF WorldOK
<1>4. ASSUME Submits(now), rt' = Placing(Armed), stack' = Append(stack, Start("place")) PROVE Core'
  <2>1. ~rt.submitted
    BY <1>4 DEF Submits, InTime, NotYet
  <2>2. /\ \A i \in 1 .. Len(stack) : FrameOK(stack[i], rt', trouble')
        /\ StoreOK' /\ WorldOK' /\ Counters' /\ rt'.submitted
    BY <1>1, <1>2, <1>4, <2>1, CoreAttempt
  <2>3. /\ Start("place") \in Handler /\ Start("place").at = "place" /\ Start("place").busy
        /\ Start("place").next = 1 /\ Start("place").got = "all"
    BY Started DEF Place0
  <2>4. FrameOK(Start("place"), rt', trouble')
    <3>1. 1 <= Len(Legs) /\ Legs' = Legs
      BY <1>1, LegsThere, Numbers DEF Legs
    <3>2. QED
      BY <2>2, <2>3, <3>1 DEF FrameOK, Initial, Placement, Turning
  <2>5. Thread'
    BY <1>1, <1>4, <2>2, <2>3, <2>4, ThreadGrows DEF Core, Turning
  <2>6. Room1'
    BY <1>1, <1>4, <2>3, StackGrows, Numbers DEF Core, Thread, Room, Room1
  <2>7. QED
    BY <2>2, <2>5, <2>6 DEF Core
<1>5. QED
  BY <1>3, <1>4 DEF Due, Suspend

LEMMA CoreDueAfterRetry ==
  ASSUME Core, DueAfterRetry
  PROVE  Core'
<1>0. /\ rt \in Flags /\ WorldOK /\ stack # <<>>
      /\ Top \in Handler /\ FrameOK(Top, rt, trouble) /\ Top.at = "due"
  BY OpStack DEF Core, StoreOK, DueAfterRetry, At
<1>1. UNCHANGED <<job, accepting, mode, now, nested, crossed, restarted, trouble>>
  BY DEF DueAfterRetry, world
<1>2. ASSUME NEW phases \in Outcomes, rt' = Declined(rt, phases), Returns PROVE Core'
  <2>1. Alike(rt')
    BY <1>0, <1>2, DeclinedFlags DEF Alike
  <2>2. QED
    BY <1>0, <1>1, <1>2, <2>1, CoreFlags DEF WorldOK
<1>3. ASSUME Submits(Top.since), rt' = Placing(rt), Goes("place") PROVE Core'
  <2> DEFINE h == [Top EXCEPT !.at = "place"]
  <2>1. ~rt.submitted
    BY <1>3 DEF Submits, InTime, NotYet
  <2>2. /\ \A i \in 1 .. Len(stack) : FrameOK(stack[i], rt', trouble')
        /\ StoreOK' /\ WorldOK' /\ Counters' /\ rt'.submitted
    BY <1>0, <1>1, <1>3, <2>1, CoreAttempt
  <2>3. h \in Handler /\ h.at = "place" /\ h.busy = Top.busy /\ h.next = Top.next /\ h.got = Top.got
    BY <1>0 DEF Handler
  <2>4. Becomes(h)
    BY <1>3 DEF Goes
  <2> HIDE DEF h
  <2>5. Top.next = 1 /\ Top.got = "all" /\ Top.busy
    BY <1>0 DEF FrameOK, Initial
  <2>6. FrameOK(h, rt', trouble')
    <3>1. 1 <= Len(Legs) /\ Legs' = Legs
      BY <1>1, LegsThere, Numbers DEF Legs
    <3>2. QED
      BY <2>2, <2>3, <2>5, <3>1 DEF FrameOK, Initial, Placement, Turning
  <2>7. Thread'
    BY <1>0, <1>1, <2>2, <2>3, <2>4, <2>6, ThreadBecomes DEF Core, Turning
  <2>8. Room1'
    BY <1>0, <2>3, <2>4, StackBecomes DEF Core, Thread, Room1
  <2>9. QED
    BY <2>2, <2>7, <2>8 DEF Core
<1>4. QED
  BY <1>2, <1>3 DEF DueAfterRetry

LEMMA CoreRetry ==
  ASSUME Core, Retry
  PROVE  Core'
<1>0. rt \in Flags /\ WorldOK /\ now \in 0 .. 5 /\ rt.trigger \in Side
  BY DEF Core, StoreOK, WorldOK, Counters, Retry, RetryDue
<1>1. Room /\ ~Busy /\ UNCHANGED <<job, accepting, mode, now, nested, crossed, restarted, trouble>>
  BY DEF Retry, Pass, world
<1>2. /\ Armed \in Flags
      /\ Armed.submitted = rt.submitted /\ Armed.attempts = rt.attempts /\ Armed.tries = rt.tries
      /\ Armed.reversing = rt.reversing /\ Armed.placed = rt.placed /\ Armed.trigger = rt.trigger
  BY ArmedFlags
<1> DEFINE h == [Start("due") EXCEPT !.since = now]
           k == Begin(rt.trigger)
<1>3. /\ h \in Handler /\ h.at = "due" /\ h.busy /\ h.next = 1 /\ h.got = "all"
  <2> DEFINE s == Start("due")
  <2>1. s \in Handler /\ s.at = "due" /\ s.busy /\ s.next = 1 /\ s.got = "all"
    BY Started DEF Place0
  <2>2. h = [s EXCEPT !.since = now]
    OBVIOUS
  <2> HIDE DEF s, h
  <2>3. QED
    BY <1>0, <2>1, <2>2 DEF Handler
<1>4. k \in Handler /\ k.at = "begin" /\ k.side = rt.trigger /\ ~k.busy
  BY <1>0, Begun
<1>5. stack' = stack \o <<h, k>> /\ rt' = Armed
  BY DEF Retry
<1> HIDE DEF h, k
<1>6. FrameOK(h, rt', trouble') /\ FrameOK(k, rt', trouble')
  BY <1>0, <1>3, <1>4 DEF FrameOK, Initial, Placement, Turning
<1>7. \A i \in 1 .. Len(stack) : FrameOK(stack[i], rt', trouble')
  <2>1. Undisturbed /\ Counts
    BY <1>0, <1>1, <1>2, <1>5, Numbers DEF Undisturbed, Counts, Flags, WorldOK
  <2>2. QED
    BY <2>1, FrameStays DEF Core, Thread, Frames
<1>8. /\ StackOK' /\ Len(stack) \in Nat /\ Len(stack') = Len(stack) + 2
      /\ stack'[Len(stack) + 1] = h /\ stack'[Len(stack) + 2] = k
      /\ \A i \in 1 .. Len(stack) : stack'[i] = stack[i]
  BY <1>3, <1>4, <1>5, StackGrowsByTwo DEF Core, Thread
<1>9. \A i \in 1 .. Len(stack') : i \in 1 .. Len(stack) \/ i = Len(stack) + 1 \/ i = Len(stack) + 2
  BY <1>8
<1>10. Frames'
  <2>1. \A i \in 1 .. Len(stack') : FrameOK(stack'[i], rt', trouble')
    BY <1>6, <1>7, <1>8, <1>9
  <2>2. Legs' = Legs
    BY <1>1 DEF Legs
  <2>3. QED
    BY <2>1, <2>2 DEF Frames, FrameOK
<1>11. OneBusy'
  <2>1. \A i \in 1 .. Len(stack) : ~stack[i].busy
    BY <1>1, LenProperties DEF Busy, Core, Thread, StackOK
  <2>2. QED
    BY <1>3, <1>4, <1>8, <1>9, <2>1 DEF OneBusy
<1>12. OneReverse'
  <2>1. h.at \notin Turning /\ k.at \notin Turning
    BY <1>3, <1>4 DEF Turning
  <2>2. QED
    BY <1>8, <1>9, <2>1 DEF OneReverse, Core, Thread
<1>13. Room1'
  BY <1>1, <1>8, Numbers DEF Room, Room1
<1>14. StoreOK' /\ WorldOK' /\ Counters'
  BY <1>0, <1>1, <1>2, <1>5 DEF Core, StoreOK, WorldOK, Counters
<1>15. QED
  BY <1>8, <1>10, <1>11, <1>12, <1>13, <1>14 DEF Core, Thread

LEMMA CoreFresh ==
  ASSUME stack = <<>>, rt = NewRuntime, job = Unknown, accepting = TRUE, WorldOK
  PROVE  Core
<1>1. rt \in Flags /\ rt.attempts = 0 /\ rt.tries = 0 /\ ~rt.submitted
  BY DEF NewRuntime, Flags
<1>2. StoreOK
  BY <1>1 DEF StoreOK, Unknown
<1>3. Len(stack) = 0 /\ stack \in Seq(Handler)
  OBVIOUS
<1>4. Thread
  BY <1>3 DEF Thread, StackOK, Frames, OneBusy, OneReverse
<1>5. Counters
  BY <1>1 DEF Counters, WorldOK
<1>6. Room1
  BY <1>3, Numbers DEF Room1
<1>7. QED
  BY <1>2, <1>4, <1>5, <1>6 DEF Core

LEMMA CoreRestart ==
  ASSUME Core, Restart
  PROVE  Core'
<1>1. WorldOK'
  BY Numbers DEF Restart, Trouble, Core, WorldOK
<1>2. stack' = <<>> /\ rt' = NewRuntime /\ job' = Unknown /\ accepting' = TRUE
  BY DEF Restart
<1>3. rt' \in Flags /\ rt'.attempts = 0 /\ rt'.tries = 0 /\ ~rt'.submitted
  BY <1>2 DEF NewRuntime, Flags
<1>4. StoreOK'
  BY <1>2, <1>3 DEF StoreOK, Unknown
<1>5. Len(stack') = 0 /\ stack' \in Seq(Handler)
  BY <1>2
<1>6. Thread'
  BY <1>5 DEF Thread, StackOK, Frames, OneBusy, OneReverse
<1>7. Counters'
  <2>1. trouble' \in Nat
    BY <1>1, Numbers DEF WorldOK
  <2>2. rt'.attempts <= trouble' /\ rt'.attempts <= trouble' + 1 /\ rt'.tries <= trouble'
        /\ rt'.tries <= trouble' + 1 /\ ~(rt'.tries > 0)
    <3>1. \A n \in Nat : 0 <= n /\ 0 <= n + 1 /\ ~(0 > 0)
      OBVIOUS
    <3>2. QED
      BY <1>3, <2>1, <3>1, Zenon
  <2>3. QED
    BY <2>2 DEF Counters
<1>8. Room1'
  BY <1>5, Numbers DEF Room1
<1>9. QED
  BY <1>1, <1>4, <1>6, <1>7, <1>8 DEF Core

LEMMA CoreStep ==
  ASSUME Core, WireOK, Next
  PROVE  Core'
<1>1. CASE Outside
  BY <1>1, CoreOutside
<1>2. CASE Disabled \/ (\E o \in Order : Close(o)) \/ PauseEnds \/ CloseAll \/ Check
  BY <1>2, CoreEnds
<1>3. CASE CloseAsked \/ CancelAsked \/ ManagementEnds
  BY <1>3, CoreAsks
<1>4. CASE Rejected \/ Accepted \/ Unwind
  BY <1>4, CoreFollows
<1>5. CASE Place \/ TryReversalOrder
  BY <1>5, CorePlaces
<1>6. CASE \E o \in Order : FillStarts(o)
  BY <1>6, CoreFillStarts
<1>7. QED
  BY <1>1, <1>2, <1>3, <1>4, <1>5, <1>6, CoreTryPlace, CoreReversed, CoreRollback, CoreDue,
     CoreDueAfterRetry, CoreRetry, CoreRestart
     DEF Next, Jobs, Basket, Turn, Listen, Network, Broker, User, Outside

-----------------------------------------------------------------------------
(* The connection and the account.                                         *)

LEMMA PhaseLists ==
  /\ <<>> \in Seq(Phase)
  /\ \A p \in Phase : <<p>> \in Seq(Phase)
  /\ \A p, q \in Phase : <<p, q>> \in Seq(Phase)
  OBVIOUS

\* What is sent, and what waits for a connection.
LEMMA SendKeeps ==
  ASSUME WireOK, NEW waiting \in Seq(Phase), NEW phases \in Seq(Phase),
         Len(waiting) <= Len(outbox), Send(waiting, phases)
  PROVE  WireOK'
<1>0. /\ server \in Row /\ server.status \in Status /\ Outbox \in Nat
      /\ Len(outbox) \in Nat /\ Len(waiting) \in Nat /\ Len(phases) \in Nat
      /\ \A i \in 1 .. Len(outbox) : outbox[i] \in Phase
  BY Numbers, LenProperties, ElementOfSeq DEF WireOK, Row
<1>1. server' \in Row
  <2>1. waiting \o phases \in Seq(Phase)
    BY ConcatProperties
  <2>2. FoldLeft(Applied, server.status, waiting \o phases) \in Status
    BY <1>0, <2>1, FoldStatus
  <2> DEFINE s == FoldLeft(Applied, server.status, waiting \o phases)
  <2>3. server' = [server EXCEPT !.status = s] \/ server' = server
    BY DEF Send, Received
  <2> HIDE DEF s
  <2>4. s \in Status
    BY <2>2 DEF s
  <2>5. QED
    BY <1>0, <2>3, <2>4 DEF Row
<1>2. outbox' \in Seq(Phase) /\ Len(outbox') <= Outbox
  <2>1. CASE link # "down"
    <3> DEFINE m == Len(waiting) + 1
               n == Len(outbox)
    <3>1. m \in Int /\ n \in Int /\ \A i \in m .. n : outbox[i] \in Phase
      BY <1>0
    <3>2. /\ SubSeq(outbox, m, n) \in Seq(Phase)
          /\ Len(SubSeq(outbox, m, n)) = IF m <= n THEN n - m + 1 ELSE 0
      BY <3>1, SubSeqProperties
    <3>3. outbox' = SubSeq(outbox, m, n)
      BY <2>1 DEF Send
    <3>4. QED
      BY <1>0, <3>2, <3>3 DEF WireOK
  <2>2. CASE link = "down"
    <3> DEFINE all == outbox \o phases
               n == Min({Len(all), Outbox})
    <3>1. all \in Seq(Phase) /\ Len(all) \in Nat /\ \A i \in 1 .. Len(all) : all[i] \in Phase
      BY ConcatProperties, LenProperties, ElementOfSeq DEF WireOK
    <3> HIDE DEF all
    <3>2. n \in Nat /\ n <= Len(all) /\ n <= Outbox
      <4> DEFINE l == Len(all)
      <4>1. l \in Nat
        BY <3>1
      <4> HIDE DEF l
      <4>2. \E x \in {l, Outbox} : \A y \in {l, Outbox} : x <= y
        BY <1>0, <4>1
      <4>3. Min({l, Outbox}) \in {l, Outbox} /\ \A y \in {l, Outbox} : Min({l, Outbox}) <= y
        BY <4>2, Zenon DEF Min
      <4>4. QED
        BY <1>0, <4>1, <4>3 DEF l
    <3>3. outbox' = SubSeq(all, 1, n)
      BY <2>2 DEF Send, Kept, all
    <3> HIDE DEF n
    <3>4. \A i \in 1 .. n : all[i] \in Phase
      BY <3>1, <3>2
    <3>5. /\ SubSeq(all, 1, n) \in Seq(Phase)
          /\ Len(SubSeq(all, 1, n)) = IF 1 <= n THEN n - 1 + 1 ELSE 0
      BY <3>2, <3>4, SubSeqProperties
    <3>6. QED
      BY <1>0, <3>2, <3>3, <3>5
  <2>3. QED
    BY <2>1, <2>2
<1>3. QED
  BY <1>1, <1>2 DEF WireOK, Send

LEMMA ReportKeeps ==
  ASSUME WireOK, NEW phases \in Seq(Phase), Report(phases)
  PROVE  WireOK'
<1> DEFINE none == <<>>
<1>1. none \in Seq(Phase) /\ Len(none) <= Len(outbox) /\ Send(none, phases)
  BY LenProperties DEF WireOK, Report
<1> HIDE DEF none
<1>2. QED
  BY <1>1, SendKeeps

LEMMA SaysKeeps ==
  ASSUME WireOK, NEW phases \in Seq(Phase), Says(phases)
  PROVE  WireOK'
<1>1. Len(outbox) \in Nat /\ outbox \in Seq(Phase)
  BY LenProperties DEF WireOK
<1>2. QED
  BY <1>1, SendKeeps DEF Says

LEMMA WireStep ==
  ASSUME Core, WireOK, Next
  PROVE  WireOK'
<1>0. /\ server \in Row /\ server.status \in Status /\ server.accept \in BOOLEAN
      /\ server.cancel \in BOOLEAN /\ server.close \in BOOLEAN
  BY DEF WireOK, Row
<1> DEFINE Said == {<<>>, <<"ARMED">>, <<"CANCELLED">>, <<"CLOSED">>, <<"MISSED">>, <<"PREFLIGHT_REJECTED">>,
                    <<"SUBMITTED">>, <<"SUBMITTED", "FILLED">>, <<"ACCEPTED">>, <<"FILLED">>, <<"ERROR">>,
                    <<"REJECTED">>, <<"ERROR", "CLOSED">>}
<1>1. \A s \in Said : s \in Seq(Phase)
  BY PhaseLists DEF Phase
<1>2. Arming \in Said /\ \A phases \in Outcomes : phases \in Said
  BY DEF Arming, Outcomes
<1>3. CASE UNCHANGED wire
  BY <1>3 DEF wire, WireOK
<1>4. CASE (\E s \in Said : Says(s)) \/ (\E s \in Said : Report(s))
  BY <1>1, <1>4, SaysKeeps, ReportKeeps
<1>5. CASE \E phases \in Outcomes : Says(Arming \o phases)
  <2>1. PICK phases \in Outcomes : Says(Arming \o phases)
    BY <1>5
  <2>2. Arming \o phases \in Seq(Phase)
    BY <1>1, <1>2, ConcatProperties
  <2>3. QED
    BY <2>1, <2>2, SaysKeeps
<1>6. CASE Poll
  <2>1. Swept \in Status
    BY <1>0 DEF Swept, Status
  <2> DEFINE s == IF Listed /\ Swept = "SCHEDULED" THEN "SYNCED" ELSE Swept
  <2>2. s \in Status
    BY <2>1 DEF Status
  <2>3. server' = [server EXCEPT !.status = s]
    BY <1>6 DEF Poll
  <2> HIDE DEF s
  <2>4. server' \in Row
    BY <1>0, <2>2, <2>3 DEF Row
  <2>5. QED
    BY <1>6, <2>4 DEF Poll, WireOK
<1>7. CASE Connect \/ Break \/ Notice
  BY <1>7 DEF Connect, Break, Notice, WireOK
<1>8. CASE UserCancels \/ UserCloses \/ Halt \/ Resume
  <2>1. "CANCELLED" \in Status
    BY DEF Status
  <2>2. server' \in Row
    BY <1>0, <1>8, <2>1 DEF UserCancels, UserCloses, Halt, Resume, Row
  <2>3. QED
    BY <1>8, <2>2 DEF UserCancels, UserCloses, Halt, Resume, WireOK
<1>9. CASE Restart
  <2>1. <<>> \in Seq(Phase) /\ Len(<<>>) = 0
    OBVIOUS
  <2>2. QED
    BY <1>9, <2>1, Numbers DEF Restart, WireOK
<1>10. CASE Jobs
  <2>1. CASE Due
    BY <1>2, <1>4, <1>5, <2>1 DEF Due
  <2>2. QED
    BY <1>2, <1>3, <1>4, <1>10, <2>1 DEF Jobs, NoJob, CloseAsked, CancelAsked, ManagementEnds, Disabled, Retry
<1>11. CASE Basket
  <2>1. CASE Check
    <3>1. Top.phase \in {"CANCELLED", "CLOSED"} \/ UNCHANGED wire
      <4>1. Top \in Handler /\ FrameOK(Top, rt, trouble) /\ Top.at = "check"
        BY <2>1, OpStack DEF Check, At
      <4>2. QED
        BY <4>1 DEF FrameOK, Handler, None
    <3>2. <<Top.phase>> \in Said \/ UNCHANGED wire
      BY <3>1
    <3>3. QED
      BY <1>3, <1>4, <2>1, <3>2 DEF Check
  <2>2. CASE DueAfterRetry
    BY <1>2, <1>3, <1>4, <2>2 DEF DueAfterRetry
  <2>3. CASE CloseAll \/ Place \/ Accepted \/ Rejected \/ Rollback
    BY <1>3, <1>4, <2>3 DEF CloseAll, Place, Accepted, Rejected, Rollback
  <2>4. QED
    BY <1>11, <2>1, <2>2, <2>3 DEF Basket
<1>12. CASE Turn
  BY <1>3, <1>4, <1>12 DEF Turn, TryPlace, MaxReversals, TryReversalOrder, Reversed, Unwind
<1>13. CASE Listen
  BY <1>3, <1>4, <1>13 DEF Listen, HearNothing, FillPlain, FillStarts, Close, FilledHere
<1>14. CASE Broker \/ PauseEnds \/ Tick
  BY <1>3, <1>14 DEF Broker, Fill, StopOrTarget, Expire, PauseEnds, Tick
<1>15. QED
  BY <1>6, <1>7, <1>8, <1>9, <1>10, <1>11, <1>12, <1>13, <1>14 DEF Next, Network, User

Event == {"filled", "closed"} \X Order

AccountOK == /\ order \in [Order -> {None, "pending", "open"}]
             /\ events \in Seq(Event) /\ doubled \subseteq Order

LEMMA WithoutOrders ==
  ASSUME AccountOK, NEW orders
  PROVE  Without(orders) \in [Order -> {None, "pending", "open"}]
  BY DEF AccountOK, Without

\* The events of positions closed.
LEMMA ClosedEvents ==
  ASSUME AccountOK, NEW orders \in SUBSET Order
  PROVE  /\ SetToSeq({<<"closed", o>> : o \in orders}) \in Seq({"closed"} \X Order)
         /\ events \o SetToSeq({<<"closed", o>> : o \in orders}) \in Seq(Event)
<1> DEFINE S == {<<"closed", o>> : o \in orders}
<1>1. S \in SUBSET ({"closed"} \X Order)
  OBVIOUS
<1>2. IsFiniteSet(S)
  BY <1>1, FinitelyMany
<1> HIDE DEF S
<1>3. SetToSeq(S) \in Seq({"closed"} \X Order)
  BY <1>1, <1>2, ListOfSet
<1>4. SetToSeq(S) \in Seq(Event)
  <2>1. S \in SUBSET Event
    BY <1>1 DEF Event
  <2>2. QED
    BY <1>2, <2>1, ListOfSet
<1>5. events \o SetToSeq(S) \in Seq(Event)
  BY <1>4, ConcatProperties DEF AccountOK
<1>6. QED
  BY <1>3, <1>5 DEF S

LEMMA CloseKeeps ==
  ASSUME AccountOK, NEW orders, ClosePositions(orders)
  PROVE  AccountOK'
<1>1. orders \cap Open \in SUBSET Order
  BY DEF Open
<1>2. QED
  BY <1>1, ClosedEvents, WithoutOrders DEF AccountOK, ClosePositions

LEMMA CancelKeeps ==
  ASSUME AccountOK, NEW orders, order' = Without(orders), events' \in Seq(Event), UNCHANGED doubled
  PROVE  AccountOK'
  BY WithoutOrders DEF AccountOK

LEMMA TakeKeeps ==
  ASSUME AccountOK, NEW o \in Order, NEW state \in {"pending", "open"}, Take(o, state)
  PROVE  AccountOK'
  BY DEF AccountOK, Take

LEMMA HearsKeeps ==
  ASSUME AccountOK, NEW kind, NEW o, Hears(kind, o)
  PROVE  events' \in Seq(Event)
  BY HeadTailProperties DEF AccountOK, Hears

\* A report of the market.
LEMMA NewEvent ==
  ASSUME AccountOK, NEW o \in Order, NEW kind \in {"filled", "closed"}, events' = Append(events, <<kind, o>>)
  PROVE  events' \in Seq(Event)
<1>1. <<kind, o>> \in Event
  BY DEF Event
<1>2. QED
  BY <1>1, AppendProperties DEF AccountOK

LEMMA ReversalLegsThere ==
  ASSUME NEW trigger \in Side, NEW i \in 1 .. Levels
  PROVE  /\ ReversalLegs(trigger)[i] = Label("R", Opposite[trigger], i)
         /\ ReversalLegs(trigger)[i] \in Order /\ Opposite[trigger] \in Side /\ Opposite[trigger] # trigger
<1>1. Opposite[trigger] \in Side /\ Opposite[trigger] # trigger
  BY DEF Opposite, Side
<1>2. ReversalLegs(trigger)[i] = Label("R", Opposite[trigger], i)
  BY DEF ReversalLegs
<1>3. Label("R", Opposite[trigger], i) \in Order
  BY <1>1 DEF Label, Order
<1>4. QED
  BY <1>1, <1>2, <1>3

\* The order that the running handler places.
LEMMA NextOrder ==
  ASSUME Core
  PROVE  /\ At("place") => /\ Legs[Top.next] \in Order /\ Legs[Top.next].leg = "I"
                           /\ Top.next \in 1 .. Len(Legs)
         /\ At("reverse") => /\ ReversalLegs(Top.side)[Top.next] \in Order
                             /\ ReversalLegs(Top.side)[Top.next] = Label("R", Opposite[Top.side], Top.next)
                             /\ Top.side \in Side /\ Top.next \in 1 .. Levels
<1>1. CASE At("place")
  <2>1. Top.next \in 1 .. Len(Legs) /\ Top.at = "place"
    BY <1>1, OpStack, LegsThere DEF At, FrameOK, Handler
  <2>2. QED
    BY <2>1, LegsThere DEF At
<1>2. CASE At("reverse")
  <2>1. Top.next \in 1 .. Levels /\ Top.side \in Side /\ Top.at = "reverse"
    BY <1>2, OpStack, Numbers DEF At, FrameOK, Handler, Turning
  <2>2. QED
    BY <2>1, ReversalLegsThere DEF At
<1>3. QED
  BY <1>1, <1>2

LEMMA AccountStep ==
  ASSUME Core, AccountOK, Next
  PROVE  AccountOK'
<1>1. CASE UNCHANGED account
  BY <1>1 DEF account, AccountOK
<1>2. CASE \E orders : Cancel(orders)
  BY <1>2, CancelKeeps DEF Cancel, AccountOK
<1>3. CASE Place
  <2>1. Legs[Top.next] \in Order
    BY <1>3, NextOrder DEF Place
  <2>2. CASE Take(Legs[Top.next], IF mode = "MARKET" THEN "open" ELSE "pending")
    BY <2>1, <2>2, TakeKeeps
  <2>3. QED
    BY <1>1, <1>3, <2>2 DEF Place, Places
<1>4. CASE TryReversalOrder
  <2>1. ReversalLegs(Top.side)[Top.next] \in Order
    BY <1>4, NextOrder DEF TryReversalOrder
  <2>2. CASE \E state \in {"pending", "open"} : Take(ReversalLegs(Top.side)[Top.next], state)
    BY <2>1, <2>2, TakeKeeps
  <2>3. QED
    BY <1>1, <1>4, <2>2 DEF TryReversalOrder, Places
<1>5. CASE \E orders : ClosePositions(orders)
  BY <1>5, CloseKeeps
<1>6. CASE HearNothing
  BY <1>6, HearsKeeps DEF HearNothing, AccountOK
<1>7. ASSUME NEW o \in Order, FillPlain(o) \/ FillStarts(o) \/ Close(o) PROVE AccountOK'
  <2>1. events' \in Seq(Event) /\ UNCHANGED doubled
    BY <1>7, HearsKeeps DEF FillPlain, FillStarts, Close, FilledHere
  <2>2. order' = order \/ \E orders : order' = Without(orders)
    BY <1>7 DEF FillPlain, FillStarts, Close
  <2>3. QED
    BY <2>1, <2>2, CancelKeeps DEF AccountOK
<1>8. ASSUME NEW o \in Order, Fill(o) \/ StopOrTarget(o) \/ Expire(o) PROVE AccountOK'
  BY <1>8, NewEvent DEF Fill, StopOrTarget, Expire, AccountOK
<1>9. CASE Restart
  <2>1. <<>> \in Seq(Event)
    OBVIOUS
  <2>2. QED
    BY <1>9, <2>1 DEF Restart, AccountOK
<1>10. CASE Jobs
  BY <1>1, <1>2, <1>10 DEF Jobs, NoJob, CloseAsked, CancelAsked, ManagementEnds, Disabled, Retry, Due
<1>11. CASE Basket
  BY <1>1, <1>2, <1>3, <1>5, <1>11 DEF Basket, CloseAll, Check, DueAfterRetry, Accepted, Rejected, Rollback, RolledBack
<1>12. CASE Turn
  BY <1>1, <1>2, <1>4, <1>5, <1>12 DEF Turn, TryPlace, MaxReversals, Reversed, Unwind, RolledBack
<1>13. CASE Network \/ User \/ PauseEnds \/ Tick
  BY <1>1, <1>13 DEF Network, User, Poll, Connect, Break, Notice, UserCancels, UserCloses, Halt, Resume, PauseEnds, Tick
<1>14. QED
  BY <1>6, <1>7, <1>8, <1>9, <1>10, <1>11, <1>12, <1>13 DEF Next, Listen, Broker

-----------------------------------------------------------------------------
(* Types.                                                                  *)

TypeInv == Core /\ WireOK /\ AccountOK

LEMMA TypeInit == Init => TypeInv
<1> SUFFICES ASSUME Init PROVE TypeInv
  OBVIOUS
<1>1. WorldOK
  <2>1. /\ mode \in Modes /\ now = 0 /\ nested = FALSE /\ crossed = FALSE /\ restarted = FALSE
        /\ trouble = 0
    BY DEF Init
  <2>2. 0 \in 0 .. 5 /\ 0 \in 0 .. MaxRefused
    BY Numbers
  <2>3. QED
    BY <2>1, <2>2 DEF WorldOK
<1>2. Core
  BY <1>1, CoreFresh DEF Init
<1>3. WireOK
  <2>1. <<>> \in Seq(Phase) /\ Len(<<>>) = 0
    OBVIOUS
  <2>2. server \in Row /\ link = "down" /\ outbox = <<>>
    BY DEF Init, Row, Status
  <2>3. QED
    BY <2>1, <2>2, Numbers DEF WireOK
<1>4. AccountOK
  <2>1. <<>> \in Seq(Event) /\ {} \subseteq Order
    OBVIOUS
  <2>2. order \in [Order -> {None, "pending", "open"}]
    BY DEF Init
  <2>3. QED
    BY <2>1, <2>2 DEF Init, AccountOK
<1>5. QED
  BY <1>2, <1>3, <1>4 DEF TypeInv

LEMMA TypeStep == TypeInv /\ [Next]_vars => TypeInv'
<1> SUFFICES ASSUME TypeInv, [Next]_vars PROVE TypeInv'
  OBVIOUS
<1>1. CASE Next
  BY <1>1, CoreStep, WireStep, AccountStep DEF TypeInv
<1>2. CASE UNCHANGED vars
  <2>1. UNCHANGED <<job, accepting, rt, stack, mode, now, trouble, nested, crossed, restarted>>
    BY <1>2 DEF vars, memory, world
  <2>2. Core'
    <3>1. StoreOK' /\ WorldOK' /\ trouble <= trouble'
      BY <2>1, Numbers DEF TypeInv, Core, StoreOK, WorldOK
    <3>2. QED
      BY <2>1, <3>1, CoreQuiet DEF TypeInv
  <2>3. WireOK' /\ AccountOK'
    BY <1>2 DEF TypeInv, WireOK, AccountOK, vars, wire, account
  <2>4. QED
    BY <2>2, <2>3 DEF TypeInv
<1>3. QED
  BY <1>1, <1>2

LEMMA TypeImplies == TypeInv => TypeOK
<1> SUFFICES ASSUME TypeInv PROVE TypeOK
  OBVIOUS
<1>1. rt \in Runtime
  BY Numbers DEF TypeInv, Core, StoreOK, WorldOK, Counters, Flags, Runtime
<1>2. {accepting, nested, crossed, restarted} \subseteq BOOLEAN
  BY DEF TypeInv, Core, StoreOK, WorldOK
<1>3. QED
  BY <1>1, <1>2 DEF TypeInv, TypeOK, Core, StoreOK, WorldOK, WireOK, AccountOK, Event, Thread, StackOK, Room1

\* Types, and the bounds of what the cBot keeps: the reports that wait are no
\* more than the outbox holds, whatever is refused and however often the
\* connection is lost; a basket is tried once more than it was refused at most;
\* and no more handlers are suspended than the depth of the nested calls allows.
THEOREM TypeCorrect == Spec => []TypeOK
<1>1. Init => TypeInv
  BY TypeInit
<1>2. TypeInv /\ [Next]_vars => TypeInv'
  BY TypeStep
<1>3. TypeInv => TypeOK
  BY TypeImplies
<1>4. QED
  BY <1>1, <1>2, <1>3, PTL DEF Spec

-----------------------------------------------------------------------------
(* What a step does to the orders, the flags and the thread.               *)

LEMMA LegsDiffer ==
  ASSUME NEW i \in 1 .. Len(Legs), NEW j \in 1 .. Len(Legs), i # j
  PROVE  Legs[i] # Legs[j]
<1>1. CASE mode = "MARKET"
  <2>1. Legs = <<Label("I", "BUY", 1)>>
    BY <1>1 DEF Legs
  <2>2. QED
    BY <2>1
<1>2. CASE mode = "STRADDLE"
  <2>1. Legs = <<Label("I", "BUY", 1), Label("I", "SELL", 1)>>
    BY <1>2 DEF Legs
  <2>2. QED
    BY <2>1 DEF Label
<1>3. CASE mode \notin {"MARKET", "STRADDLE"}
  <2>1. Legs = [k \in 1 .. 2 * Levels |-> Label("I", IF k % 2 = 1 THEN "BUY" ELSE "SELL", (k + 1) \div 2)]
    BY <1>3 DEF Legs
  <2>2. i \in 1 .. 2 * Levels /\ j \in 1 .. 2 * Levels
    BY LegsThere, Numbers
  <2>3. SUFFICES ASSUME Legs[i] = Legs[j] PROVE FALSE
    OBVIOUS
  <2>4. /\ Legs[i].side = (IF i % 2 = 1 THEN "BUY" ELSE "SELL") /\ Legs[i].level = (i + 1) \div 2
        /\ Legs[j].side = (IF j % 2 = 1 THEN "BUY" ELSE "SELL") /\ Legs[j].level = (j + 1) \div 2
    BY <2>1, <2>2 DEF Label
  <2>5. (i % 2 = 1 <=> j % 2 = 1) /\ (i + 1) \div 2 = (j + 1) \div 2
    BY <2>3, <2>4
  <2>6. i \in Int /\ j \in Int
    BY <2>2, Numbers
  <2>7. i = j
    BY <2>5, <2>6
  <2>8. QED
    BY <2>7
<1>4. QED
  BY <1>1, <1>2, <1>3

\* Orders are filled, or go.
Fades == /\ doubled' = doubled
         /\ \A o \in Order : \/ order'[o] = order[o] \/ order'[o] = None
                             \/ order[o] = "pending" /\ order'[o] = "open"

LEMMA WithoutFades ==
  ASSUME AccountOK, NEW orders, order' = Without(orders), doubled' = doubled
  PROVE  Fades
  BY DEF AccountOK, Without, Fades

LEMMA AccountFades ==
  ASSUME TypeInv, Next, ~Place, ~TryReversalOrder
  PROVE  Fades
<1>0. AccountOK
  BY DEF TypeInv
<1>1. CASE UNCHANGED <<order, doubled>>
  BY <1>1 DEF Fades
<1>2. CASE \E orders : order' = Without(orders) /\ doubled' = doubled
  BY <1>0, <1>2, WithoutFades
<1>3. CASE \E orders : Cancel(orders) \/ ClosePositions(orders)
  <2>1. \E orders : order' = Without(orders) /\ doubled' = doubled
    BY <1>3 DEF Cancel, ClosePositions
  <2>2. QED
    BY <1>2, <2>1
<1>4. ASSUME NEW o \in Order, FillPlain(o) \/ FillStarts(o) \/ Close(o) PROVE Fades
  BY <1>1, <1>2, <1>4 DEF FillPlain, FillStarts, Close
<1>5. ASSUME NEW o \in Order, Fill(o) \/ StopOrTarget(o) \/ Expire(o) PROVE Fades
  BY <1>0, <1>5 DEF Fill, StopOrTarget, Expire, Fades, AccountOK
<1>6. CASE Jobs
  BY <1>1, <1>3, <1>6 DEF Jobs, NoJob, CloseAsked, CancelAsked, ManagementEnds, Disabled, Retry, Due, account
<1>7. CASE Basket
  BY <1>1, <1>3, <1>7 DEF Basket, CloseAll, Check, DueAfterRetry, Accepted, Rejected, Rollback, RolledBack, account
<1>8. CASE Turn
  BY <1>1, <1>3, <1>8 DEF Turn, TryPlace, MaxReversals, Reversed, Unwind, RolledBack, account
<1>9. CASE Network \/ User \/ PauseEnds \/ Tick \/ Restart \/ HearNothing
  BY <1>1, <1>9 DEF Network, User, Poll, Connect, Break, Notice, UserCancels, UserCloses, Halt, Resume, PauseEnds, Tick,
     Restart, HearNothing, account
<1>10. QED
  BY <1>4, <1>5, <1>6, <1>7, <1>8, <1>9 DEF Next, Listen, Broker

\* An order of a basket is taken by the broker, or refused.
LEMMA PlacesOrder ==
  ASSUME TypeInv, Place
  PROVE  LET o == Legs[Top.next] IN
         /\ o \in Order /\ o.leg = "I" /\ Top.next \in 1 .. Len(Legs)
         /\ \A p \in Order : p # o => order'[p] = order[p]
         /\ doubled' = doubled \/ (order[o] # None /\ doubled' = doubled \cup {o})
<1>1. At("place") /\ Core /\ AccountOK
  BY DEF Place, TypeInv
<1>2. Legs[Top.next] \in Order /\ Legs[Top.next].leg = "I" /\ Top.next \in 1 .. Len(Legs)
  BY <1>1, NextOrder
<1>3. UNCHANGED account \/ \E state : Take(Legs[Top.next], state)
  BY DEF Place, Places
<1>4. QED
  BY <1>1, <1>2, <1>3 DEF Take, account, AccountOK

LEMMA TurnsOrder ==
  ASSUME TypeInv, TryReversalOrder
  PROVE  LET o == Label("R", Opposite[Top.side], Top.next) IN
         /\ o \in Order /\ o.leg = "R" /\ o.side = Opposite[Top.side] /\ Top.side \in Side
         /\ Top.next \in 1 .. Levels
         /\ \A p \in Order : p # o => order'[p] = order[p]
         /\ doubled' = doubled \/ (order[o] # None /\ doubled' = doubled \cup {o})
<1> DEFINE o == Label("R", Opposite[Top.side], Top.next)
<1>1. At("reverse") /\ Core /\ AccountOK
  BY DEF TryReversalOrder, TypeInv
<1>2. o \in Order /\ ReversalLegs(Top.side)[Top.next] = o /\ Top.side \in Side /\ Top.next \in 1 .. Levels
  BY <1>1, NextOrder
<1>3. o.leg = "R" /\ o.side = Opposite[Top.side]
  BY DEF Label
<1>4. UNCHANGED account \/ \E state : Take(o, state)
  BY <1>2 DEF TryReversalOrder, Places
<1> HIDE DEF o
<1>5. QED
  BY <1>1, <1>2, <1>3, <1>4 DEF Take, account, AccountOK, o

\* The flags of the two baskets change in few steps.
LEMMA FlagsStep ==
  ASSUME TypeInv, Next, ~Restart
  PROVE  /\ ~Rollback => (rt.submitted => rt'.submitted)
         /\ ~Reversed => rt'.placed = rt.placed
         /\ ~Reversed /\ ~TryPlace => rt'.reversing = rt.reversing
         /\ \/ Disabled \/ Due \/ DueAfterRetry \/ CloseAll \/ Check \/ Rollback \/ Unwind
            \/ (\E o \in Order : Close(o)) \/ rt'.terminal = rt.terminal
<1>0. rt \in Flags
  BY DEF TypeInv, Core, StoreOK
<1>1. CASE UNCHANGED rt
  BY <1>1
<1>2. CASE rt' = Ends(rt) /\ (Disabled \/ CloseAll \/ Check \/ \E o \in Order : Close(o))
  BY <1>0, <1>2, EndsFlags
<1>3. CASE Due
  <2>1. /\ Armed \in Flags
        /\ Armed.submitted = rt.submitted /\ Armed.reversing = rt.reversing /\ Armed.placed = rt.placed
    BY ArmedFlags DEF TypeInv
  <2>2. \/ \E phases \in Outcomes : rt' = Declined(Armed, phases)
        \/ rt' = Placing(Armed)
    BY <1>3 DEF Due
  <2>3. (rt.submitted => rt'.submitted) /\ rt'.placed = rt.placed /\ rt'.reversing = rt.reversing
    BY <2>1, <2>2, DeclinedFlags, PlacingFlags
  <2>4. QED
    BY <1>3, <2>3
<1>4. CASE DueAfterRetry
  <2>1. \/ \E phases \in Outcomes : rt' = Declined(rt, phases)
        \/ rt' = Placing(rt)
    BY <1>4 DEF DueAfterRetry
  <2>2. (rt.submitted => rt'.submitted) /\ rt'.placed = rt.placed /\ rt'.reversing = rt.reversing
    BY <1>0, <2>1, DeclinedFlags, PlacingFlags
  <2>3. QED
    BY <1>4, <2>2
<1>5. CASE Retry
  BY <1>5, ArmedFlags DEF Retry, TypeInv
<1>6. CASE Accepted \/ Rejected \/ PauseEnds \/ \E o \in Order : FillStarts(o)
  <2>1. /\ rt'.submitted = rt.submitted /\ rt'.placed = rt.placed /\ rt'.reversing = rt.reversing
        /\ rt'.terminal = rt.terminal
    BY <1>0, <1>6 DEF Accepted, Rejected, PauseEnds, FillStarts, Flags
  <2>2. QED
    BY <2>1
<1>7. CASE Rollback
  <2> DEFINE done == [rt EXCEPT !.rollback = FALSE, !.deferred = None]
  <2>1. done \in Flags /\ done.placed = rt.placed /\ done.reversing = rt.reversing
    BY <1>0 DEF Flags
  <2>2. rt' = [done EXCEPT !.submitted = FALSE, !.wait = TRUE] \/ rt' = Ends(done)
    BY <1>7 DEF Rollback
  <2> HIDE DEF done
  <2>3. rt'.placed = rt.placed /\ rt'.reversing = rt.reversing
    BY <2>1, <2>2 DEF Ends, Flags
  <2>4. QED
    BY <1>7, <2>3
<1>8. CASE TryPlace
  <2>1. rt'.submitted = rt.submitted /\ rt'.placed = rt.placed /\ rt'.terminal = rt.terminal
    BY <1>0, <1>8 DEF TryPlace, MaxReversals, Flags
  <2>2. QED
    BY <1>8, <2>1
<1>9. CASE Reversed
  <2>1. rt'.submitted = rt.submitted /\ rt'.terminal = rt.terminal
    BY <1>0, <1>9 DEF Reversed, Flags
  <2>2. QED
    BY <1>9, <2>1
<1>10. CASE Unwind
  <2>1. \/ rt' = [rt EXCEPT !.rollback = FALSE, !.pause = TRUE]
        \/ rt' = [rt EXCEPT !.rollback = FALSE, !.failed = TRUE]
        \/ rt' = [rt EXCEPT !.rollback = FALSE, !.failed = TRUE, !.terminal = TRUE]
    BY <1>0, <1>10 DEF Unwind, Ends, Flags
  <2>2. rt'.submitted = rt.submitted /\ rt'.placed = rt.placed /\ rt'.reversing = rt.reversing
    BY <1>0, <2>1 DEF Flags
  <2>3. QED
    BY <1>10, <2>2
<1>11. CASE Jobs
  BY <1>1, <1>2, <1>3, <1>5, <1>11 DEF Jobs, NoJob, CloseAsked, CancelAsked, ManagementEnds, Disabled
<1>12. CASE Basket
  BY <1>1, <1>2, <1>4, <1>6, <1>7, <1>12 DEF Basket, CloseAll, Check, Place, memory
<1>13. CASE Turn
  BY <1>1, <1>8, <1>9, <1>10, <1>13 DEF Turn, TryReversalOrder, memory
<1>14. CASE Listen
  BY <1>1, <1>2, <1>6, <1>14 DEF Listen, HearNothing, FillPlain, Close, memory
<1>15. CASE Network \/ Broker \/ User \/ Tick
  BY <1>1, <1>15 DEF Network, User, Broker, Poll, Connect, Break, Notice, UserCancels, UserCloses, Halt, Resume, Tick,
     Fill, StopOrTarget, Expire, memory
<1>16. QED
  BY <1>6, <1>11, <1>12, <1>13, <1>14, <1>15 DEF Next

\* Handlers that rely on what the broker holds.
Watched == {"place", "rollback", "check"} \cup Turning \cup {"unwind"}

Inherited == \A i \in 1 .. Len(stack') :
               stack'[i].at \in Watched => i \in 1 .. Len(stack) /\ stack'[i] = stack[i]

\* All but the running handler stay.
Below == /\ Len(stack') = Len(stack) /\ Len(stack) \in Nat \ {0} /\ Top = stack[Len(stack)]
         /\ \A i \in 1 .. Len(stack) : i # Len(stack) => stack'[i] = stack[i]

LEMMA InheritedGrows ==
  ASSUME StackOK, NEW h \in Handler, stack' = Append(stack, h), h.at \notin Watched
  PROVE  Inherited
<1>1. /\ Len(stack) \in Nat /\ Len(stack') = Len(stack) + 1 /\ stack'[Len(stack) + 1] = h
      /\ \A i \in 1 .. Len(stack) : stack'[i] = stack[i]
  BY StackGrows
<1>2. \A i \in 1 .. Len(stack') : i \in 1 .. Len(stack) \/ i = Len(stack) + 1
  BY <1>1
<1>3. QED
  BY <1>1, <1>2 DEF Inherited

LEMMA InheritedReturns ==
  ASSUME StackOK, stack' = stack \/ stack' = <<>> \/ (stack # <<>> /\ Returns)
  PROVE  Inherited
<1>1. CASE stack' = stack
  BY <1>1 DEF Inherited
<1>2. CASE stack' = <<>>
  BY <1>2 DEF Inherited
<1>3. CASE stack # <<>> /\ Returns
  BY <1>3, StackReturns DEF Inherited
<1>4. QED
  BY <1>1, <1>2, <1>3

LEMMA BelowBecomes ==
  ASSUME StackOK, stack # <<>>, NEW h \in Handler, Becomes(h)
  PROVE  Below /\ stack'[Len(stack)] = h
  BY StackBecomes, TopOfStack DEF Below

LEMMA Inherits ==
  ASSUME TypeInv, Next, ~CancelAsked, ~ManagementEnds, ~Due, ~DueAfterRetry, ~Rejected,
         ~Place, ~TryPlace, ~TryReversalOrder, ~Reversed
  PROVE  Inherited
<1>0. StackOK /\ Core /\ rt \in Flags
  BY DEF TypeInv, Core, Thread, StoreOK
<1>1. CASE UNCHANGED stack
  BY <1>0, <1>1, InheritedReturns
<1>2. CASE stack # <<>> /\ Returns
  BY <1>0, <1>2, InheritedReturns
<1>3. CASE CloseAsked
  <2>1. Start("closing") \in Handler /\ Start("closing").at \notin Watched
    BY Started DEF Place0, Watched, Turning
  <2>2. QED
    BY <1>0, <1>3, <2>1, InheritedGrows DEF CloseAsked, Suspend
<1>4. CASE Retry
  <2> DEFINE h == [Start("due") EXCEPT !.since = now]
             k == Begin(rt.trigger)
  <2>1. now \in 0 .. 5 /\ rt.trigger \in Side
    BY <1>0, <1>4 DEF Core, WorldOK, Counters, Retry, RetryDue
  <2>2. h \in Handler /\ h.at = "due"
    <3> DEFINE s == Start("due")
    <3>1. s \in Handler /\ s.at = "due"
      BY Started DEF Place0
    <3>2. h = [s EXCEPT !.since = now]
      OBVIOUS
    <3> HIDE DEF s, h
    <3>3. QED
      BY <2>1, <3>1, <3>2 DEF Handler
  <2>3. k \in Handler /\ k.at = "begin"
    BY <2>1, Begun
  <2>4. stack' = stack \o <<h, k>>
    BY <1>4 DEF Retry
  <2> HIDE DEF h, k
  <2>5. /\ Len(stack) \in Nat /\ Len(stack') = Len(stack) + 2
        /\ stack'[Len(stack) + 1] = h /\ stack'[Len(stack) + 2] = k
        /\ \A i \in 1 .. Len(stack) : stack'[i] = stack[i]
    BY <1>0, <2>2, <2>3, <2>4, StackGrowsByTwo
  <2>6. \A i \in 1 .. Len(stack') : i \in 1 .. Len(stack) \/ i = Len(stack) + 1 \/ i = Len(stack) + 2
    BY <2>5
  <2>7. QED
    BY <2>2, <2>3, <2>5, <2>6 DEF Inherited, Watched, Turning
<1>5. CASE Accepted
  <2>1. Top \in Handler /\ stack # <<>>
    BY <1>0, <1>5, OpStack DEF Accepted, At
  <2> DEFINE h == [Top EXCEPT !.at = "begin", !.side = rt.deferred]
  <2>2. CASE Returns
    BY <1>2, <2>1, <2>2
  <2>3. CASE Becomes(h)
    <3>1. h \in Handler /\ h.at = "begin"
      BY <1>0, <2>1 DEF Handler, Flags
    <3> HIDE DEF h
    <3>2. Below /\ stack'[Len(stack)] = h
      BY <1>0, <2>1, <2>3, <3>1, BelowBecomes
    <3>3. QED
      BY <3>1, <3>2 DEF Below, Inherited, Watched, Turning
  <2>4. QED
    BY <1>5, <2>2, <2>3 DEF Accepted
<1>6. ASSUME NEW o \in Order, FillStarts(o) PROVE Inherited
  <2>1. o.side \in Side
    BY DEF Order
  <2>2. Begin(o.side) \in Handler /\ Begin(o.side).at = "begin"
    BY <2>1, Begun
  <2>3. Begin(o.side).at \notin Watched
    BY <2>2 DEF Watched, Turning
  <2>4. QED
    BY <1>0, <1>1, <1>6, <2>2, <2>3, InheritedGrows DEF FillStarts
<1>7. CASE Jobs
  BY <1>1, <1>3, <1>4, <1>7 DEF Jobs, NoJob, Disabled
<1>8. CASE Basket
  BY <1>2, <1>5, <1>8 DEF Basket, CloseAll, Check, Rollback, At
<1>9. CASE Turn
  BY <1>2, <1>9 DEF Turn, Unwind, At
<1>10. CASE Listen
  BY <1>1, <1>6, <1>10 DEF Listen, HearNothing, FillPlain, Close
<1>11. CASE Network \/ Broker \/ User \/ Tick \/ PauseEnds
  BY <1>1, <1>11 DEF Network, User, Broker, Poll, Connect, Break, Notice, UserCancels, UserCloses, Halt, Resume, Tick,
     Fill, StopOrTarget, Expire, PauseEnds
<1>12. CASE Restart
  BY <1>0, <1>12, InheritedReturns DEF Restart
<1>13. QED
  BY <1>7, <1>8, <1>9, <1>10, <1>11, <1>12 DEF Next


\* The running handler is new, or has moved; those below it stay.
NewTop == stack'[Len(stack')]

UnderTop == /\ Len(stack') \in 1 .. Len(stack') /\ NewTop \in Handler
            /\ \A i \in 1 .. Len(stack') :
                 i # Len(stack') => i \in 1 .. Len(stack) /\ stack'[i] = stack[i]

LEMMA Grows ==
  ASSUME StackOK, NEW h \in Handler, stack' = Append(stack, h)
  PROVE  UnderTop /\ NewTop = h
<1>1. /\ Len(stack) \in Nat /\ Len(stack') = Len(stack) + 1 /\ stack'[Len(stack) + 1] = h
      /\ \A i \in 1 .. Len(stack) : stack'[i] = stack[i]
  BY StackGrows
<1>2. NewTop = h /\ Len(stack') \in 1 .. Len(stack')
  BY <1>1 DEF NewTop
<1>3. \A i \in 1 .. Len(stack') : i # Len(stack') => i \in 1 .. Len(stack)
  BY <1>1
<1>4. QED
  BY <1>1, <1>2, <1>3 DEF UnderTop

LEMMA Moves ==
  ASSUME StackOK, stack # <<>>, NEW h \in Handler, Becomes(h)
  PROVE  UnderTop /\ NewTop = h /\ Len(stack') = Len(stack)
<1>1. /\ Len(stack) \in Nat \ {0} /\ Len(stack') = Len(stack) /\ stack'[Len(stack)] = h
      /\ \A i \in 1 .. Len(stack) : i # Len(stack) => stack'[i] = stack[i]
  BY StackBecomes
<1>2. NewTop = h /\ Len(stack') \in 1 .. Len(stack')
  BY <1>1 DEF NewTop
<1>3. QED
  BY <1>1, <1>2 DEF UnderTop

\* The next order of a basket.
LEMMA PlaceStep ==
  ASSUME TypeInv, Place
  PROVE  /\ UnderTop /\ NewTop.at \in {"place", "placed"} /\ Len(stack') = Len(stack)
         /\ NewTop.busy = Top.busy
         /\ NewTop.at = "place" => NewTop.next = Top.next + 1
         /\ stack # <<>> /\ Top = stack[Len(stack)] /\ Top.at = "place"
<1>1. Core /\ StackOK /\ stack # <<>> /\ Top = stack[Len(stack)] /\ Top.at = "place" /\ Top.next \in 1 .. Len(Legs)
  BY OpStack, NextOrder DEF TypeInv, Core, Thread, Place, At
<1> DEFINE last == Top.next = Len(Legs)
<1>2. Places(Legs[Top.next], IF mode = "MARKET" THEN "open" ELSE "pending", last, "placed")
  BY DEF Place
<1>3. last \/ Top.next + 1 \in 1 .. 2 * Levels
  BY <1>1, LegsThere, Numbers
<1> HIDE DEF last
<1>4. last \in BOOLEAN /\ "placed" \in Place0
  BY DEF last, Place0
<1>5. PICK h \in Handler :
        /\ Becomes(h) /\ h.at = (IF last THEN "placed" ELSE Top.at) /\ h.busy = Top.busy
        /\ h.next = (IF last THEN 1 ELSE Top.next + 1)
  BY <1>1, <1>2, <1>3, <1>4, PlacesFrame
<1>6. UnderTop /\ NewTop = h /\ Len(stack') = Len(stack)
  BY <1>1, <1>5, Moves
<1>7. QED
  BY <1>1, <1>5, <1>6

LEMMA TurnStep ==
  ASSUME TypeInv, TryReversalOrder
  PROVE  /\ UnderTop /\ NewTop.at \in {"reverse", "reversed"} /\ Len(stack') = Len(stack)
         /\ NewTop.busy = Top.busy
         /\ NewTop.at = "reverse" => NewTop.next = Top.next + 1
         /\ NewTop.side = Top.side
         /\ stack # <<>> /\ Top = stack[Len(stack)] /\ Top.at = "reverse"
<1>1. Core /\ StackOK /\ stack # <<>> /\ Top = stack[Len(stack)] /\ Top.at = "reverse" /\ Top.next \in 1 .. Levels
  BY OpStack, NextOrder DEF TypeInv, Core, Thread, TryReversalOrder, At
<1> DEFINE last == Top.next = Levels
<1>2. PICK state \in {"pending", "open"} : Places(ReversalLegs(Top.side)[Top.next], state, last, "reversed")
  BY DEF TryReversalOrder
<1>3. last \/ Top.next + 1 \in 1 .. 2 * Levels
  BY <1>1, Numbers
<1> HIDE DEF last
<1>4. last \in BOOLEAN /\ "reversed" \in Place0
  BY DEF last, Place0
<1>5. PICK h \in Handler :
        /\ Becomes(h) /\ h.at = (IF last THEN "reversed" ELSE Top.at) /\ h.side = Top.side
        /\ h.busy = Top.busy /\ h.next = (IF last THEN 1 ELSE Top.next + 1)
  BY <1>1, <1>2, <1>3, <1>4, PlacesFrame
<1>6. UnderTop /\ NewTop = h /\ Len(stack') = Len(stack)
  BY <1>1, <1>5, Moves
<1>7. QED
  BY <1>1, <1>5, <1>6

\* The other steps that put a handler at a place where it relies on the orders.
Rests   == /\ UnderTop /\ (CancelAsked \/ ManagementEnds) /\ NewTop.at = "check"
           /\ ~TryPlace /\ ~Reversed
Basks   == /\ UnderTop /\ NewTop.at = "place" /\ NewTop.next = 1
           /\ ~Exposed /\ order' = order /\ (Due \/ DueAfterRetry) /\ ~TryPlace /\ ~Reversed
Recoils == UnderTop /\ Rejected /\ NewTop.at = "rollback" /\ ~TryPlace /\ ~Reversed
Turns   == /\ UnderTop /\ TryPlace /\ NewTop.at = "reverse" /\ NewTop.next = 1
           /\ ~rt.placed /\ ~rt.reversing /\ order' = order /\ NewTop.side \in Side
           /\ rt'.reversing /\ (~crossed' => \A i \in 1 .. Len(stack) : stack[i].at # "unwind")
Unwinds == /\ UnderTop /\ Reversed /\ NewTop.at = "unwind" /\ ~rt'.reversing /\ rt'.placed = rt.placed
           /\ rt.reversing /\ Cancel(Reversals)
Stays   == /\ Inherited
           /\ TryPlace => rt' = rt
           /\ Reversed => rt'.placed /\ ~rt'.reversing /\ rt.reversing

LEMMA WatchedStep ==
  ASSUME TypeInv, Next, ~Place, ~TryReversalOrder
  PROVE  Stays \/ Rests \/ Basks \/ Recoils \/ Turns \/ Unwinds
<1>0. /\ Core /\ StackOK /\ rt \in Flags
      /\ stack # <<>> => Top \in Handler /\ Top = stack[Len(stack)] /\ FrameOK(Top, rt, trouble)
  BY OpStack DEF TypeInv, Core, Thread, StoreOK
<1>1. CASE (CancelAsked \/ ManagementEnds) /\ ~Reversed /\ ~TryPlace
  <2>1. PICK phase \in {"CANCELLED", "CLOSED"} : stack' = Append(stack, [Start("check") EXCEPT !.phase = phase])
    BY <1>1 DEF CancelAsked, ManagementEnds, Suspend
  <2> DEFINE h == [Start("check") EXCEPT !.phase = phase]
  <2>2. h \in Handler /\ h.at = "check"
    BY CheckStarts
  <2> HIDE DEF h
  <2>3. UnderTop /\ NewTop = h
    BY <1>0, <2>1, <2>2, Grows DEF h
  <2>4. QED
    BY <1>1, <2>2, <2>3 DEF Rests
<1>2. CASE Due /\ ~Reversed /\ ~TryPlace
  <2>1. CASE UNCHANGED stack
    <3>1. Inherited
      BY <1>0, <2>1, InheritedReturns
    <3>2. QED
      BY <1>2, <3>1 DEF Stays
  <2>2. CASE Submits(now) /\ stack' = Append(stack, Start("place"))
    <3>1. Start("place") \in Handler /\ Start("place").at = "place" /\ Start("place").next = 1
      BY Started DEF Place0
    <3>2. UnderTop /\ NewTop = Start("place")
      BY <1>0, <2>2, <3>1, Grows
    <3>3. ~Exposed /\ order' = order
      BY <1>2, <2>2 DEF Submits, Due, account
    <3>4. QED
      BY <1>2, <3>1, <3>2, <3>3 DEF Basks
  <2>3. QED
    BY <1>2, <2>1, <2>2 DEF Due, Suspend
<1>3. CASE DueAfterRetry
  <2>0. stack # <<>> /\ Top.at = "due"
    BY <1>3 DEF DueAfterRetry, At
  <2>1. CASE Returns
    <3>1. Inherited
      BY <1>0, <2>0, <2>1, InheritedReturns
    <3>2. ~Reversed /\ ~TryPlace
      BY <2>0 DEF Reversed, TryPlace, MaxReversals, At
    <3>3. QED
      BY <3>1, <3>2 DEF Stays
  <2>2. CASE Submits(Top.since) /\ Goes("place")
    <3> DEFINE h == [Top EXCEPT !.at = "place"]
    <3>1. h \in Handler /\ h.at = "place" /\ h.next = 1
      BY <1>0, <2>0 DEF Handler, FrameOK
    <3>2. Becomes(h)
      BY <2>2 DEF Goes
    <3> HIDE DEF h
    <3>3. UnderTop /\ NewTop = h
      BY <1>0, <2>0, <3>1, <3>2, Moves
    <3>4. ~Exposed /\ order' = order
      BY <1>3, <2>2 DEF Submits, DueAfterRetry, account
    <3>5. ~Reversed /\ ~TryPlace
      BY <2>0 DEF Reversed, TryPlace, MaxReversals, At
    <3>6. QED
      BY <1>3, <3>1, <3>3, <3>4, <3>5 DEF Basks
  <2>3. QED
    BY <1>3, <2>1, <2>2 DEF DueAfterRetry
<1>4. CASE Rejected
  <2> DEFINE h == [Top EXCEPT !.at = "rollback"]
  <2>1. stack # <<>> /\ Becomes(h)
    BY <1>4 DEF Rejected, At, Goes
  <2>2. h \in Handler /\ h.at = "rollback"
    BY <1>0, <2>1 DEF Handler
  <2> HIDE DEF h
  <2>3. UnderTop /\ NewTop = h
    BY <1>0, <2>1, <2>2, Moves
  <2>4. ~Reversed /\ ~TryPlace
    BY <1>4 DEF Rejected, Reversed, TryPlace, MaxReversals, At
  <2>5. QED
    BY <1>4, <2>2, <2>3, <2>4 DEF Recoils
<1>5. CASE TryPlace
  <2>0. stack # <<>> /\ Top.at = "begin"
    BY <1>5 DEF TryPlace, MaxReversals, At
  <2>1. CASE rt.placed \/ rt.reversing
    <3>1. Returns /\ rt' = rt
      BY <1>5, <2>1 DEF TryPlace, MaxReversals
    <3>2. Inherited
      BY <1>0, <2>0, <3>1, InheritedReturns
    <3>3. ~Reversed
      BY <2>0 DEF Reversed, At
    <3>4. QED
      BY <3>1, <3>2, <3>3 DEF Stays
  <2>2. CASE ~rt.placed /\ ~rt.reversing
    <3> DEFINE h == [Top EXCEPT !.at = "reverse", !.next = 1, !.got = "all"]
    <3>1. rt' = [rt EXCEPT !.reversing = TRUE, !.trigger = Top.side, !.tries = @ + 1] /\ Becomes(h)
      BY <1>5, <2>2 DEF TryPlace, MaxReversals
    <3>2. /\ h \in Handler /\ h.at = "reverse" /\ h.side = Top.side /\ h.next = 1
      BY <1>0, <2>0, Numbers DEF Handler
    <3> HIDE DEF h
    <3>3. UnderTop /\ NewTop = h
      BY <1>0, <2>0, <3>1, <3>2, Moves
    <3>4. Top.side \in Side
      BY <1>0, <2>0 DEF FrameOK
    <3>5. rt'.reversing /\ order' = order
      BY <1>0, <1>5, <3>1 DEF Flags, TryPlace, MaxReversals, account
    <3>6. crossed' = (crossed \/ \E i \in DOMAIN stack : stack[i].at = "unwind")
      BY <1>5, <2>2 DEF TryPlace, MaxReversals
    <3>7. ~crossed' => \A i \in 1 .. Len(stack) : stack[i].at # "unwind"
      BY <1>0, <3>6, LenProperties DEF StackOK
    <3>8. QED
      BY <1>5, <2>2, <3>2, <3>3, <3>4, <3>5, <3>7 DEF Turns
  <2>3. QED
    BY <2>1, <2>2
<1>6. CASE Reversed
  <2>0. stack # <<>> /\ Top.at = "reversed" /\ rt.reversing
    BY <1>0, <1>6 DEF Reversed, At, FrameOK, Turning
  <2>1. CASE Top.got = "all"
    <3>1. Returns /\ rt'.placed /\ ~rt'.reversing
      BY <1>0, <1>6, <2>1 DEF Reversed, Flags
    <3>2. Inherited
      BY <1>0, <2>0, <3>1, InheritedReturns
    <3>3. ~TryPlace
      BY <2>0 DEF TryPlace, MaxReversals, At
    <3>4. QED
      BY <2>0, <3>1, <3>2, <3>3 DEF Stays
  <2>2. CASE Top.got # "all"
    <3> DEFINE h == [Top EXCEPT !.at = "unwind"]
    <3>1. Becomes(h) /\ ~rt'.reversing /\ rt'.placed = rt.placed /\ Cancel(Reversals)
      BY <1>0, <1>6, <2>2 DEF Reversed, Goes, Flags
    <3>2. h \in Handler /\ h.at = "unwind"
      BY <1>0, <2>0 DEF Handler
    <3> HIDE DEF h
    <3>3. UnderTop /\ NewTop = h
      BY <1>0, <2>0, <3>1, <3>2, Moves
    <3>4. QED
      BY <1>6, <2>0, <3>1, <3>2, <3>3 DEF Unwinds
  <2>3. QED
    BY <2>1, <2>2
<1>7. CASE ~CancelAsked /\ ~ManagementEnds /\ ~Due /\ ~DueAfterRetry /\ ~Rejected /\ ~TryPlace /\ ~Reversed
  BY <1>7, Inherits DEF Stays
<1>8. QED
  BY <1>1, <1>2, <1>3, <1>4, <1>5, <1>6, <1>7

-----------------------------------------------------------------------------
(* The initial orders.                                                     *)

Entries == {o \in Order : o.leg = "I"}

\* The orders a basket has still to place are not at the broker.
AheadIsFree == \A i \in 1 .. Len(stack) :
                 stack[i].at = "place" => \A k \in stack[i].next .. Len(Legs) : order[Legs[k]] = None

\* The orders have been cancelled while their positions are closed or looked for.
EntriesGo == \A i \in 1 .. Len(stack) :
               stack[i].at \in {"rollback", "check"} => Pending \cap Entries = {}

NoEntryYet == ~restarted /\ ~rt.submitted => Live \cap Entries = {}

\* No handler of the timer is suspended over the end of the job.
EndIsIdle == rt.terminal /\ ~nested => \A i \in 1 .. Len(stack) : ~stack[i].busy

OnlyReversals == \A o \in doubled : o.leg = "R"

EntryInv == AheadIsFree /\ EntriesGo /\ NoEntryYet /\ EndIsIdle /\ OnlyReversals /\ EndLeavesNoEntry

LEMMA FadesEntries ==
  ASSUME AccountOK, Fades
  PROVE  /\ Live' \subseteq Live
         /\ Pending' \subseteq Pending
  BY DEF AccountOK, Fades, Live, Pending, Open, None

LEMMA TypePrime ==
  ASSUME TypeInv, Next
  PROVE  TypeInv' /\ AccountOK /\ AccountOK' /\ Core /\ Core' /\ StackOK /\ StackOK' /\ rt \in Flags /\ rt' \in Flags
  BY TypeStep DEF TypeInv, Core, Thread, StoreOK

\* The mode stays.
LEMMA ModeStays ==
  ASSUME Next
  PROVE  mode' = mode /\ Legs' = Legs
<1>1. mode' = mode
  <2>1. CASE UNCHANGED world
    BY <2>1 DEF world
  <2>2. CASE Jobs
    BY <2>2 DEF Jobs, NoJob, CloseAsked, CancelAsked, ManagementEnds, Disabled, Retry, Due, Pass, world
  <2>3. CASE Basket
    BY <2>3 DEF Basket, CloseAll, Check, DueAfterRetry, Place, Accepted, Rejected, Rollback, world
  <2>4. CASE Turn
    BY <2>4 DEF Turn, TryPlace, MaxReversals, TryReversalOrder, Reversed, Unwind, world
  <2>5. CASE Listen
    BY <2>5 DEF Listen, HearNothing, FillPlain, FillStarts, Close, world
  <2>6. CASE Network \/ User \/ Broker
    BY <2>6 DEF Network, User, Broker, Poll, Connect, Break, Notice, UserCancels, UserCloses, Halt, Resume, Fill, StopOrTarget,
       Expire, world
  <2>7. QED
    BY <2>1, <2>2, <2>3, <2>4, <2>5, <2>6 DEF Next, Restart, PauseEnds, Tick
<1>2. QED
  BY <1>1 DEF Legs

\* ClosePositions of everything leaves what is pending.
LEMMA AllClosed ==
  ASSUME AccountOK, ClosePositions(Order)
  PROVE  Open' = {} /\ Pending' = Pending /\ Live' = Pending
  BY DEF AccountOK, ClosePositions, Without, Open, Pending, Live, None

LEMMA AllCancelled ==
  ASSUME AccountOK, Cancel(Order)
  PROVE  Pending' = {} /\ Live' = Open
  BY DEF AccountOK, Cancel, Without, Open, Pending, Live, None

\* What has been noted stays noted.
LEMMA HistoryStays ==
  ASSUME TypeInv, Next
  PROVE  (restarted => restarted') /\ (nested => nested') /\ (crossed => crossed')
<1>0. nested \in BOOLEAN /\ crossed \in BOOLEAN
  BY DEF TypeInv, Core, WorldOK
<1>1. CASE UNCHANGED world
  BY <1>1 DEF world
<1>2. CASE Jobs
  BY <1>1, <1>2 DEF Jobs, NoJob, CloseAsked, CancelAsked, ManagementEnds, Disabled, Retry, Due, Pass
<1>3. CASE Basket
  BY <1>1, <1>3 DEF Basket, CloseAll, Check, DueAfterRetry, Place, Accepted, Rejected, Rollback
<1>4. CASE Turn
  BY <1>0, <1>1, <1>4 DEF Turn, TryPlace, MaxReversals, TryReversalOrder, Reversed, Unwind
<1>5. CASE Listen
  <2>1. ASSUME NEW o \in Order, Close(o)
        PROVE  restarted' = restarted /\ (nested => nested') /\ crossed' = crossed
    BY <1>0, <2>1 DEF Close
  <2>2. ASSUME NEW o \in Order, FillPlain(o) \/ FillStarts(o) PROVE UNCHANGED world
    BY <2>2 DEF FillPlain, FillStarts
  <2>3. CASE HearNothing
    BY <1>1, <2>3 DEF HearNothing
  <2>4. QED
    BY <1>1, <1>5, <2>1, <2>2, <2>3 DEF Listen
<1>6. CASE Network \/ User
  BY <1>1, <1>6 DEF Network, User, Poll, Connect, Break, Notice, UserCancels, UserCloses, Halt, Resume
<1>7. CASE Broker
  BY <1>1, <1>7 DEF Broker, Fill, StopOrTarget, Expire
<1>8. CASE Restart \/ PauseEnds \/ Tick
  BY <1>1, <1>8 DEF Restart, PauseEnds, Tick
<1>9. QED
  BY <1>2, <1>3, <1>4, <1>5, <1>6, <1>7, <1>8 DEF Next

LEMMA FrameAt ==
  ASSUME TypeInv, NEW i \in 1 .. Len(stack)
  PROVE  /\ stack[i] \in Handler /\ FrameOK(stack[i], rt, trouble)
         /\ \A k \in stack[i].next .. Len(Legs) : k \in 1 .. Len(Legs) /\ Legs[k] \in Entries
<1>1. stack[i] \in Handler /\ FrameOK(stack[i], rt, trouble)
  BY ElementOfSeq DEF TypeInv, Core, Thread, Frames, StackOK
<1>2. \A k \in stack[i].next .. Len(Legs) : k \in 1 .. Len(Legs)
  BY <1>1, LegsThere, Numbers DEF Handler
<1>3. QED
  BY <1>1, <1>2, LegsThere DEF Entries

\* One handler of the timer: beside the running one there is no other.
LEMMA AloneAtTop ==
  ASSUME TypeInv, stack # <<>>, Top.at \in Initial, NEW i \in 1 .. Len(stack), i # Len(stack)
  PROVE  stack[i].at \notin Initial /\ ~stack[i].busy
<1>1. Len(stack) \in 1 .. Len(stack) /\ Top = stack[Len(stack)] /\ FrameOK(Top, rt, trouble) /\ OneBusy
  BY OpStack DEF TypeInv, Core, Thread
<1>2. Top.busy
  BY <1>1 DEF FrameOK
<1>3. FrameOK(stack[i], rt, trouble)
  BY FrameAt
<1>4. QED
  BY <1>1, <1>2, <1>3 DEF OneBusy, FrameOK

\* The basket starts on an account that holds nothing.
LEMMA AheadStep ==
  ASSUME TypeInv, EntryInv, Next
  PROVE  AheadIsFree'
<1>0. /\ AccountOK /\ AccountOK' /\ Core /\ StackOK /\ Legs' = Legs /\ AheadIsFree
  BY TypePrime, ModeStays DEF EntryInv
<1>1. SUFFICES ASSUME NEW i \in 1 .. Len(stack'), stack'[i].at = "place", NEW k \in stack'[i].next .. Len(Legs)
               PROVE  order'[Legs[k]] = None
  BY <1>0 DEF AheadIsFree
<1>2. CASE Place
  <2>1. /\ UnderTop /\ Len(stack') = Len(stack) /\ (NewTop.at = "place" => NewTop.next = Top.next + 1)
        /\ stack # <<>> /\ Top = stack[Len(stack)] /\ Top.at = "place"
    BY <1>2, PlaceStep
  <2>2. i = Len(stack')
    <3>1. Top.at \in Initial
      BY <2>1 DEF Initial
    <3>2. i # Len(stack') => stack'[i].at \notin Initial
      BY <2>1, <3>1, AloneAtTop DEF UnderTop
    <3>3. QED
      BY <1>1, <3>2 DEF Initial
  <2>3. stack'[i].next = Top.next + 1 /\ Len(stack) \in 1 .. Len(stack)
    BY <1>1, <2>1, <2>2 DEF NewTop, UnderTop
  <2>4. /\ Legs[Top.next] \in Order /\ Top.next \in 1 .. Len(Legs)
        /\ \A p \in Order : p # Legs[Top.next] => order'[p] = order[p]
    BY <1>2, PlacesOrder
  <2>5. k \in Top.next .. Len(Legs) /\ k # Top.next /\ k \in 1 .. Len(Legs)
    BY <2>3, <2>4, LegsThere, Numbers
  <2>6. order[Legs[k]] = None
    BY <1>0, <2>1, <2>3, <2>5 DEF AheadIsFree
  <2>7. Legs[k] \in Order /\ Legs[k] # Legs[Top.next]
    BY <2>4, <2>5, LegsDiffer, LegsThere
  <2>8. QED
    BY <2>4, <2>6, <2>7
<1>3. CASE TryReversalOrder
  <2>1. /\ UnderTop /\ NewTop.at # "place"
    BY <1>3, TurnStep
  <2>2. i \in 1 .. Len(stack) /\ stack'[i] = stack[i]
    BY <1>1, <2>1 DEF UnderTop, NewTop
  <2>3. order[Legs[k]] = None /\ Legs[k] \in Order /\ Legs[k].leg = "I"
    BY <1>0, <1>1, <2>2, FrameAt DEF AheadIsFree, Entries
  <2>4. order'[Legs[k]] = order[Legs[k]]
    BY <1>3, <2>3, TurnsOrder
  <2>5. QED
    BY <2>3, <2>4
<1>4. CASE ~Place /\ ~TryReversalOrder
  <2>1. Fades
    BY <1>4, AccountFades
  <2>2. CASE i \in 1 .. Len(stack) /\ stack'[i] = stack[i]
    <3>1. order[Legs[k]] = None /\ Legs[k] \in Order
      BY <1>0, <1>1, <2>2, FrameAt DEF AheadIsFree, Entries
    <3>2. QED
      BY <2>1, <3>1 DEF Fades, None
  <2>3. CASE Inherited
    BY <1>1, <2>2, <2>3 DEF Inherited, Watched
  <2>4. CASE UnderTop /\ NewTop.at # "place"
    BY <1>1, <2>2, <2>4 DEF UnderTop, NewTop
  <2>5. CASE Basks
    <3>1. CASE i # Len(stack')
      BY <2>2, <2>5, <3>1 DEF Basks, UnderTop
    <3>2. CASE i = Len(stack')
      <4>1. stack'[i].next = 1
        BY <2>5, <3>2 DEF Basks, NewTop
      <4>2. k \in 1 .. Len(Legs)
        BY <4>1
      <4>3. Legs[k] \in Order
        BY <4>2, LegsThere
      <4>4. order[Legs[k]] = None
        BY <1>0, <2>5, <4>3 DEF Basks, Exposed, Pending, Open, AccountOK
      <4>5. QED
        BY <2>5, <4>4 DEF Basks
    <3>3. QED
      BY <3>1, <3>2
  <2>6. QED
    BY <1>4, <2>3, <2>4, <2>5, WatchedStep DEF Stays, Rests, Recoils, Turns, Unwinds
<1>5. QED
  BY <1>2, <1>3, <1>4

\* Pending and live initial orders; only Place adds one.
LEMMA EntriesShrink ==
  ASSUME TypeInv, Next, ~Place
  PROVE  /\ Live' \cap Entries \subseteq Live \cap Entries
         /\ Pending' \cap Entries \subseteq Pending \cap Entries
<1>1. CASE TryReversalOrder
  <2>1. \A p \in Order : p.leg = "I" => order'[p] = order[p]
    BY <1>1, TurnsOrder
  <2>2. QED
    BY <2>1 DEF Live, Pending, Open, Entries
<1>2. CASE ~TryReversalOrder
  BY <1>2, AccountFades, FadesEntries, TypePrime
<1>3. QED
  BY <1>1, <1>2

LEMMA EntriesGoStep ==
  ASSUME TypeInv, EntryInv, Next
  PROVE  EntriesGo'
<1>0. AccountOK /\ EntriesGo
  BY TypePrime DEF EntryInv
<1>1. SUFFICES ASSUME NEW i \in 1 .. Len(stack'), stack'[i].at \in {"rollback", "check"}
               PROVE  Pending' \cap Entries = {}
  BY DEF EntriesGo, Entries
<1>2. CASE Place
  <2>1. /\ UnderTop /\ NewTop.at \in {"place", "placed"} /\ Len(stack') = Len(stack)
        /\ stack # <<>> /\ Top.at = "place"
    BY <1>2, PlaceStep
  <2>2. Top.at \in Initial
    BY <2>1 DEF Initial
  <2>3. i # Len(stack') => stack'[i].at \notin Initial
    BY <2>1, <2>2, AloneAtTop DEF UnderTop
  <2>4. i = Len(stack')
    BY <1>1, <2>3 DEF Initial
  <2>5. QED
    BY <1>1, <2>1, <2>4 DEF NewTop
<1>3. CASE ~Place /\ i \in 1 .. Len(stack) /\ stack'[i] = stack[i]
  BY <1>0, <1>1, <1>3, EntriesShrink DEF EntriesGo
<1>4. CASE TryReversalOrder /\ ~Place
  <2>1. UnderTop /\ NewTop.at \in {"reverse", "reversed"}
    BY <1>4, TurnStep
  <2>2. QED
    BY <1>1, <1>3, <1>4, <2>1 DEF UnderTop, NewTop
<1>5. CASE ~Place /\ ~TryReversalOrder
  <2>1. CASE Inherited
    BY <1>1, <1>3, <1>5, <2>1 DEF Inherited, Watched
  <2>2. CASE UnderTop /\ NewTop.at \notin {"rollback", "check"}
    BY <1>1, <1>3, <1>5, <2>2 DEF UnderTop, NewTop
  <2>3. CASE Rests \/ Recoils
    <3>1. Cancel(Order)
      BY <2>3 DEF Rests, Recoils, CancelAsked, ManagementEnds, Rejected
    <3>2. QED
      BY <1>0, <3>1, AllCancelled
  <2>4. QED
    BY <1>5, <2>1, <2>2, <2>3, WatchedStep DEF Stays, Rests, Basks, Recoils, Turns, Unwinds
<1>6. QED
  BY <1>2, <1>4, <1>5

\* A job that has not submitted has no initial order: its rollback is complete.
LEMMA NoEntryStep ==
  ASSUME TypeInv, EntryInv, Next
  PROVE  NoEntryYet'
<1>0. AccountOK /\ Core /\ NoEntryYet /\ EntriesGo
  BY TypePrime DEF EntryInv
<1>1. SUFFICES ASSUME ~restarted', ~rt'.submitted PROVE Live' \cap Entries = {}
  BY DEF NoEntryYet, Entries
<1>2. ~restarted /\ ~Restart
  BY <1>1, HistoryStays DEF Restart
<1>3. CASE Place
  <2>1. stack # <<>> /\ Top.at = "place" /\ FrameOK(Top, rt, trouble)
    BY <1>0, <1>3, OpStack DEF Place, At
  <2>2. rt.submitted /\ rt' = rt
    BY <1>3, <2>1 DEF FrameOK, Placement, Place, memory
  <2>3. QED
    BY <1>1, <2>2
<1>4. CASE ~Place /\ ~rt.submitted
  BY <1>0, <1>2, <1>4, EntriesShrink DEF NoEntryYet
<1>5. CASE rt.submitted
  <2>1. Rollback
    BY <1>1, <1>2, <1>5, FlagsStep
  <2>2. At("rollback") /\ ClosePositions(Order)
    BY <2>1 DEF Rollback, RolledBack
  <2>3. Pending \cap Entries = {}
    BY <1>0, <2>2, OpStack DEF At, EntriesGo
  <2>4. QED
    BY <1>0, <2>2, <2>3, AllClosed
<1>6. QED
  BY <1>3, <1>4, <1>5

\* The handlers of the timer start on a job that goes on, or are those there were.
LEMMA BusyStays ==
  ASSUME TypeInv, Next, NEW i \in 1 .. Len(stack'), stack'[i].busy
  PROVE  \/ i \in 1 .. Len(stack) /\ stack[i].busy
         \/ Pass /\ ~rt.terminal /\ rt'.terminal = rt.terminal
<1>0. /\ StackOK /\ Core /\ rt \in Flags
      /\ stack # <<>> => Len(stack) \in 1 .. Len(stack) /\ Top \in Handler /\ Top = stack[Len(stack)]
  BY OpStack DEF TypeInv, Core, Thread, StoreOK
<1>1. CASE UNCHANGED stack
  BY <1>1
<1>2. CASE stack # <<>> /\ Returns
  BY <1>0, <1>2, StackReturns
<1>3. CASE CloseAsked \/ CancelAsked \/ ManagementEnds
  <2>1. Pass /\ ~Settled /\ rt' = rt
    BY <1>3 DEF CloseAsked, CancelAsked, ManagementEnds, Wanted
  <2>2. QED
    BY <2>1 DEF Settled
<1>4. CASE Retry
  <2>1. Pass /\ ~Settled /\ rt'.terminal = rt.terminal
    BY <1>4, ArmedFlags DEF Retry, Wanted, TypeInv
  <2>2. QED
    BY <2>1 DEF Settled
<1>5. CASE Due
  <2>1. CASE rt' = Placing(Armed)
    <3>1. Pass /\ ~Settled
      BY <1>5 DEF Due, Wanted
    <3>2. rt'.terminal = rt.terminal
      BY <2>1, ArmedFlags, PlacingFlags DEF TypeInv
    <3>3. QED
      BY <3>1, <3>2 DEF Settled
  <2>2. QED
    BY <1>1, <1>5, <2>1 DEF Due
<1>6. ASSUME stack # <<>>, NEW h \in Handler, Becomes(h), h.busy = Top.busy
      PROVE  i \in 1 .. Len(stack) /\ stack[i].busy
  BY <1>0, <1>6, StackBecomes
<1>7. CASE DueAfterRetry
  <2>1. Top \in Handler /\ stack # <<>>
    BY <1>0, <1>7 DEF DueAfterRetry, At
  <2>2. CASE Goes("place")
    <3> DEFINE h == [Top EXCEPT !.at = "place"]
    <3>1. h \in Handler /\ h.busy = Top.busy /\ Becomes(h)
      BY <2>1, <2>2 DEF Handler, Goes
    <3> HIDE DEF h
    <3>2. QED
      BY <1>6, <2>1, <3>1
  <2>3. QED
    BY <1>2, <1>7, <2>1, <2>2 DEF DueAfterRetry
<1>8. CASE Rejected
  <2>1. Top \in Handler /\ stack # <<>>
    BY <1>0, <1>8 DEF Rejected, At
  <2> DEFINE h == [Top EXCEPT !.at = "rollback"]
  <2>2. h \in Handler /\ h.busy = Top.busy /\ Becomes(h)
    BY <1>8, <2>1 DEF Handler, Goes, Rejected
  <2> HIDE DEF h
  <2>3. QED
    BY <1>6, <2>1, <2>2
<1>9. CASE Accepted
  <2>1. Top \in Handler /\ stack # <<>>
    BY <1>0, <1>9 DEF Accepted, At
  <2> DEFINE h == [Top EXCEPT !.at = "begin", !.side = rt.deferred]
  <2>2. h \in Handler /\ h.busy = Top.busy
    BY <1>0, <2>1 DEF Handler, Flags
  <2>3. Becomes(h) \/ Returns
    BY <1>9 DEF Accepted
  <2> HIDE DEF h
  <2>4. QED
    BY <1>2, <1>6, <2>1, <2>2, <2>3
<1>10. CASE Place \/ TryReversalOrder
  <2>1. Top \in Handler /\ stack # <<>> /\ Len(stack) \in 1 .. Len(stack)
    BY <1>0, <1>10 DEF Place, TryReversalOrder, At
  <2>2. UnderTop /\ Len(stack') = Len(stack) /\ NewTop.busy = Top.busy
    BY <1>10, PlaceStep, TurnStep
  <2>3. QED
    BY <1>0, <2>1, <2>2 DEF UnderTop, NewTop
<1>11. CASE TryPlace
  <2>1. Top \in Handler /\ stack # <<>>
    BY <1>0, <1>11 DEF TryPlace, MaxReversals, At
  <2> DEFINE h == [Top EXCEPT !.at = "reverse", !.next = 1, !.got = "all"]
  <2>2. h \in Handler /\ h.busy = Top.busy
    BY <2>1, Numbers DEF Handler
  <2>3. Becomes(h) \/ Returns
    BY <1>11 DEF TryPlace, MaxReversals
  <2> HIDE DEF h
  <2>4. QED
    BY <1>2, <1>6, <2>1, <2>2, <2>3
<1>12. CASE Reversed
  <2>1. Top \in Handler /\ stack # <<>>
    BY <1>0, <1>12 DEF Reversed, At
  <2> DEFINE h == [Top EXCEPT !.at = "unwind"]
  <2>2. h \in Handler /\ h.busy = Top.busy
    BY <2>1 DEF Handler
  <2>3. Becomes(h) \/ Returns
    BY <1>12 DEF Reversed, Goes
  <2> HIDE DEF h
  <2>4. QED
    BY <1>2, <1>6, <2>1, <2>2, <2>3
<1>13. ASSUME NEW o \in Order, FillStarts(o) PROVE i \in 1 .. Len(stack) /\ stack[i].busy
  <2>1. Begin(o.side) \in Handler /\ ~Begin(o.side).busy
    BY Begun DEF Order
  <2>2. CASE stack' = Append(stack, Begin(o.side))
    <3>1. /\ Len(stack) \in Nat /\ Len(stack') = Len(stack) + 1 /\ stack'[Len(stack) + 1] = Begin(o.side)
          /\ \A j \in 1 .. Len(stack) : stack'[j] = stack[j]
      BY <1>0, <2>1, <2>2, StackGrows
    <3>2. i \in 1 .. Len(stack) \/ i = Len(stack) + 1
      BY <3>1
    <3>3. QED
      BY <2>1, <3>1, <3>2
  <2>3. QED
    BY <1>1, <1>13, <2>2 DEF FillStarts
<1>14. CASE Jobs
  BY <1>1, <1>3, <1>4, <1>5, <1>14 DEF Jobs, NoJob, Disabled
<1>15. CASE Basket
  BY <1>2, <1>7, <1>8, <1>9, <1>10, <1>15 DEF Basket, CloseAll, Check, Rollback, At
<1>16. CASE Turn
  BY <1>2, <1>10, <1>11, <1>12, <1>16 DEF Turn, Unwind, At
<1>17. CASE Listen
  BY <1>1, <1>13, <1>17 DEF Listen, HearNothing, FillPlain, Close
<1>18. CASE Network \/ Broker \/ User \/ Tick \/ PauseEnds
  BY <1>1, <1>18 DEF Network, User, Broker, Poll, Connect, Break, Notice, UserCancels, UserCloses, Halt, Resume, Tick,
     Fill, StopOrTarget, Expire, PauseEnds
<1>19. CASE Restart
  <2>1. stack' = <<>>
    BY <1>19 DEF Restart
  <2>2. Len(stack') = 0
    BY <2>1
  <2>3. QED
    BY <2>2
<1>20. QED
  BY <1>14, <1>15, <1>16, <1>17, <1>18, <1>19 DEF Next

\* An end is reported by a handler that runs to its end with no other of the
\* timer suspended, or it is noted that another was.
LEMMA IdleStep ==
  ASSUME TypeInv, EntryInv, Next
  PROVE  EndIsIdle'
<1>0. /\ StackOK /\ Core /\ rt \in Flags /\ EndIsIdle /\ Len(stack) \in Nat
  BY OpStack DEF TypeInv, Core, Thread, StoreOK, EntryInv
<1>1. SUFFICES ASSUME rt'.terminal, ~nested', NEW i \in 1 .. Len(stack'), stack'[i].busy PROVE FALSE
  BY DEF EndIsIdle
<1>2. ~nested
  BY <1>1, HistoryStays
<1>3. CASE rt.terminal
  <2>1. i \in 1 .. Len(stack) /\ stack[i].busy
    BY <1>1, <1>3, BusyStays
  <2>2. QED
    BY <1>0, <1>2, <1>3, <2>1 DEF EndIsIdle
<1>4. CASE ~rt.terminal
  <2>1. ~Restart
    BY <1>1 DEF Restart, NewRuntime
  <2>2. rt'.terminal # rt.terminal
    BY <1>1, <1>4
  <2>3. i \in 1 .. Len(stack) /\ stack[i].busy
    BY <1>1, <2>2, BusyStays
  <2>4. ASSUME stack' = stack, Pass PROVE FALSE
    <3>1. i \in DOMAIN stack
      BY <1>0, <2>3, LenProperties DEF StackOK
    <3>2. QED
      BY <2>3, <2>4, <3>1 DEF Pass, Busy
  <2>5. ASSUME stack # <<>>, Returns, Top.at \in Initial PROVE FALSE
    <3>1. i # Len(stack)
      BY <1>0, <1>1, <2>5, StackReturns
    <3>2. QED
      BY <2>3, <2>5, <3>1, AloneAtTop
  <2>6. CASE Disabled
    BY <2>4, <2>6 DEF Disabled
  <2>7. CASE Due
    <3>1. CASE stack' = stack
      BY <2>4, <2>7, <3>1 DEF Due
    <3>2. CASE rt' = Placing(Armed)
      <4>1. rt'.terminal = rt.terminal
        BY <3>2, ArmedFlags, PlacingFlags DEF TypeInv
      <4>2. QED
        BY <2>2, <4>1
    <3>3. QED
      BY <2>7, <3>1, <3>2 DEF Due
  <2>8. CASE DueAfterRetry
    <3>1. CASE Returns
      BY <2>5, <2>8, <3>1 DEF DueAfterRetry, At, Initial
    <3>2. CASE rt' = Placing(rt)
      BY <1>0, <2>2, <3>2, PlacingFlags
    <3>3. QED
      BY <2>8, <3>1, <3>2 DEF DueAfterRetry
  <2>9. CASE CloseAll \/ Check \/ Rollback
    BY <2>5, <2>9 DEF CloseAll, Check, Rollback, At, Initial
  <2>10. CASE Unwind
    <3>1. stack # <<>> /\ Returns /\ (nested' = (nested \/ Len(stack) > 1) \/ rt'.terminal = rt.terminal)
      <4>1. \/ rt' = [rt EXCEPT !.rollback = FALSE, !.pause = TRUE]
            \/ rt' = [rt EXCEPT !.rollback = FALSE, !.failed = TRUE]
            \/ nested' = (nested \/ Len(stack) > 1)
        BY <2>10 DEF Unwind
      <4>2. QED
        BY <1>0, <2>10, <4>1 DEF Unwind, At, Flags
    <3>2. ~(Len(stack) > 1)
      BY <1>1, <1>2, <2>2, <3>1
    <3>3. Len(stack') = Len(stack) - 1
      BY <1>0, <3>1, StackReturns
    <3>4. QED
      BY <1>0, <1>1, <3>2, <3>3
  <2>11. ASSUME NEW o \in Order, Close(o) PROVE FALSE
    <3>1. nested' = (nested \/ stack # <<>>)
      BY <2>2, <2>11 DEF Close
    <3>2. stack = <<>>
      BY <1>1, <3>1
    <3>3. Len(stack) = 0
      BY <3>2
    <3>4. QED
      BY <2>3, <3>3
  <2>12. QED
    BY <2>1, <2>2, <2>6, <2>7, <2>8, <2>9, <2>10, <2>11, FlagsStep
<1>5. QED
  BY <1>3, <1>4

LEMMA OnlyReversalsStep ==
  ASSUME TypeInv, EntryInv, Next
  PROVE  OnlyReversals'
<1>0. OnlyReversals /\ AheadIsFree
  BY DEF EntryInv
<1>1. CASE Place
  <2>1. stack # <<>> /\ Top = stack[Len(stack)] /\ Top.at = "place" /\ Len(stack) \in 1 .. Len(stack)
    BY <1>1, PlaceStep, OpStack DEF TypeInv
  <2>2. Top.next \in 1 .. Len(Legs)
    BY <1>1, PlacesOrder
  <2>3. Top.next \in Top.next .. Len(Legs)
    BY <2>2, LegsThere, Numbers
  <2>4. order[Legs[Top.next]] = None
    BY <1>0, <2>1, <2>3 DEF AheadIsFree
  <2>5. doubled' = doubled
    BY <1>1, <2>4, PlacesOrder
  <2>6. QED
    BY <1>0, <2>5 DEF OnlyReversals
<1>2. CASE TryReversalOrder
  BY <1>0, <1>2, TurnsOrder DEF OnlyReversals
<1>3. CASE ~Place /\ ~TryReversalOrder
  BY <1>0, <1>3, AccountFades DEF OnlyReversals, Fades
<1>4. QED
  BY <1>1, <1>2, <1>3

LEMMA EndStep ==
  ASSUME TypeInv, EntryInv, Next
  PROVE  EndLeavesNoEntry'
<1>0. /\ AccountOK /\ Core /\ rt \in Flags /\ EndIsIdle /\ EntriesGo /\ NoEntryYet /\ EndLeavesNoEntry
  BY TypePrime DEF EntryInv
<1>1. SUFFICES ASSUME rt'.terminal, ~restarted', ~nested' PROVE Live' \cap Entries = {}
  <2>1. \A o \in Live' : o \in Order /\ (o.leg = "I" \/ o.leg = "R")
    BY DEF Live, Pending, Open, Order
  <2>2. QED
    BY <1>1, <2>1 DEF EndLeavesNoEntry, Entries
<1>2. ~nested /\ ~restarted /\ ~Restart
  BY <1>1, HistoryStays DEF Restart
<1>3. CASE rt.terminal
  <2>1. Live \cap Entries = {}
    BY <1>0, <1>2, <1>3 DEF EndLeavesNoEntry, Entries
  <2>2. ~Place
    <3>1. SUFFICES ASSUME Place PROVE FALSE
      OBVIOUS
    <3>2. Len(stack) \in 1 .. Len(stack) /\ stack[Len(stack)].busy
      BY <1>0, <3>1, OpStack DEF Place, At, FrameOK, Initial
    <3>3. QED
      BY <1>0, <1>2, <1>3, <3>2 DEF EndIsIdle
  <2>3. QED
    BY <2>1, <2>2, EntriesShrink
<1>4. CASE ~rt.terminal
  <2>1. rt'.terminal # rt.terminal
    BY <1>1, <1>4
  <2>2. ASSUME ~rt.submitted, UNCHANGED order PROVE Live' \cap Entries = {}
    BY <1>0, <1>2, <2>2 DEF NoEntryYet, Live, Pending, Open
  <2>3. CASE Disabled
    BY <2>1, <2>2, <2>3 DEF Disabled, account
  <2>4. ASSUME NEW r \in Flags, NEW t, NEW phases \in Outcomes, Declines(t, phases),
               rt' = Declined(r, phases), r.terminal = rt.terminal, UNCHANGED order
        PROVE  Live' \cap Entries = {}
    <3>1. CASE NotYet(t) /\ phases = <<>>
      BY <2>1, <2>4, <3>1 DEF Declined
    <3>2. CASE phases = <<"SUBMITTED">>
      <4>1. phases # <<>>
        BY <3>2
      <4>2. rt' = Submitted(r)
        BY <2>4, <3>2, <4>1 DEF Declined
      <4>3. QED
        BY <2>1, <2>4, <4>2 DEF Submitted, Flags
    <3>3. CASE ~NotYet(t)
      BY <2>2, <2>4, <3>3 DEF NotYet
    <3>4. QED
      BY <2>4, <3>1, <3>2, <3>3 DEF Declines, Late, InTime
  <2>5. CASE Due
    <3>1. CASE rt' = Placing(Armed)
      BY <2>1, <3>1, ArmedFlags, PlacingFlags DEF TypeInv
    <3>2. Armed \in Flags /\ Armed.terminal = rt.terminal /\ UNCHANGED order
      BY <2>5, ArmedFlags DEF TypeInv, Due, account
    <3>3. QED
      BY <2>4, <2>5, <3>1, <3>2 DEF Due
  <2>6. CASE DueAfterRetry
    <3>1. CASE rt' = Placing(rt)
      BY <1>0, <2>1, <3>1, PlacingFlags
    <3>2. UNCHANGED order
      BY <2>6 DEF DueAfterRetry, account
    <3>3. QED
      BY <1>0, <2>4, <2>6, <3>1, <3>2 DEF DueAfterRetry
  <2>7. CASE CloseAll
    BY <1>0, <2>1, <2>7, AllClosed DEF CloseAll
  <2>8. CASE Check
    <3>1. Open = {} /\ UNCHANGED order
      BY <2>1, <2>8 DEF Check, account
    <3>2. Pending \cap Entries = {}
      BY <1>0, <2>8, OpStack DEF Check, At, EntriesGo
    <3>3. QED
      BY <3>1, <3>2 DEF Live, Pending, Open
  <2>9. CASE Rollback
    <3>1. At("rollback") /\ ClosePositions(Order)
      BY <2>9 DEF Rollback, RolledBack
    <3>2. Pending \cap Entries = {}
      BY <1>0, <3>1, OpStack DEF At, EntriesGo
    <3>3. QED
      BY <1>0, <3>1, <3>2, AllClosed
  <2>10. CASE Unwind
    <3>1. Pending = {} /\ Open \subseteq Reversals
      <4>1. \/ rt' = [rt EXCEPT !.rollback = FALSE, !.pause = TRUE]
            \/ rt' = [rt EXCEPT !.rollback = FALSE, !.failed = TRUE]
            \/ Pending = {} /\ Open \subseteq Reversals
        BY <2>10 DEF Unwind
      <4>2. QED
        BY <1>0, <2>1, <4>1 DEF Flags
    <3>2. Live \cap Entries = {}
      BY <3>1 DEF Live, Reversals, Entries
    <3>3. ~Place
      BY <2>10 DEF Place, Unwind, At
    <3>4. QED
      BY <3>2, <3>3, EntriesShrink
  <2>11. ASSUME NEW o \in Order, Close(o) PROVE Live' \cap Entries = {}
    <3>1. ~Exposed /\ UNCHANGED order
      BY <2>1, <2>11 DEF Close
    <3>2. QED
      BY <3>1 DEF Exposed, Live, Pending, Open
  <2>12. QED
    BY <1>2, <2>1, <2>3, <2>5, <2>6, <2>7, <2>8, <2>9, <2>10, <2>11, FlagsStep
<1>5. QED
  BY <1>3, <1>4

LEMMA EntryStep == TypeInv /\ EntryInv /\ [Next]_vars => EntryInv'
<1> SUFFICES ASSUME TypeInv, EntryInv, [Next]_vars PROVE EntryInv'
  OBVIOUS
<1>1. CASE Next
  BY <1>1, AheadStep, EntriesGoStep, NoEntryStep, IdleStep, OnlyReversalsStep, EndStep DEF EntryInv
<1>2. CASE UNCHANGED vars
  <2>1. UNCHANGED <<rt, stack, mode, nested, restarted, order, doubled>>
    BY <1>2 DEF vars, memory, world, account
  <2>2. QED
    BY <2>1 DEF EntryInv, AheadIsFree, EntriesGo, NoEntryYet, EndIsIdle, OnlyReversals, EndLeavesNoEntry, Legs,
       Live, Pending, Open
<1>3. QED
  BY <1>1, <1>2

LEMMA EntryInit == Init => EntryInv
<1> SUFFICES ASSUME Init PROVE EntryInv
  OBVIOUS
<1>1. Len(stack) = 0 /\ ~rt.terminal /\ doubled = {}
  BY DEF Init, NewRuntime
<1>2. Live = {}
  BY DEF Init, Live, Pending, Open, None
<1>3. QED
  BY <1>1, <1>2 DEF EntryInv, AheadIsFree, EntriesGo, NoEntryYet, EndIsIdle, OnlyReversals, EndLeavesNoEntry

\* Once the end of a job is reported, none of its initial orders or positions is
\* left at the broker: whatever was refused, filled or closed meanwhile and in
\* whatever order the handlers ran, unless the cBot was restarted or the end was
\* reported by a handler that ran while another of the job was suspended.
THEOREM EndIsClean == Spec => []EndLeavesNoEntry
<1>1. Init => TypeInv /\ EntryInv
  BY TypeInit, EntryInit
<1>2. TypeInv /\ EntryInv /\ [Next]_vars => (TypeInv /\ EntryInv)'
  BY TypeStep, EntryStep
<1>3. EntryInv => EndLeavesNoEntry
  BY DEF EntryInv
<1>4. QED
  BY <1>1, <1>2, <1>3, PTL DEF Spec

-----------------------------------------------------------------------------
(* The reversal orders.                                                    *)

Turned    == Live \cap Reversals
Unwinding == \E i \in 1 .. Len(stack) : stack[i].at = "unwind"

PlacedOnce == rt.placed => ~rt.reversing

\* While a basket is placed, there are orders of its side alone, and none of
\* those it has still to place.
FrameTurns(h, held, turned) ==
  h.at \in Turning =>
    /\ \A o \in turned : o.side = Opposite[h.side]
    /\ h.at = "reverse" => \A k \in h.next .. Levels : held[Label("R", Opposite[h.side], k)] = None

FramesTurn == \A i \in 1 .. Len(stack) : FrameTurns(stack[i], order, Turned)

\* Before a basket is tried, and after it is rolled back, there is none.
NoneTurned == ~rt.placed /\ ~rt.reversing /\ ~Unwinding => Turned = {}

\* While it is rolled back its orders have been cancelled, and no other is placed.
UnwindsAlone ==
  /\ Unwinding => Pending \cap Reversals = {} /\ ~rt.reversing /\ ~rt.placed
  /\ \A i, j \in 1 .. Len(stack) : stack[i].at = "unwind" /\ stack[j].at = "unwind" => i = j

OneSided == \A o, p \in Turned : o.side = p.side

TurnFacts == doubled = {} /\ FramesTurn /\ NoneTurned /\ UnwindsAlone /\ OneSided

TurnInv == PlacedOnce /\ (~restarted /\ ~crossed => TurnFacts)

LEMMA PlacedOnceStep ==
  ASSUME TypeInv, TurnInv, Next
  PROVE  PlacedOnce'
<1>0. PlacedOnce
  BY DEF TurnInv
<1>1. CASE Restart
  BY <1>1 DEF Restart, NewRuntime, PlacedOnce
<1>2. CASE (Place \/ TryReversalOrder) /\ ~Restart
  BY <1>0, <1>2 DEF Place, TryReversalOrder, memory, PlacedOnce
<1>3. CASE ~Place /\ ~TryReversalOrder /\ ~Restart
  <2>1. /\ ~Reversed => rt'.placed = rt.placed
        /\ ~Reversed /\ ~TryPlace => rt'.reversing = rt.reversing
    BY <1>3, FlagsStep
  <2>2. CASE Reversed
    <3>1. \/ rt' = [rt EXCEPT !.reversing = FALSE, !.placed = TRUE, !.deferred = None]
          \/ rt' = [rt EXCEPT !.reversing = FALSE, !.rollback = TRUE]
      BY <2>2 DEF Reversed
    <3>2. rt \in Flags
      BY DEF TypeInv, Core, StoreOK
    <3>3. QED
      BY <3>1, <3>2 DEF PlacedOnce, Flags
  <2>3. CASE TryPlace /\ ~Reversed
    <3>1. rt' = rt \/ ~rt.placed
      BY <2>3 DEF TryPlace, MaxReversals
    <3>2. QED
      BY <1>0, <2>1, <2>3, <3>1 DEF PlacedOnce
  <2>4. CASE ~TryPlace /\ ~Reversed
    BY <1>0, <2>1, <2>4 DEF PlacedOnce
  <2>5. QED
    BY <2>2, <2>3, <2>4
<1>4. QED
  BY <1>1, <1>2, <1>3

\* A rollback of a basket goes on until it is finished.
LEMMA UnwindStays ==
  ASSUME TypeInv, Next, Unwinding, ~Unwind, ~Restart
  PROVE  Unwinding'
<1>0. /\ StackOK /\ Core /\ rt \in Flags
      /\ stack # <<>> => Len(stack) \in 1 .. Len(stack) /\ Top \in Handler /\ Top = stack[Len(stack)]
  BY OpStack DEF TypeInv, Core, Thread, StoreOK
<1>1. PICK i \in 1 .. Len(stack) : stack[i].at = "unwind"
  BY DEF Unwinding
<1>2. ASSUME i \in 1 .. Len(stack'), stack'[i] = stack[i] PROVE Unwinding'
  BY <1>1, <1>2 DEF Unwinding
<1>3. CASE UNCHANGED stack
  BY <1>2, <1>3
<1>4. ASSUME stack # <<>>, Top.at # "unwind", Returns PROVE Unwinding'
  <2>1. /\ Len(stack) \in Nat \ {0} /\ Len(stack') = Len(stack) - 1
        /\ \A j \in 1 .. Len(stack') : stack'[j] = stack[j]
    BY <1>0, <1>4, StackReturns
  <2>2. i # Len(stack)
    BY <1>0, <1>1, <1>4
  <2>3. i \in 1 .. Len(stack')
    BY <2>1, <2>2
  <2>4. QED
    BY <1>2, <2>1, <2>3
<1>5. ASSUME stack # <<>>, Top.at # "unwind", NEW h \in Handler, Becomes(h) PROVE Unwinding'
  <2>1. /\ Len(stack) \in Nat \ {0} /\ Len(stack') = Len(stack)
        /\ \A j \in 1 .. Len(stack) : j # Len(stack) => stack'[j] = stack[j]
    BY <1>0, <1>5, StackBecomes
  <2>2. i # Len(stack)
    BY <1>0, <1>1, <1>5
  <2>3. QED
    BY <1>2, <2>1, <2>2
<1>6. ASSUME NEW h \in Handler, stack' = Append(stack, h) PROVE Unwinding'
  <2>1. /\ Len(stack) \in Nat /\ Len(stack') = Len(stack) + 1
        /\ \A j \in 1 .. Len(stack) : stack'[j] = stack[j]
    BY <1>0, <1>6, StackGrows
  <2>2. i \in 1 .. Len(stack')
    BY <2>1
  <2>3. QED
    BY <1>2, <2>1, <2>2
<1>7. CASE CloseAsked
  <2>1. Start("closing") \in Handler
    BY Started DEF Place0
  <2>2. QED
    BY <1>6, <1>7, <2>1 DEF CloseAsked, Suspend
<1>8. CASE CancelAsked \/ ManagementEnds
  <2>1. PICK phase \in {"CANCELLED", "CLOSED"} : stack' = Append(stack, [Start("check") EXCEPT !.phase = phase])
    BY <1>8 DEF CancelAsked, ManagementEnds, Suspend
  <2> DEFINE h == [Start("check") EXCEPT !.phase = phase]
  <2>2. h \in Handler
    BY CheckStarts
  <2>3. QED
    BY <1>6, <2>1, <2>2
<1>9. CASE Retry
  <2> DEFINE h == [Start("due") EXCEPT !.since = now]
             k == Begin(rt.trigger)
  <2>1. now \in 0 .. 5 /\ rt.trigger \in Side
    BY <1>0, <1>9 DEF Core, WorldOK, Counters, Retry, RetryDue
  <2>2. h \in Handler
    <3> DEFINE s == Start("due")
    <3>1. s \in Handler
      BY Started DEF Place0
    <3>2. h = [s EXCEPT !.since = now]
      OBVIOUS
    <3> HIDE DEF s, h
    <3>3. QED
      BY <2>1, <3>1, <3>2 DEF Handler
  <2>3. k \in Handler
    BY <2>1, Begun
  <2>4. stack' = stack \o <<h, k>>
    BY <1>9 DEF Retry
  <2> HIDE DEF h, k
  <2>5. /\ Len(stack) \in Nat /\ Len(stack') = Len(stack) + 2
        /\ \A j \in 1 .. Len(stack) : stack'[j] = stack[j]
    BY <1>0, <2>2, <2>3, <2>4, StackGrowsByTwo
  <2>6. i \in 1 .. Len(stack')
    BY <2>5
  <2>7. QED
    BY <1>2, <2>5, <2>6
<1>10. CASE Due
  <2>1. Start("place") \in Handler
    BY Started DEF Place0
  <2>2. QED
    BY <1>3, <1>6, <1>10, <2>1 DEF Due, Suspend
<1>11. ASSUME NEW o \in Order, FillStarts(o) PROVE Unwinding'
  <2>1. Begin(o.side) \in Handler
    BY Begun DEF Order
  <2>2. QED
    BY <1>3, <1>6, <1>11, <2>1 DEF FillStarts
<1>12. ASSUME DueAfterRetry \/ Rejected \/ Accepted \/ TryPlace \/ Reversed PROVE Unwinding'
  <2>1. stack # <<>> /\ Top.at # "unwind" /\ Top \in Handler
    BY <1>0, <1>12 DEF DueAfterRetry, Rejected, Accepted, TryPlace, MaxReversals, Reversed, At
  <2>2. /\ [Top EXCEPT !.at = "place"] \in Handler /\ [Top EXCEPT !.at = "rollback"] \in Handler
        /\ [Top EXCEPT !.at = "begin", !.side = rt.deferred] \in Handler
        /\ [Top EXCEPT !.at = "reverse", !.next = 1, !.got = "all"] \in Handler
        /\ [Top EXCEPT !.at = "unwind"] \in Handler
    <3>1. rt.deferred \in Side \cup {None}
      BY <1>0 DEF Flags
    <3>2. QED
      BY <2>1, <3>1, Numbers DEF Handler
  <2>3. \/ Returns \/ Becomes([Top EXCEPT !.at = "place"]) \/ Becomes([Top EXCEPT !.at = "rollback"])
        \/ Becomes([Top EXCEPT !.at = "begin", !.side = rt.deferred])
        \/ Becomes([Top EXCEPT !.at = "reverse", !.next = 1, !.got = "all"])
        \/ Becomes([Top EXCEPT !.at = "unwind"])
    BY <1>12 DEF DueAfterRetry, Rejected, Accepted, TryPlace, MaxReversals, Reversed, Goes
  <2>4. QED
    BY <1>4, <1>5, <2>1, <2>2, <2>3
<1>13. CASE Place \/ TryReversalOrder
  <2>1. /\ UnderTop /\ Len(stack') = Len(stack) /\ stack # <<>> /\ Top.at # "unwind"
    BY <1>13, PlaceStep, TurnStep
  <2>2. i # Len(stack') /\ i \in 1 .. Len(stack')
    BY <1>0, <1>1, <2>1
  <2>3. QED
    BY <1>2, <2>1, <2>2 DEF UnderTop
<1>14. CASE CloseAll \/ Check \/ Rollback
  BY <1>4, <1>14 DEF CloseAll, Check, Rollback, At
<1>15. CASE Jobs
  BY <1>3, <1>7, <1>8, <1>9, <1>10, <1>15 DEF Jobs, NoJob, Disabled
<1>16. CASE Basket \/ Turn
  BY <1>12, <1>13, <1>14, <1>16 DEF Basket, Turn
<1>17. CASE Listen
  BY <1>3, <1>11, <1>17 DEF Listen, HearNothing, FillPlain, Close
<1>18. CASE Network \/ Broker \/ User \/ Tick \/ PauseEnds
  BY <1>3, <1>18 DEF Network, User, Broker, Poll, Connect, Break, Notice, UserCancels, UserCloses, Halt, Resume, Tick,
     Fill, StopOrTarget, Expire, PauseEnds
<1>19. QED
  BY <1>15, <1>16, <1>17, <1>18 DEF Next

LEMMA SidesOpposed ==
  ASSUME NEW side \in Side, NEW k \in 1 .. Levels
  PROVE  /\ Opposite[side] \in Side
         /\ Label("R", Opposite[side], k) \in Order
         /\ Label("R", Opposite[side], k).leg = "R"
         /\ Label("R", Opposite[side], k).level = k
  BY DEF Opposite, Side, Label, Order

\* What a handler relies on is kept while orders are filled, or go.
LEMMA FrameTurnsStays ==
  ASSUME Fades, AccountOK, NEW h \in Handler, FrameOK(h, rt, trouble), FrameTurns(h, order, Turned)
  PROVE  FrameTurns(h, order', Turned')
<1>1. Turned' \subseteq Turned
  BY FadesEntries DEF Turned, Reversals
<1>2. ASSUME h.at = "reverse", NEW k \in h.next .. Levels, order[Label("R", Opposite[h.side], k)] = None
      PROVE  order'[Label("R", Opposite[h.side], k)] = None
  <2>1. k \in 1 .. Levels /\ h.side \in Side
    BY <1>2, Numbers DEF FrameOK, Turning, Handler
  <2>2. Label("R", Opposite[h.side], k) \in Order
    BY <2>1, SidesOpposed
  <2>3. QED
    BY <1>2, <2>2 DEF Fades, None
<1>3. QED
  BY <1>1, <1>2 DEF FrameTurns, Turning

\* While orders are filled, or go, and no handler has come to a place where it
\* relies on the reversal orders, the facts stay.
LEMMA TurnFactsFade ==
  ASSUME TypeInv, TurnFacts, Next, Fades, ~Restart,
         rt'.placed = rt.placed, rt'.reversing = rt.reversing,
         \A i \in 1 .. Len(stack') : stack'[i].at \in Turning \cup {"unwind"} =>
            i \in 1 .. Len(stack) /\ stack'[i] = stack[i]
  PROVE  TurnFacts'
<1>0. AccountOK /\ Core
  BY DEF TypeInv
<1>1. Turned' \subseteq Turned /\ Pending' \subseteq Pending /\ doubled' = doubled
  BY <1>0, FadesEntries DEF Turned, Reversals, Fades
<1>2. FramesTurn'
  <2>1. SUFFICES ASSUME NEW i \in 1 .. Len(stack'), stack'[i].at \in Turning
                 PROVE  FrameTurns(stack'[i], order', Turned')
    BY DEF FramesTurn, FrameTurns
  <2>2. i \in 1 .. Len(stack) /\ stack'[i] = stack[i]
    BY <2>1
  <2>3. FrameTurns(stack[i], order, Turned) /\ stack[i] \in Handler /\ FrameOK(stack[i], rt, trouble)
    BY <2>2, FrameAt DEF TurnFacts, FramesTurn
  <2>4. QED
    BY <1>0, <2>2, <2>3, FrameTurnsStays
<1>3. Unwinding' => Unwinding
  BY DEF Unwinding
<1>4. UnwindsAlone'
  <2>1. Unwinding' => Pending' \cap Reversals = {} /\ ~rt'.reversing /\ ~rt'.placed
    BY <1>1, <1>3 DEF TurnFacts, UnwindsAlone
  <2>2. \A i, j \in 1 .. Len(stack') : stack'[i].at = "unwind" /\ stack'[j].at = "unwind" => i = j
    BY DEF TurnFacts, UnwindsAlone
  <2>3. QED
    BY <2>1, <2>2 DEF UnwindsAlone, Reversals
<1>5. NoneTurned'
  <2>1. SUFFICES ASSUME ~rt'.placed, ~rt'.reversing, ~Unwinding' PROVE Turned' = {}
    BY DEF NoneTurned
  <2>2. CASE Unwinding
    <3>1. Unwind
      BY <2>1, <2>2, UnwindStays
    <3>2. ClosePositions(Reversals)
      BY <3>1 DEF Unwind, RolledBack
    <3>3. Pending \cap Reversals = {}
      BY <2>2 DEF TurnFacts, UnwindsAlone
    <3>4. \A o \in Reversals : order'[o] = None
      <4>1. ASSUME NEW o \in Reversals PROVE order'[o] = None
        <5>1. o \in Order /\ o \notin Pending
          BY <3>3 DEF Reversals
        <5>2. order[o] = "open" \/ order[o] = None
          BY <1>0, <5>1 DEF AccountOK, Pending
        <5>3. QED
          BY <3>2, <5>1, <5>2 DEF ClosePositions, Without, Open
      <4>2. QED
        BY <4>1
    <3>5. QED
      BY <3>4 DEF Turned, Live, Pending, Open, Reversals, None
  <2>3. CASE ~Unwinding
    BY <1>1, <2>1, <2>3 DEF TurnFacts, NoneTurned
  <2>4. QED
    BY <2>2, <2>3
<1>6. OneSided'
  BY <1>1 DEF TurnFacts, OneSided
<1>7. QED
  BY <1>1, <1>2, <1>4, <1>5, <1>6 DEF TurnFacts

LEMMA TurnFactsStep ==
  ASSUME TypeInv, EntryInv, TurnInv, Next, ~restarted', ~crossed'
  PROVE  TurnFacts'
<1>0. /\ AccountOK /\ AccountOK' /\ Core /\ StackOK /\ rt \in Flags /\ Legs' = Legs /\ AheadIsFree
      /\ ~Restart /\ PlacedOnce /\ TurnFacts
      /\ stack # <<>> => /\ Len(stack) \in 1 .. Len(stack) /\ Top = stack[Len(stack)] /\ Top \in Handler
                         /\ FrameOK(Top, rt, trouble)
  BY TypePrime, ModeStays, HistoryStays, OpStack DEF EntryInv, TurnInv, Restart
<1>1. /\ doubled = {} /\ FramesTurn /\ NoneTurned /\ UnwindsAlone /\ OneSided
  BY <1>0 DEF TurnFacts
<1>2. CASE Place
  <2>1. /\ UnderTop /\ NewTop.at \in {"place", "placed"} /\ Len(stack') = Len(stack)
        /\ stack # <<>> /\ Top = stack[Len(stack)] /\ Top.at = "place"
    BY <1>2, PlaceStep
  <2>2. /\ Legs[Top.next] \in Order /\ Legs[Top.next].leg = "I" /\ Top.next \in 1 .. Len(Legs)
        /\ \A p \in Order : p # Legs[Top.next] => order'[p] = order[p]
    BY <1>2, PlacesOrder
  <2>3. order[Legs[Top.next]] = None
    <3>1. Top.next \in Top.next .. Len(Legs)
      BY <2>2, LegsThere, Numbers
    <3>2. QED
      BY <1>0, <2>1, <3>1 DEF AheadIsFree
  <2>4. doubled' = doubled
    BY <1>2, <2>3, PlacesOrder
  <2>5. Turned' = Turned /\ Pending' \cap Reversals = Pending \cap Reversals
    BY <2>2 DEF Turned, Live, Pending, Open, Reversals
  <2>6. rt' = rt
    BY <1>2 DEF Place, memory
  <2>7. \A i \in 1 .. Len(stack') : stack'[i].at \in Turning \cup {"unwind"} =>
           i \in 1 .. Len(stack) /\ stack'[i] = stack[i]
    BY <2>1 DEF UnderTop, NewTop, Turning
  <2>8. FramesTurn'
    <3>1. SUFFICES ASSUME NEW i \in 1 .. Len(stack'), stack'[i].at \in Turning
                   PROVE  FrameTurns(stack'[i], order', Turned')
      BY DEF FramesTurn, FrameTurns
    <3>2. i \in 1 .. Len(stack) /\ stack'[i] = stack[i]
      BY <2>7, <3>1
    <3>3. FrameTurns(stack[i], order, Turned) /\ stack[i] \in Handler /\ FrameOK(stack[i], rt, trouble)
      BY <1>1, <3>2, FrameAt DEF FramesTurn
    <3>4. ASSUME NEW k \in stack[i].next .. Levels, stack[i].at = "reverse"
          PROVE  order'[Label("R", Opposite[stack[i].side], k)] = order[Label("R", Opposite[stack[i].side], k)]
      <4>1. k \in 1 .. Levels /\ stack[i].side \in Side
        BY <3>3, <3>4, Numbers DEF FrameOK, Turning, Handler
      <4>2. Label("R", Opposite[stack[i].side], k) \in Order /\ Label("R", Opposite[stack[i].side], k).leg = "R"
        BY <4>1, SidesOpposed
      <4>3. QED
        BY <2>2, <4>2
    <3>5. QED
      BY <2>5, <3>2, <3>3, <3>4 DEF FrameTurns
  <2>9. Unwinding' <=> Unwinding
    <3>1. Unwinding' => Unwinding
      BY <2>7 DEF Unwinding
    <3>2. Unwinding => Unwinding'
      BY <1>0, <2>1, <1>2, UnwindStays DEF Unwind, At
    <3>3. QED
      BY <3>1, <3>2
  <2>10. NoneTurned' /\ OneSided'
    BY <1>1, <2>5, <2>6, <2>9 DEF NoneTurned, OneSided
  <2>11. UnwindsAlone'
    <3>1. \A i, j \in 1 .. Len(stack') : stack'[i].at = "unwind" /\ stack'[j].at = "unwind" => i = j
      BY <1>1, <2>7 DEF UnwindsAlone
    <3>2. QED
      BY <1>1, <2>5, <2>6, <2>9, <3>1 DEF UnwindsAlone, Reversals
  <2>12. QED
    BY <1>1, <2>4, <2>8, <2>10, <2>11 DEF TurnFacts
<1>3. CASE TryReversalOrder
  <2> DEFINE o == Label("R", Opposite[Top.side], Top.next)
  <2>1. /\ UnderTop /\ NewTop.at \in {"reverse", "reversed"} /\ Len(stack') = Len(stack)
        /\ (NewTop.at = "reverse" => NewTop.next = Top.next + 1) /\ NewTop.side = Top.side
        /\ stack # <<>> /\ Top = stack[Len(stack)] /\ Top.at = "reverse"
    BY <1>3, TurnStep
  <2>2. /\ o \in Order /\ o.leg = "R" /\ o.side = Opposite[Top.side] /\ Top.side \in Side
        /\ Top.next \in 1 .. Levels
        /\ \A p \in Order : p # o => order'[p] = order[p]
        /\ doubled' = doubled \/ (order[o] # None /\ doubled' = doubled \cup {o})
    BY <1>3, TurnsOrder
  <2>3. FrameTurns(Top, order, Turned)
    BY <1>0, <1>1, <2>1 DEF FramesTurn
  <2>4. /\ \A p \in Turned : p.side = Opposite[Top.side]
        /\ \A k \in Top.next .. Levels : order[Label("R", Opposite[Top.side], k)] = None
    BY <2>1, <2>3 DEF FrameTurns, Turning
  <2>5. order[o] = None
    <3>1. Top.next \in Top.next .. Levels
      BY <2>2, Numbers
    <3>2. QED
      BY <2>4, <3>1
  <2>6. doubled' = {}
    BY <1>1, <2>2, <2>5
  <2> HIDE DEF o
  <2>7. \A p \in Turned' : p.side = Opposite[Top.side]
    BY <2>2, <2>4 DEF Turned, Live, Pending, Open, Reversals
  <2>8. rt' = rt /\ rt.reversing
    BY <1>0, <1>3, <2>1 DEF TryReversalOrder, memory, FrameOK, Turning
  <2>9. ASSUME NEW i \in 1 .. Len(stack'), i # Len(stack') PROVE stack'[i].at \notin Turning \cup {"unwind"}
    <3>1. i \in 1 .. Len(stack) /\ stack'[i] = stack[i] /\ i # Len(stack)
      BY <2>1, <2>9 DEF UnderTop
    <3>2. stack[i].at \notin Turning
      <4>1. Top.at \in Turning
        BY <2>1 DEF Turning
      <4>2. QED
        BY <1>0, <2>1, <3>1, <4>1 DEF Core, Thread, OneReverse
    <3>3. stack[i].at # "unwind"
      BY <1>1, <2>8, <3>1 DEF UnwindsAlone, Unwinding
    <3>4. QED
      BY <3>1, <3>2, <3>3
  <2>10. Len(stack') \in 1 .. Len(stack') /\ NewTop = stack'[Len(stack')]
    BY <2>1 DEF UnderTop, NewTop
  <2>11. FramesTurn'
    <3>1. ASSUME NewTop.at = "reverse", NEW k \in NewTop.next .. Levels
          PROVE  order'[Label("R", Opposite[NewTop.side], k)] = None
      <4>1. k \in Top.next .. Levels /\ k # Top.next /\ k \in 1 .. Levels
        BY <2>1, <2>2, <3>1, Numbers
      <4>2. order[Label("R", Opposite[Top.side], k)] = None
        BY <2>4, <4>1
      <4>3. Label("R", Opposite[Top.side], k) \in Order /\ Label("R", Opposite[Top.side], k) # o
        BY <2>2, <4>1, SidesOpposed DEF o
      <4>4. QED
        BY <2>1, <2>2, <4>2, <4>3
    <3>2. FrameTurns(NewTop, order', Turned')
      BY <2>1, <2>7, <3>1 DEF FrameTurns
    <3>3. \A i \in 1 .. Len(stack') : FrameTurns(stack'[i], order', Turned')
      BY <2>9, <2>10, <3>2 DEF FrameTurns
    <3>4. QED
      BY <3>3 DEF FramesTurn
  <2>12. ~Unwinding'
    BY <2>1, <2>9, <2>10 DEF Unwinding
  <2>13. UnwindsAlone' /\ NoneTurned' /\ OneSided'
    BY <2>7, <2>8, <2>12 DEF UnwindsAlone, NoneTurned, OneSided, Unwinding
  <2>14. QED
    BY <2>6, <2>11, <2>13 DEF TurnFacts
<1>4. CASE ~Place /\ ~TryReversalOrder
  <2>1. Fades
    BY <1>4, AccountFades
  <2>2. /\ ~Reversed => rt'.placed = rt.placed
        /\ ~Reversed /\ ~TryPlace => rt'.reversing = rt.reversing
    BY <1>0, FlagsStep
  <2>3. CASE \/ Stays /\ ~Reversed
             \/ Rests \/ Basks \/ Recoils
    <3>1. rt'.placed = rt.placed /\ rt'.reversing = rt.reversing
      BY <2>2, <2>3 DEF Stays, Rests, Basks, Recoils
    <3>2. \A i \in 1 .. Len(stack') : stack'[i].at \in Turning \cup {"unwind"} =>
            i \in 1 .. Len(stack) /\ stack'[i] = stack[i]
      <4>1. CASE Stays
        BY <4>1 DEF Stays, Inherited, Watched
      <4>2. CASE UnderTop /\ NewTop.at \notin Turning \cup {"unwind"}
        BY <4>2 DEF UnderTop, NewTop
      <4>3. QED
        BY <2>3, <4>1, <4>2 DEF Rests, Basks, Recoils, Turning
    <3>3. QED
      BY <1>0, <2>1, <3>1, <3>2, TurnFactsFade
  <2>4. Turned' \subseteq Turned /\ Pending' \subseteq Pending /\ doubled' = {}
    BY <1>0, <1>1, <2>1, FadesEntries DEF Turned, Reversals, Fades
  <2>5. OneSided'
    BY <1>1, <2>4 DEF OneSided
  <2>6. ASSUME NEW i \in 1 .. Len(stack), i \in 1 .. Len(stack'), stack'[i] = stack[i]
        PROVE  FrameTurns(stack'[i], order', Turned')
    <3>1. FrameTurns(stack[i], order, Turned) /\ stack[i] \in Handler /\ FrameOK(stack[i], rt, trouble)
      BY <1>1, <2>6, FrameAt DEF FramesTurn
    <3>2. QED
      BY <1>0, <2>1, <2>6, <3>1, FrameTurnsStays
  <2>7. CASE Stays /\ Reversed
    <3>1. Inherited /\ rt'.placed /\ ~rt'.reversing /\ rt.reversing
      BY <2>7 DEF Stays
    <3>2. \A i \in 1 .. Len(stack') : stack'[i].at \in Turning \cup {"unwind"} =>
            i \in 1 .. Len(stack) /\ stack'[i] = stack[i]
      BY <3>1 DEF Inherited, Watched
    <3>3. FramesTurn'
      <4>1. SUFFICES ASSUME NEW i \in 1 .. Len(stack'), stack'[i].at \in Turning
                     PROVE  FrameTurns(stack'[i], order', Turned')
        BY DEF FramesTurn, FrameTurns
      <4>2. QED
        BY <2>6, <3>2, <4>1
    <3>4. ~Unwinding
      BY <1>1, <3>1 DEF UnwindsAlone
    <3>5. \A i \in 1 .. Len(stack') : stack'[i].at # "unwind"
      BY <3>2, <3>4 DEF Unwinding
    <3>6. UnwindsAlone' /\ NoneTurned'
      BY <3>1, <3>5 DEF UnwindsAlone, Unwinding, NoneTurned
    <3>7. QED
      BY <2>4, <2>5, <3>3, <3>6 DEF TurnFacts
  <2>8. CASE Turns
    <3>1. /\ UnderTop /\ NewTop.at = "reverse" /\ ~rt.placed /\ ~rt.reversing
          /\ order' = order /\ rt'.reversing /\ NewTop.side \in Side /\ NewTop.next = 1
          /\ \A i \in 1 .. Len(stack) : stack[i].at # "unwind"
      BY <2>8 DEF Turns
    <3>2. Turned = {}
      BY <1>1, <3>1 DEF NoneTurned, Unwinding
    <3>3. Turned' = {}
      BY <2>4, <3>2
    <3>4. \A i \in 1 .. Len(stack') : stack'[i].at # "unwind"
      BY <3>1 DEF UnderTop, NewTop
    <3>5. UnwindsAlone' /\ NoneTurned'
      BY <3>1, <3>4 DEF UnwindsAlone, Unwinding, NoneTurned
    <3>6. FrameTurns(NewTop, order', Turned')
      <4>1. ASSUME NEW k \in NewTop.next .. Levels
            PROVE  order'[Label("R", Opposite[NewTop.side], k)] = None
        <5>1. k \in 1 .. Levels
          BY <3>1, <4>1
        <5> DEFINE o == Label("R", Opposite[NewTop.side], k)
        <5>2. o \in Order /\ o.leg = "R"
          BY <3>1, <5>1, SidesOpposed
        <5> HIDE DEF o
        <5>3. o \notin Turned'
          BY <3>3
        <5>4. order'[o] = None
          BY <1>0, <5>2, <5>3 DEF AccountOK, Turned, Live, Pending, Open, Reversals
        <5>5. QED
          BY <5>4 DEF o
      <4>2. QED
        BY <3>3, <4>1 DEF FrameTurns
    <3>7. FramesTurn'
      <4>1. SUFFICES ASSUME NEW i \in 1 .. Len(stack') PROVE FrameTurns(stack'[i], order', Turned')
        BY DEF FramesTurn
      <4>2. CASE i = Len(stack')
        BY <3>6, <4>2 DEF NewTop
      <4>3. CASE i # Len(stack')
        BY <2>6, <3>1, <4>3 DEF UnderTop
      <4>4. QED
        BY <4>2, <4>3
    <3>8. QED
      BY <2>4, <2>5, <3>5, <3>7 DEF TurnFacts
  <2>9. CASE Unwinds
    <3>1. /\ UnderTop /\ NewTop.at = "unwind" /\ ~rt'.reversing /\ rt'.placed = rt.placed
          /\ rt.reversing /\ Cancel(Reversals)
      BY <2>9 DEF Unwinds
    <3>2. ~rt.placed /\ ~Unwinding
      BY <1>0, <1>1, <3>1 DEF PlacedOnce, UnwindsAlone
    <3>3. ASSUME NEW i \in 1 .. Len(stack'), i # Len(stack')
          PROVE  i \in 1 .. Len(stack) /\ stack'[i] = stack[i] /\ stack'[i].at # "unwind"
      BY <3>1, <3>2, <3>3 DEF UnderTop, Unwinding
    <3>4. NewTop = stack'[Len(stack')] /\ Len(stack') \in 1 .. Len(stack')
      <4>1. \E n \in Nat : Len(stack') = n
        BY <1>0, TypePrime, LenProperties DEF StackOK
      <4>2. QED
        BY <3>1, <4>1 DEF UnderTop, NewTop
    <3>5. Pending' \cap Reversals = {}
      BY <3>1 DEF Cancel, Without, Pending, Reversals, None
    <3>6. Unwinding'
      BY <3>1, <3>4 DEF Unwinding
    <3>7. UnwindsAlone' /\ NoneTurned'
      <4>1. \A i, j \in 1 .. Len(stack') : stack'[i].at = "unwind" /\ stack'[j].at = "unwind" => i = j
        BY <3>3
      <4>2. QED
        BY <3>1, <3>2, <3>5, <3>6, <4>1 DEF UnwindsAlone, NoneTurned, Reversals
    <3>8. FramesTurn'
      <4>1. SUFFICES ASSUME NEW i \in 1 .. Len(stack'), stack'[i].at \in Turning
                     PROVE  FrameTurns(stack'[i], order', Turned')
        BY DEF FramesTurn, FrameTurns
      <4>2. i # Len(stack')
        BY <3>1, <3>4, <4>1 DEF Turning
      <4>3. QED
        BY <2>6, <3>3, <4>2
    <3>9. QED
      BY <2>4, <2>5, <3>7, <3>8 DEF TurnFacts
  <2>10. QED
    BY <1>4, <2>3, <2>7, <2>8, <2>9, WatchedStep
<1>5. QED
  BY <1>2, <1>3, <1>4

LEMMA TurnInit == Init => TurnInv
<1>1. SUFFICES ASSUME Init PROVE TurnInv
  OBVIOUS
<1>2. Len(stack) = 0 /\ ~rt.placed /\ doubled = {}
  BY <1>1 DEF Init, NewRuntime
<1>3. Live = {}
  BY <1>1 DEF Init, Live, Pending, Open, None
<1>4. \A i \in 1 .. Len(stack) : FALSE
  BY <1>2
<1>5. QED
  BY <1>2, <1>3, <1>4 DEF TurnInv, TurnFacts, PlacedOnce, FramesTurn, NoneTurned, UnwindsAlone, Unwinding,
     OneSided, Turned

LEMMA TurnInvStep == TypeInv /\ EntryInv /\ TurnInv /\ [Next]_vars => TurnInv'
<1>1. SUFFICES ASSUME TypeInv, EntryInv, TurnInv, [Next]_vars PROVE TurnInv'
  OBVIOUS
<1>2. CASE Next
  <2>1. PlacedOnce'
    BY <1>1, <1>2, PlacedOnceStep
  <2>2. QED
    BY <1>1, <1>2, <2>1, TurnFactsStep DEF TurnInv
<1>3. CASE UNCHANGED vars
  BY <1>1, <1>3 DEF vars, wire, memory, account, world, TurnInv, TurnFacts, PlacedOnce, FramesTurn, FrameTurns,
     NoneTurned, UnwindsAlone, Unwinding, OneSided, Turned, Live, Pending, Open, Reversals
<1>4. QED
  BY <1>1, <1>2, <1>3

\* Nothing is placed twice.  No label of an initial order is ever used while
\* the broker has it, restarts of the cBot included, and without a restart or a
\* try of the reversal that crosses a rollback the orders of the reversal are
\* of one side and used once, for every mode, number of levels and depth of the
\* thread (Submit, TryPlaceReversal, RollbackLeg).
THEOREM NothingPlacedTwice == Spec => []NothingTwice
<1>1. Init => TypeInv /\ EntryInv /\ TurnInv
  BY TypeInit, EntryInit, TurnInit
<1>2. TypeInv /\ EntryInv /\ TurnInv /\ [Next]_vars => (TypeInv /\ EntryInv /\ TurnInv)'
  BY TypeStep, EntryStep, TurnInvStep
<1>3. TypeInv /\ EntryInv /\ TurnInv => NothingTwice
  BY DEF EntryInv, OnlyReversals, TurnInv, TurnFacts, OneSided, Turned, NothingTwice
<1>4. QED
  BY <1>1, <1>2, <1>3, PTL DEF Spec
=============================================================================
