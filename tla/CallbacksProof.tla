---------------------------- MODULE CallbacksProof ----------------------------
(***************************************************************************)
(* Theorems about Callbacks, for any number of threads, objects and        *)
(* registrations and any depth of nesting.                                 *)
(***************************************************************************)
EXTENDS Callbacks, SequenceTheorems, TLAPS

-----------------------------------------------------------------------------
(***************************************************************************)
(* What the three operations on stacks do, index by index.                 *)
(***************************************************************************)
LEMMA PushFacts ==
    ASSUME stack \in [Threads -> Seq(Frames)], NEW th \in Threads, NEW f \in Frames, Push(th, f)
    PROVE  /\ stack' \in [Threads -> Seq(Frames)]
           /\ \A x \in Threads : x # th => stack'[x] = stack[x]
           /\ Len(stack'[th]) = Len(stack[th]) + 1
           /\ \A i \in 1 .. Len(stack[th]) : stack'[th][i] = stack[th][i]
           /\ stack'[th][Len(stack[th]) + 1] = f
<1>1. stack' = [stack EXCEPT ![th] = Append(stack[th], f)]
  BY DEF Push
<1>2. stack[th] \in Seq(Frames) /\ Append(stack[th], f) \in Seq(Frames)
  OBVIOUS
<1> QED
  BY <1>1, <1>2

LEMMA BecomesFacts ==
    ASSUME stack \in [Threads -> Seq(Frames)], NEW th \in Threads, NEW f \in Frames,
           Len(stack[th]) > 0, Becomes(th, f)
    PROVE  /\ stack' \in [Threads -> Seq(Frames)]
           /\ \A x \in Threads : x # th => stack'[x] = stack[x]
           /\ Len(stack'[th]) = Len(stack[th])
           /\ \A i \in 1 .. Len(stack[th]) :
                 i # Len(stack[th]) => stack'[th][i] = stack[th][i]
           /\ stack'[th][Len(stack[th])] = f
<1> DEFINE s == stack[th]
           new == [s EXCEPT ![Len(s)] = f]
<1>1. stack' = [stack EXCEPT ![th] = new]
  BY DEF Becomes
<1>2. s \in Seq(Frames) /\ Len(s) \in 1 .. Len(s)
  OBVIOUS
<1>3. new \in Seq(Frames) /\ Len(new) = Len(s)
  BY <1>2
<1>4. \A i \in 1 .. Len(s) : new[i] = IF i = Len(s) THEN f ELSE s[i]
  BY <1>2
<1>5. stack'[th] = new /\ \A x \in Threads : x # th => stack'[x] = stack[x]
  BY <1>1
<1>6. stack' \in [Threads -> Seq(Frames)]
  BY <1>1, <1>3
<1> QED
  BY <1>2, <1>3, <1>4, <1>5, <1>6

LEMMA PopFacts ==
    ASSUME stack \in [Threads -> Seq(Frames)], NEW th \in Threads, Len(stack[th]) > 0, Pop(th)
    PROVE  /\ stack' \in [Threads -> Seq(Frames)]
           /\ \A x \in Threads : x # th => stack'[x] = stack[x]
           /\ Len(stack'[th]) = Len(stack[th]) - 1
           /\ \A i \in 1 .. Len(stack[th]) :
                 i # Len(stack[th]) => stack'[th][i] = stack[th][i]
<1>1. stack' = [stack EXCEPT ![th] = SubSeq(stack[th], 1, Len(stack[th]) - 1)]
  BY DEF Pop
<1>2. stack[th] \in Seq(Frames) /\ Len(stack[th]) \in Nat
  OBVIOUS
<1>3. /\ SubSeq(stack[th], 1, Len(stack[th]) - 1) \in Seq(Frames)
      /\ Len(SubSeq(stack[th], 1, Len(stack[th]) - 1)) = Len(stack[th]) - 1
      /\ \A i \in 1 .. Len(stack[th]) - 1 :
            SubSeq(stack[th], 1, Len(stack[th]) - 1)[i] = stack[th][i]
  <2> DEFINE n == Len(stack[th]) - 1
  <2>1. n \in Nat /\ \A i \in 1 .. n : stack[th][i] \in Frames
    BY <1>2
  <2> HIDE DEF n
  <2>2. /\ SubSeq(stack[th], 1, n) \in Seq(Frames)
        /\ Len(SubSeq(stack[th], 1, n)) = IF 1 <= n THEN n - 1 + 1 ELSE 0
        /\ \A i \in 1 .. n - 1 + 1 : SubSeq(stack[th], 1, n)[i] = stack[th][1 + i - 1]
    BY <2>1, SubSeqProperties
  <2>3. /\ Len(SubSeq(stack[th], 1, n)) = n
        /\ \A i \in 1 .. n : i \in 1 .. n - 1 + 1 /\ 1 + i - 1 = i
    BY <2>1, <2>2
  <2> QED
    BY <2>2, <2>3 DEF n
<1> QED
  BY <1>1, <1>2, <1>3

-----------------------------------------------------------------------------
(***************************************************************************)
(* The inductive invariant behind AttachmentExact: a callback under way has*)
(* found the thread detached exactly if it is the outermost one there, and *)
(* below the innermost function only callbacks in Java and registrations in*)
(* their enumeration are found.                                            *)
(***************************************************************************)
Attaching == {"java", "end"}

Nested ==
    \A th \in Threads : \A i \in 1 .. Len(stack[th]) :
        i # Len(stack[th]) => stack[th][i].pc \in {"java", "enumerate"}

ResultsFit ==
    \A th \in Threads : \A i \in 1 .. Len(stack[th]) :
        stack[th][i].pc \in Attaching =>
            stack[th][i].result =
                IF th \in JavaThreads \/ \E j \in 1 .. i - 1 : stack[th][j].pc \in Attaching
                THEN "JNI_OK" ELSE "JNI_EDETACHED"

Exact ==
    \A th \in Threads :
        th \in attached <=>
            th \in JavaThreads \/ \E i \in 1 .. Len(stack[th]) : stack[th][i].pc \in Attaching

Attachments == Nested /\ ResultsFit /\ Exact

AttachInv == TypeOK /\ Attachments

LEMMA ExactIsExact == TypeOK /\ Exact => AttachmentExact
<1> SUFFICES ASSUME TypeOK, Exact PROVE AttachmentExact
  OBVIOUS
<1>1. \A th \in Threads : DOMAIN stack[th] = 1 .. Len(stack[th])
  BY LenProperties DEF TypeOK
<1>2. attached \subseteq Threads
  BY DEF TypeOK
<1> QED
  BY <1>1, <1>2 DEF Exact, Attaching, AttachmentExact, Threads

LEMMA PushKeeps ==
    ASSUME AttachInv, NEW th \in Threads, NEW f \in Frames, Push(th, f),
           f.pc \notin Attaching, UNCHANGED attached,
           Len(stack[th]) > 0 => stack[th][Len(stack[th])].pc \in {"java", "enumerate"}
    PROVE  Attachments'
<1>1. stack \in [Threads -> Seq(Frames)]
  BY DEF AttachInv, TypeOK
<1>2. /\ \A x \in Threads : x # th => stack'[x] = stack[x]
      /\ Len(stack'[th]) = Len(stack[th]) + 1
      /\ \A i \in 1 .. Len(stack[th]) : stack'[th][i] = stack[th][i]
      /\ stack'[th][Len(stack[th]) + 1] = f
  BY <1>1, PushFacts
<1>3. \A x \in Threads : Len(stack[x]) \in Nat
  BY <1>1
<1>4. Nested'
  BY <1>2, <1>3 DEF AttachInv, Attachments, Nested
<1>5. ResultsFit'
  <2> SUFFICES ASSUME NEW x \in Threads, NEW i \in 1 .. Len(stack'[x]),
                      stack'[x][i].pc \in Attaching
               PROVE  stack'[x][i].result =
                        IF x \in JavaThreads \/ \E j \in 1 .. i - 1 : stack'[x][j].pc \in Attaching
                        THEN "JNI_OK" ELSE "JNI_EDETACHED"
    BY DEF ResultsFit
  <2>1. i \in 1 .. Len(stack[x]) /\ stack'[x][i] = stack[x][i]
    <3>1. CASE x = th
      <4>1. i # Len(stack[th]) + 1
        BY <1>2, <3>1
      <4>2. i \in 1 .. Len(stack[th])
        BY <1>2, <1>3, <3>1, <4>1
      <4> QED
        BY <1>2, <3>1, <4>2
    <3>2. CASE x # th
      BY <1>2, <3>2
    <3> QED
      BY <3>1, <3>2
  <2>2. \A j \in 1 .. i - 1 : stack'[x][j] = stack[x][j]
    BY <1>2, <1>3, <2>1
  <2>3. stack[x][i].result =
          IF x \in JavaThreads \/ \E j \in 1 .. i - 1 : stack[x][j].pc \in Attaching
          THEN "JNI_OK" ELSE "JNI_EDETACHED"
    BY <2>1 DEF AttachInv, Attachments, ResultsFit
  <2> QED
    BY <2>1, <2>2, <2>3
<1>6. \A x \in Threads :
        (\E i \in 1 .. Len(stack'[x]) : stack'[x][i].pc \in Attaching)
          <=> (\E i \in 1 .. Len(stack[x]) : stack[x][i].pc \in Attaching)
  <2>1. \A x \in Threads : \A i \in 1 .. Len(stack[x]) :
          i \in 1 .. Len(stack'[x]) /\ stack'[x][i] = stack[x][i]
    BY <1>2, <1>3
  <2>2. \A x \in Threads : \A i \in 1 .. Len(stack'[x]) :
          stack'[x][i].pc \in Attaching => i \in 1 .. Len(stack[x])
    BY <1>2, <1>3
  <2> QED
    BY <2>1, <2>2
<1>7. Exact'
  BY <1>6 DEF AttachInv, Attachments, Exact
<1> QED
  BY <1>4, <1>5, <1>7 DEF Attachments

LEMMA BecomesFits ==
    ASSUME AttachInv, NEW th \in Threads, NEW f \in Frames, Len(stack[th]) > 0, Becomes(th, f),
           f.pc \in Attaching =>
             f.result = IF th \in JavaThreads
                             \/ \E j \in 1 .. Len(stack[th]) - 1 : stack[th][j].pc \in Attaching
                        THEN "JNI_OK" ELSE "JNI_EDETACHED"
    PROVE  Nested' /\ ResultsFit'
<1> DEFINE n == Len(stack[th])
<1>1. stack \in [Threads -> Seq(Frames)]
  BY DEF AttachInv, TypeOK
<1>2. /\ \A x \in Threads : x # th => stack'[x] = stack[x]
      /\ Len(stack'[th]) = n
      /\ \A i \in 1 .. n : i # n => stack'[th][i] = stack[th][i]
      /\ stack'[th][n] = f
  BY <1>1, BecomesFacts
<1>3. \A x \in Threads : Len(stack[x]) \in Nat
  BY <1>1
<1>4. Nested'
  BY <1>2, <1>3 DEF AttachInv, Attachments, Nested
<1>5. ResultsFit'
  <2> SUFFICES ASSUME NEW x \in Threads, NEW i \in 1 .. Len(stack'[x]),
                      stack'[x][i].pc \in Attaching
               PROVE  stack'[x][i].result =
                        IF x \in JavaThreads \/ \E j \in 1 .. i - 1 : stack'[x][j].pc \in Attaching
                        THEN "JNI_OK" ELSE "JNI_EDETACHED"
    BY DEF ResultsFit
  <2>1. i \in 1 .. Len(stack[x])
    BY <1>2
  <2>2. \A j \in 1 .. i - 1 : stack'[x][j] = stack[x][j]
    <3> SUFFICES ASSUME NEW j \in 1 .. i - 1 PROVE stack'[x][j] = stack[x][j]
      OBVIOUS
    <3>1. CASE x = th
      <4>1. j \in 1 .. n /\ j # n
        BY <1>3, <2>1, <3>1
      <4> QED
        BY <1>2, <3>1, <4>1
    <3>2. CASE x # th
      BY <1>2, <3>2
    <3> QED
      BY <3>1, <3>2
  <2>3. CASE x = th /\ i = n
    BY <1>2, <2>2, <2>3
  <2>4. CASE ~(x = th /\ i = n)
    <3>1. stack'[x][i] = stack[x][i]
      BY <1>2, <2>1, <2>4
    <3>2. stack[x][i].result =
            IF x \in JavaThreads \/ \E j \in 1 .. i - 1 : stack[x][j].pc \in Attaching
            THEN "JNI_OK" ELSE "JNI_EDETACHED"
      BY <2>1, <3>1 DEF AttachInv, Attachments, ResultsFit
    <3> QED
      BY <2>2, <3>1, <3>2
  <2> QED
    BY <2>3, <2>4
<1> QED
  BY <1>4, <1>5

LEMMA BecomesKeeps ==
    ASSUME AttachInv, NEW th \in Threads, NEW f \in Frames, Len(stack[th]) > 0, Becomes(th, f),
           f.pc \notin Attaching, stack[th][Len(stack[th])].pc \notin Attaching,
           UNCHANGED attached
    PROVE  Attachments'
<1>1. stack \in [Threads -> Seq(Frames)]
  BY DEF AttachInv, TypeOK
<1>2. /\ \A x \in Threads : x # th => stack'[x] = stack[x]
      /\ Len(stack'[th]) = Len(stack[th])
      /\ \A i \in 1 .. Len(stack[th]) : i # Len(stack[th]) => stack'[th][i] = stack[th][i]
      /\ stack'[th][Len(stack[th])] = f
  BY <1>1, BecomesFacts
<1>3. \A x \in Threads : \A i \in 1 .. Len(stack[x]) :
        stack'[x][i].pc \in Attaching <=> stack[x][i].pc \in Attaching
  BY <1>1, <1>2
<1>4. \A x \in Threads : Len(stack'[x]) = Len(stack[x])
  BY <1>2
<1>5. Exact'
  BY <1>3, <1>4 DEF AttachInv, Attachments, Exact
<1> QED
  BY <1>5, BecomesFits DEF Attachments

LEMMA PopKeeps ==
    ASSUME AttachInv, NEW th \in Threads, Len(stack[th]) > 0, Pop(th),
           stack[th][Len(stack[th])].pc \notin Attaching, UNCHANGED attached
    PROVE  Attachments'
<1>1. stack \in [Threads -> Seq(Frames)]
  BY DEF AttachInv, TypeOK
<1>2. /\ \A x \in Threads : x # th => stack'[x] = stack[x]
      /\ Len(stack'[th]) = Len(stack[th]) - 1
      /\ \A i \in 1 .. Len(stack[th]) : i # Len(stack[th]) => stack'[th][i] = stack[th][i]
  BY <1>1, PopFacts
<1>3. \A x \in Threads : Len(stack[x]) \in Nat
  BY <1>1
<1>4. Nested'
  BY <1>2, <1>3 DEF AttachInv, Attachments, Nested
<1>5. ResultsFit'
  <2> SUFFICES ASSUME NEW x \in Threads, NEW i \in 1 .. Len(stack'[x]),
                      stack'[x][i].pc \in Attaching
               PROVE  stack'[x][i].result =
                        IF x \in JavaThreads \/ \E j \in 1 .. i - 1 : stack'[x][j].pc \in Attaching
                        THEN "JNI_OK" ELSE "JNI_EDETACHED"
    BY DEF ResultsFit
  <2>1. i \in 1 .. Len(stack[x]) /\ stack'[x][i] = stack[x][i]
    BY <1>2, <1>3
  <2>2. \A j \in 1 .. i - 1 : stack'[x][j] = stack[x][j]
    BY <1>2, <1>3, <2>1
  <2>3. stack[x][i].result =
          IF x \in JavaThreads \/ \E j \in 1 .. i - 1 : stack[x][j].pc \in Attaching
          THEN "JNI_OK" ELSE "JNI_EDETACHED"
    BY <2>1 DEF AttachInv, Attachments, ResultsFit
  <2> QED
    BY <2>1, <2>2, <2>3
<1>6. Exact'
  <2>1. \A x \in Threads :
          (\E i \in 1 .. Len(stack'[x]) : stack'[x][i].pc \in Attaching)
            <=> (\E i \in 1 .. Len(stack[x]) : stack[x][i].pc \in Attaching)
    <3>1. \A x \in Threads : \A i \in 1 .. Len(stack'[x]) :
            i \in 1 .. Len(stack[x]) /\ stack'[x][i] = stack[x][i]
      BY <1>2, <1>3
    <3>2. \A x \in Threads : \A i \in 1 .. Len(stack[x]) :
            stack[x][i].pc \in Attaching => i \in 1 .. Len(stack'[x])
      BY <1>2, <1>3
    <3> QED
      BY <3>1, <3>2
  <2> QED
    BY <2>1 DEF AttachInv, Attachments, Exact
<1> QED
  BY <1>4, <1>5, <1>6 DEF Attachments

-----------------------------------------------------------------------------
(***************************************************************************)
(* The steps of a callback between THREAD_BEGIN and THREAD_END.            *)
(***************************************************************************)
LEMMA TopIsTyped ==
    ASSUME TypeOK, NEW th \in Threads, Len(stack[th]) > 0
    PROVE  Top(th) \in Frames /\ Len(stack[th]) \in 1 .. Len(stack[th])
<1>1. stack[th] \in Seq(Frames)
  BY DEF TypeOK
<1> QED
  BY <1>1 DEF Top, Depth

LEMMA ThreadBeginKeeps ==
    ASSUME AttachInv, NEW th \in Threads, ThreadBegin(th)
    PROVE  TypeOK' /\ Attachments'
<1> DEFINE n == Len(stack[th])
<1>1. n > 0 /\ Top(th).pc = "begin"
  BY DEF ThreadBegin, At, Depth
<1>2. /\ stack \in [Threads -> Seq(Frames)] /\ n \in 1 .. n
      /\ Top(th) \in Frames /\ stack[th][n] = Top(th)
  BY <1>1, TopIsTyped DEF AttachInv, TypeOK, Top, Depth
<1>3. PICK res \in {"JNI_OK", "JNI_EDETACHED"} :
        /\ Becomes(th, [Top(th) EXCEPT !.pc = "java", !.result = res])
        /\ res = (IF th \in attached THEN "JNI_OK" ELSE "JNI_EDETACHED")
        /\ attached' = attached \cup {th}
  BY DEF ThreadBegin
<1> DEFINE f == [Top(th) EXCEPT !.pc = "java", !.result = res]
<1>4. f \in Frames /\ f.pc = "java" /\ f.result = res
  BY <1>2 DEF Frames, Pcs
<1>5. Becomes(th, f)
  BY <1>3
<1> HIDE DEF f
<1>6. /\ stack' \in [Threads -> Seq(Frames)]
      /\ \A x \in Threads : x # th => stack'[x] = stack[x]
      /\ Len(stack'[th]) = n
      /\ stack'[th][n] = f
  BY <1>1, <1>2, <1>4, <1>5, BecomesFacts
<1>7. TypeOK'
  BY <1>3, <1>6 DEF AttachInv, TypeOK, ThreadBegin, hotplugVars, registrationVars
<1>8. th \in attached <=>
        th \in JavaThreads \/ \E i \in 1 .. n - 1 : stack[th][i].pc \in Attaching
  <2>1. \A i \in 1 .. n : i = n \/ i \in 1 .. n - 1
    BY <1>2
  <2>2. \A i \in 1 .. n - 1 : i \in 1 .. n
    BY <1>2
  <2> QED
    BY <1>1, <1>2, <2>1, <2>2 DEF AttachInv, Attachments, Exact, Attaching
<1>9. f.result = IF th \in JavaThreads \/ \E j \in 1 .. n - 1 : stack[th][j].pc \in Attaching
                 THEN "JNI_OK" ELSE "JNI_EDETACHED"
  BY <1>3, <1>4, <1>8
<1>10. Nested' /\ ResultsFit'
  BY <1>1, <1>4, <1>5, <1>9, BecomesFits
<1>11. Exact'
  <2> SUFFICES ASSUME NEW x \in Threads
               PROVE  x \in attached' <=>
                        x \in JavaThreads
                          \/ \E i \in 1 .. Len(stack'[x]) : stack'[x][i].pc \in Attaching
    BY DEF Exact
  <2>1. CASE x = th
    BY <1>2, <1>3, <1>4, <1>6, <2>1 DEF Attaching
  <2>2. CASE x # th
    BY <1>3, <1>6, <2>2 DEF AttachInv, Attachments, Exact
  <2> QED
    BY <2>1, <2>2
<1> QED
  BY <1>7, <1>10, <1>11 DEF Attachments

LEMMA JavaReturnsKeeps ==
    ASSUME AttachInv, NEW th \in Threads, JavaReturns(th)
    PROVE  TypeOK' /\ Attachments'
<1> DEFINE n == Len(stack[th])
<1>1. n > 0 /\ Top(th).pc = "java"
  BY DEF JavaReturns, At, Depth
<1>2. /\ stack \in [Threads -> Seq(Frames)] /\ n \in 1 .. n
      /\ Top(th) \in Frames /\ stack[th][n] = Top(th)
  BY <1>1, TopIsTyped DEF AttachInv, TypeOK, Top, Depth
<1>3. PICK last \in BOOLEAN : Becomes(th, [Top(th) EXCEPT !.pc = "end", !.last = last])
  BY DEF JavaReturns
<1> DEFINE f == [Top(th) EXCEPT !.pc = "end", !.last = last]
<1>4. f \in Frames /\ f.pc = "end" /\ f.result = Top(th).result
  BY <1>2 DEF Frames, Pcs
<1>5. Becomes(th, f)
  BY <1>3
<1> HIDE DEF f
<1>6. /\ stack' \in [Threads -> Seq(Frames)]
      /\ \A x \in Threads : x # th => stack'[x] = stack[x]
      /\ Len(stack'[th]) = n
      /\ \A i \in 1 .. n : i # n => stack'[th][i] = stack[th][i]
      /\ stack'[th][n] = f
  BY <1>1, <1>2, <1>4, <1>5, BecomesFacts
<1>7. TypeOK'
  BY <1>6 DEF AttachInv, TypeOK, JavaReturns, hotplugVars, registrationVars
<1>8. f.result = IF th \in JavaThreads \/ \E j \in 1 .. n - 1 : stack[th][j].pc \in Attaching
                 THEN "JNI_OK" ELSE "JNI_EDETACHED"
  BY <1>1, <1>2, <1>4 DEF AttachInv, Attachments, ResultsFit, Attaching
<1>9. Nested' /\ ResultsFit'
  BY <1>1, <1>4, <1>5, <1>8, BecomesFits
<1>10. \A x \in Threads :
        /\ Len(stack'[x]) = Len(stack[x])
        /\ \A i \in 1 .. Len(stack[x]) :
              stack'[x][i].pc \in Attaching <=> stack[x][i].pc \in Attaching
  BY <1>1, <1>2, <1>4, <1>6 DEF Attaching
<1>11. Exact'
  BY <1>10 DEF AttachInv, Attachments, Exact, JavaReturns
<1> QED
  BY <1>7, <1>9, <1>11 DEF Attachments

\* Here the invariant does its work: the thread is detached exactly if this callback
\* is the outermost that had it attached.
LEMMA ThreadEndKeeps ==
    ASSUME AttachInv, NEW th \in Threads, ThreadEnd(th)
    PROVE  TypeOK' /\ Attachments'
<1> DEFINE n == Len(stack[th])
           f == [Top(th) EXCEPT !.pc = "leave"]
           Outer == th \in JavaThreads \/ \E j \in 1 .. n - 1 : stack[th][j].pc \in Attaching
<1>1. n > 0 /\ Top(th).pc = "end"
  BY DEF ThreadEnd, At, Depth
<1>2. /\ stack \in [Threads -> Seq(Frames)] /\ n \in 1 .. n
      /\ Top(th) \in Frames /\ stack[th][n] = Top(th)
  BY <1>1, TopIsTyped DEF AttachInv, TypeOK, Top, Depth
<1>3. f \in Frames /\ f.pc = "leave"
  BY <1>2 DEF Frames, Pcs
<1>4. Becomes(th, f)
  BY DEF ThreadEnd
<1> HIDE DEF f
<1>5. /\ stack' \in [Threads -> Seq(Frames)]
      /\ \A x \in Threads : x # th => stack'[x] = stack[x]
      /\ Len(stack'[th]) = n
      /\ \A i \in 1 .. n : i # n => stack'[th][i] = stack[th][i]
      /\ stack'[th][n] = f
  BY <1>1, <1>2, <1>3, <1>4, BecomesFacts
<1>6. TypeOK'
  BY <1>5 DEF AttachInv, TypeOK, ThreadEnd, hotplugVars, registrationVars
<1>7. Nested' /\ ResultsFit'
  BY <1>1, <1>3, <1>4, BecomesFits DEF Attaching
<1>8. Top(th).result = IF Outer THEN "JNI_OK" ELSE "JNI_EDETACHED"
  BY <1>1, <1>2 DEF AttachInv, Attachments, ResultsFit, Attaching
<1>9. th \in attached
  BY <1>1, <1>2 DEF AttachInv, Attachments, Exact, Attaching
<1>10. th \in attached' <=> Outer
  BY <1>8, <1>9 DEF ThreadEnd
<1>11. Outer <=>
        th \in JavaThreads \/ \E i \in 1 .. Len(stack'[th]) : stack'[th][i].pc \in Attaching
  <2>1. \A i \in 1 .. n : i = n \/ i \in 1 .. n - 1
    BY <1>2
  <2>2. \A i \in 1 .. n - 1 : i \in 1 .. n /\ i # n
    BY <1>2
  <2>3. stack'[th][n].pc \notin Attaching
    BY <1>3, <1>5 DEF Attaching
  <2> QED
    BY <1>5, <2>1, <2>2, <2>3
<1>12. \A x \in Threads : x # th => (x \in attached' <=> x \in attached)
  BY DEF ThreadEnd
<1>13. Exact'
  <2> SUFFICES ASSUME NEW x \in Threads
               PROVE  x \in attached' <=>
                        x \in JavaThreads
                          \/ \E i \in 1 .. Len(stack'[x]) : stack'[x][i].pc \in Attaching
    BY DEF Exact
  <2>1. CASE x = th
    BY <1>10, <1>11, <2>1
  <2>2. CASE x # th
    BY <1>5, <1>12, <2>2 DEF AttachInv, Attachments, Exact
  <2> QED
    BY <2>1, <2>2
<1> QED
  BY <1>6, <1>7, <1>13 DEF Attachments

-----------------------------------------------------------------------------
(***************************************************************************)
(* The other functions leave attached alone: they are entered, go on and   *)
(* return.                                                                 *)
(***************************************************************************)
LEMMA FrameTyped ==
    ASSUME NEW pc \in Pcs, NEW r \in Registrations \cup {NULL}, NEW o \in HandleObjects \cup {NULL}
    PROVE  Frame(pc, r, o) \in Frames /\ Frame(pc, r, o).pc = pc
BY DEF Frame, Frames

LEMMA Enters ==
    ASSUME AttachInv, NEW th \in Threads, InJava(th) \/ Depth(th) = 0 \/ At(th, "enumerate"),
           NEW pc \in Pcs \ Attaching,
           NEW r \in Registrations \cup {NULL}, NEW o \in HandleObjects \cup {NULL},
           Push(th, Frame(pc, r, o)), UNCHANGED <<attached, hotplugVars>>
    PROVE  TypeOK' /\ Attachments'
<1>1. stack \in [Threads -> Seq(Frames)]
  BY DEF AttachInv, TypeOK
<1>2. Frame(pc, r, o) \in Frames /\ Frame(pc, r, o).pc = pc
  BY FrameTyped
<1>3. Len(stack[th]) > 0 => stack[th][Len(stack[th])].pc \in {"java", "enumerate"}
  BY <1>1 DEF InJava, At, Top, Depth
<1>4. stack' \in [Threads -> Seq(Frames)]
  BY <1>1, <1>2, PushFacts
<1>5. TypeOK'
  BY <1>4 DEF AttachInv, TypeOK, hotplugVars, registrationVars
<1>6. Attachments'
  BY <1>2, <1>3, PushKeeps
<1> QED
  BY <1>5, <1>6

LEMMA GoesOn ==
    ASSUME AttachInv, NEW th \in Threads, NEW from \in Pcs \ Attaching, At(th, from),
           NEW pc \in Pcs \ Attaching,
           NEW r \in Registrations \cup {NULL}, NEW o \in HandleObjects \cup {NULL},
           Becomes(th, Frame(pc, r, o)), UNCHANGED attached
    PROVE  stack' \in [Threads -> Seq(Frames)] /\ Attachments'
<1>1. stack \in [Threads -> Seq(Frames)]
  BY DEF AttachInv, TypeOK
<1>2. Frame(pc, r, o) \in Frames /\ Frame(pc, r, o).pc = pc
  BY FrameTyped
<1>3. Len(stack[th]) > 0 /\ stack[th][Len(stack[th])].pc = from
  BY DEF At, Top, Depth
<1>4. stack' \in [Threads -> Seq(Frames)]
  BY <1>1, <1>2, <1>3, BecomesFacts
<1>5. Attachments'
  BY <1>2, <1>3, BecomesKeeps
<1> QED
  BY <1>4, <1>5

LEMMA Returns ==
    ASSUME AttachInv, NEW th \in Threads, NEW from \in Pcs \ Attaching, At(th, from),
           Pop(th), UNCHANGED attached
    PROVE  stack' \in [Threads -> Seq(Frames)] /\ Attachments'
<1>1. stack \in [Threads -> Seq(Frames)]
  BY DEF AttachInv, TypeOK
<1>2. Len(stack[th]) > 0 /\ stack[th][Len(stack[th])].pc = from
  BY DEF At, Top, Depth
<1>3. stack' \in [Threads -> Seq(Frames)]
  BY <1>1, <1>2, PopFacts
<1>4. Attachments'
  BY <1>2, PopKeeps
<1> QED
  BY <1>3, <1>4

LEMMA TopFields ==
    ASSUME TypeOK, NEW th \in Threads, NEW pc, At(th, pc)
    PROVE  Top(th).reg \in Registrations \cup {NULL} /\ Top(th).object \in HandleObjects \cup {NULL}
BY TopIsTyped DEF At, Depth, Frames

LEMMA AttachInvStep == AttachInv /\ [Next]_vars => AttachInv'
<1> SUFFICES ASSUME AttachInv, [Next]_vars PROVE TypeOK' /\ Attachments'
  BY DEF AttachInv
<1> USE DEF Pcs, Attaching
<1>1. ASSUME NEW th \in Threads, NEW o \in HandleObjects \cup {NULL}, Register(th, o)
      PROVE  TypeOK' /\ Attachments'
  BY <1>1, Enters DEF Register
<1>2. ASSUME NEW th \in Threads, NEW o \in HandleObjects, Deregister(th, o)
      PROVE  TypeOK' /\ Attachments'
  <2>1. hotplugCallbackHandleValue[o] \in Registrations \cup {NULL}
    BY DEF AttachInv, TypeOK
  <2> QED
    BY <1>2, <2>1, Enters DEF Deregister
<1>3. ASSUME NEW th \in Threads, NEW r \in Registrations, LibusbRegister(th, r)
      PROVE  TypeOK' /\ Attachments'
  <2>1. Top(th).object \in HandleObjects \cup {NULL}
    BY <1>3, TopFields DEF LibusbRegister, AttachInv
  <2>2. stack' \in [Threads -> Seq(Frames)] /\ Attachments'
    BY <1>3, <2>1, GoesOn DEF LibusbRegister
  <2> QED
    BY <1>3, <2>1, <2>2 DEF LibusbRegister, AttachInv, TypeOK
<1>4. ASSUME NEW th \in Threads, RegisterFails(th)
      PROVE  TypeOK' /\ Attachments'
  <2>1. stack' \in [Threads -> Seq(Frames)] /\ Attachments'
    BY <1>4, Returns DEF RegisterFails
  <2> QED
    BY <1>4, <2>1 DEF RegisterFails, AttachInv, TypeOK, hotplugVars, registrationVars
<1>5. ASSUME NEW th \in Threads, RegisterReturns(th)
      PROVE  TypeOK' /\ Attachments'
  <2>1. Top(th).reg \in Registrations \cup {NULL}
    BY <1>5, TopFields DEF RegisterReturns, AttachInv
  <2>2. stack' \in [Threads -> Seq(Frames)] /\ Attachments'
    BY <1>5, Returns DEF RegisterReturns
  <2> QED
    BY <1>5, <2>1, <2>2 DEF RegisterReturns, AttachInv, TypeOK, registrationVars
<1>6. ASSUME NEW th \in Threads, LibusbDeregister(th)
      PROVE  TypeOK' /\ Attachments'
  <2>1. Top(th).reg \in Registrations \cup {NULL} /\ Top(th).object \in HandleObjects \cup {NULL}
    BY <1>6, TopFields DEF LibusbDeregister, AttachInv
  <2>2. stack' \in [Threads -> Seq(Frames)] /\ Attachments'
    BY <1>6, <2>1, GoesOn DEF LibusbDeregister
  <2> QED
    BY <1>6, <2>2 DEF LibusbDeregister, AttachInv, TypeOK
<1>7. ASSUME NEW th \in Threads, DeregisterReturns(th)
      PROVE  TypeOK' /\ Attachments'
  <2>1. stack' \in [Threads -> Seq(Frames)] /\ Attachments'
    BY <1>7, Returns DEF DeregisterReturns
  <2> QED
    BY <1>7, <2>1 DEF DeregisterReturns, AttachInv, TypeOK, registrationVars
<1>8. ASSUME NEW th \in Threads, NEW r \in Registrations \cup {NULL}, CallBack(th, r)
      PROVE  TypeOK' /\ Attachments'
  BY <1>8, Enters DEF CallBack
<1>9. ASSUME NEW th \in Threads, CallbackLeaves(th)
      PROVE  TypeOK' /\ Attachments'
  <2>1. stack' \in [Threads -> Seq(Frames)] /\ Attachments'
    BY <1>9, Returns DEF CallbackLeaves
  <2> QED
    BY <1>9, <2>1 DEF CallbackLeaves, AttachInv, TypeOK
<1>10. CASE UNCHANGED vars
  <2>1. TypeOK'
    BY <1>10 DEF vars, AttachInv, TypeOK
  <2>2. attached' = attached /\ stack' = stack
    BY <1>10 DEF vars
  <2>3. Nested' /\ Exact'
    BY <2>2 DEF AttachInv, Attachments, Nested, Exact
  <2>4. ResultsFit'
    BY <2>2 DEF AttachInv, Attachments, ResultsFit
  <2> QED
    BY <2>1, <2>3, <2>4 DEF Attachments
<1> QED
  BY <1>1, <1>2, <1>3, <1>4, <1>5, <1>6, <1>7, <1>8, <1>9, <1>10,
     ThreadBeginKeeps, JavaReturnsKeeps, ThreadEndKeeps DEF Next, RegistrationSteps, CallbackSteps

LEMMA AttachInvInit == Init => AttachInv
<1> SUFFICES ASSUME Init PROVE AttachInv
  OBVIOUS
<1> DEFINE none == <<>>
<1>e. none \in Seq(Frames) /\ Len(none) = 0
  OBVIOUS
<1>1. stack = [th \in Threads |-> none]
  BY DEF Init
<1> HIDE DEF none
<1>2. TypeOK
  BY <1>e, <1>1 DEF Init, TypeOK, Threads
<1>3. \A th \in Threads : Len(stack[th]) = 0 /\ 1 .. Len(stack[th]) = {}
  BY <1>e, <1>1
<1>4. Nested /\ ResultsFit
  BY <1>3 DEF Nested, ResultsFit
<1>5. Exact
  BY <1>3 DEF Init, Exact, Threads
<1> QED
  BY <1>2, <1>4, <1>5 DEF AttachInv, Attachments

LEMMA AttachInvariance == Spec => []AttachInv
<1> QED
  BY AttachInvInit, AttachInvStep, PTL DEF Spec

-----------------------------------------------------------------------------
\* Every stack of native functions is well formed; an object's field holds a
\* registration or nothing.
THEOREM CallbacksTyped == Spec => []TypeOK
<1>1. AttachInv => TypeOK
  BY DEF AttachInv
<1> QED
  BY <1>1, AttachInvariance, PTL

\* However callbacks nest and on however many threads, a thread is attached while
\* native code uses its JNIEnv, a Java thread always is, and a thread of libusb's
\* own never is outside its callbacks.
THEOREM AttachmentsExact == Spec => []AttachmentExact
<1>1. AttachInv => AttachmentExact
  BY ExactIsExact DEF AttachInv, Attachments
<1> QED
  BY <1>1, AttachInvariance, PTL

-----------------------------------------------------------------------------
(***************************************************************************)
(* The inductive invariant behind HandlesNameRegistrations, for clients    *)
(* that hand an object to one call at a time: what each function under way *)
(* knows of its object and of its registration.                            *)
(***************************************************************************)
ObjectsApart ==
    \A x, y \in Threads : \A i \in 1 .. Len(stack[x]), j \in 1 .. Len(stack[y]) :
        stack[x][i].object = stack[y][j].object /\ stack[x][i].object # NULL => x = y /\ i = j

Fits(f) ==
    /\ f.pc \in {"register", "enumerate"} /\ f.object # NULL =>
         hotplugCallbackHandleValue[f.object] = NULL
    /\ f.pc = "enumerate" =>
         f.reg \in Registrations /\ registered[f.reg] # "not yet" /\ madeFor[f.reg] = f.object
    /\ f.pc \in {"deregister", "reset"} =>
         /\ f.object \in HandleObjects /\ f.reg \in Registrations
         /\ hotplugCallbackHandleValue[f.object] = f.reg
    /\ f.pc = "reset" => registered[f.reg] = "ended"

FramesFit == \A x \in Threads : \A i \in 1 .. Len(stack[x]) : Fits(stack[x][i])

HandlesFit ==
    \A o \in HandleObjects : hotplugCallbackHandleValue[o] # NULL =>
        /\ registered[hotplugCallbackHandleValue[o]] # "not yet"
        /\ madeFor[hotplugCallbackHandleValue[o]] = o

Enumerates(r) ==
    \E x \in Threads : \E i \in 1 .. Len(stack[x]) :
        stack[x][i].pc = "enumerate" /\ stack[x][i].reg = r

NoneLost ==
    \A r \in Registrations :
        registered[r] = "live" /\ madeFor[r] # NULL =>
            hotplugCallbackHandleValue[madeFor[r]] = r \/ Enumerates(r)

HandleInv == ObjectsApart /\ FramesFit /\ HandlesFit /\ NoneLost

LEMMA HandleInvImplies == TypeOK /\ HandleInv => HandlesNameRegistrations
<1> SUFFICES ASSUME TypeOK, HandleInv PROVE HandlesNameRegistrations
  OBVIOUS
<1>1. \A th \in Threads : DOMAIN stack[th] = 1 .. Len(stack[th])
  BY LenProperties DEF TypeOK
<1>2. ASSUME NEW r \in Registrations, registered[r] = "live", madeFor[r] # NULL
      PROVE  \/ hotplugCallbackHandleValue[madeFor[r]] = r
             \/ \E th \in Threads : \E i \in DOMAIN stack[th] :
                  stack[th][i].pc = "enumerate" /\ stack[th][i].reg = r
  <2>1. hotplugCallbackHandleValue[madeFor[r]] = r \/ Enumerates(r)
    BY <1>2 DEF HandleInv, NoneLost
  <2>2. CASE Enumerates(r)
    BY <1>1, <2>2 DEF Enumerates
  <2> QED
    BY <2>1, <2>2
<1> QED
  BY <1>2 DEF HandleInv, HandlesFit, HandlesNameRegistrations


\* Frame by frame, what a step leaves on the stacks.
LEMMA PushOccurs ==
    ASSUME stack \in [Threads -> Seq(Frames)], NEW th \in Threads, NEW f \in Frames, Push(th, f)
    PROVE  /\ \A x \in Threads : \A i \in 1 .. Len(stack'[x]) :
                \/ i \in 1 .. Len(stack[x]) /\ stack'[x][i] = stack[x][i]
                \/ x = th /\ i = Len(stack[th]) + 1 /\ stack'[x][i] = f
           /\ \A x \in Threads : \A i \in 1 .. Len(stack[x]) :
                i \in 1 .. Len(stack'[x]) /\ stack'[x][i] = stack[x][i]
<1>1. Len(stack[th]) \in Nat
  OBVIOUS
<1>2. /\ \A x \in Threads : x # th => stack'[x] = stack[x]
      /\ Len(stack'[th]) = Len(stack[th]) + 1
      /\ \A i \in 1 .. Len(stack[th]) : stack'[th][i] = stack[th][i]
      /\ stack'[th][Len(stack[th]) + 1] = f
  BY PushFacts
<1>3. \A i \in 1 .. Len(stack'[th]) : i \in 1 .. Len(stack[th]) \/ i = Len(stack[th]) + 1
  BY <1>1, <1>2
<1>4. \A i \in 1 .. Len(stack[th]) : i \in 1 .. Len(stack'[th])
  BY <1>1, <1>2
<1> QED
  BY <1>2, <1>3, <1>4

LEMMA BecomesOccurs ==
    ASSUME stack \in [Threads -> Seq(Frames)], NEW th \in Threads, NEW f \in Frames,
           Len(stack[th]) > 0, Becomes(th, f)
    PROVE  /\ \A x \in Threads : Len(stack'[x]) = Len(stack[x])
           /\ \A x \in Threads : \A i \in 1 .. Len(stack[x]) :
                stack'[x][i] = IF x = th /\ i = Len(stack[th]) THEN f ELSE stack[x][i]
<1>1. /\ \A x \in Threads : x # th => stack'[x] = stack[x]
      /\ Len(stack'[th]) = Len(stack[th])
      /\ \A i \in 1 .. Len(stack[th]) : i # Len(stack[th]) => stack'[th][i] = stack[th][i]
      /\ stack'[th][Len(stack[th])] = f
  BY BecomesFacts
<1> QED
  BY <1>1

LEMMA PopOccurs ==
    ASSUME stack \in [Threads -> Seq(Frames)], NEW th \in Threads, Len(stack[th]) > 0, Pop(th)
    PROVE  /\ \A x \in Threads : \A i \in 1 .. Len(stack'[x]) :
                /\ i \in 1 .. Len(stack[x]) /\ stack'[x][i] = stack[x][i]
                /\ x # th \/ i # Len(stack[th])
           /\ \A x \in Threads : \A i \in 1 .. Len(stack[x]) :
                x # th \/ i # Len(stack[th]) =>
                    i \in 1 .. Len(stack'[x]) /\ stack'[x][i] = stack[x][i]
<1>1. Len(stack[th]) \in Nat
  OBVIOUS
<1>2. /\ \A x \in Threads : x # th => stack'[x] = stack[x]
      /\ Len(stack'[th]) = Len(stack[th]) - 1
      /\ \A i \in 1 .. Len(stack[th]) : i # Len(stack[th]) => stack'[th][i] = stack[th][i]
  BY PopFacts
<1>3. \A i \in 1 .. Len(stack'[th]) : i \in 1 .. Len(stack[th]) /\ i # Len(stack[th])
  BY <1>1, <1>2
<1>4. \A i \in 1 .. Len(stack[th]) : i # Len(stack[th]) => i \in 1 .. Len(stack'[th])
  BY <1>1, <1>2
<1> QED
  BY <1>2, <1>3, <1>4

LEMMA PushApart ==
    ASSUME stack \in [Threads -> Seq(Frames)], ObjectsApart,
           NEW th \in Threads, NEW f \in Frames, Push(th, f),
           f.object # NULL =>
             \A x \in Threads : \A i \in 1 .. Len(stack[x]) : stack[x][i].object # f.object
    PROVE  ObjectsApart'
<1>1. \A x \in Threads : \A i \in 1 .. Len(stack'[x]) :
        \/ i \in 1 .. Len(stack[x]) /\ stack'[x][i] = stack[x][i]
        \/ x = th /\ i = Len(stack[th]) + 1 /\ stack'[x][i] = f
  BY PushOccurs
<1> SUFFICES ASSUME NEW x \in Threads, NEW y \in Threads,
                    NEW i \in 1 .. Len(stack'[x]), NEW j \in 1 .. Len(stack'[y]),
                    stack'[x][i].object = stack'[y][j].object, stack'[x][i].object # NULL
             PROVE  x = y /\ i = j
  BY DEF ObjectsApart
<1>2. CASE /\ i \in 1 .. Len(stack[x]) /\ stack'[x][i] = stack[x][i]
           /\ j \in 1 .. Len(stack[y]) /\ stack'[y][j] = stack[y][j]
  BY <1>2 DEF ObjectsApart
<1>3. CASE x = th /\ i = Len(stack[th]) + 1 /\ stack'[x][i] = f
  <2>1. f.object # NULL /\ stack'[y][j].object = f.object
    BY <1>3
  <2>2. ~(j \in 1 .. Len(stack[y]) /\ stack'[y][j] = stack[y][j])
    BY <2>1
  <2>3. y = th /\ j = Len(stack[th]) + 1
    BY <1>1, <2>2
  <2> QED
    BY <1>3, <2>3
<1>4. CASE y = th /\ j = Len(stack[th]) + 1 /\ stack'[y][j] = f
  <2>1. f.object # NULL /\ stack'[x][i].object = f.object
    BY <1>4
  <2>2. ~(i \in 1 .. Len(stack[x]) /\ stack'[x][i] = stack[x][i])
    BY <2>1
  <2>3. x = th /\ i = Len(stack[th]) + 1
    BY <1>1, <2>2
  <2> QED
    BY <1>4, <2>3
<1> QED
  BY <1>1, <1>2, <1>3, <1>4

LEMMA BecomesApart ==
    ASSUME stack \in [Threads -> Seq(Frames)], ObjectsApart,
           NEW th \in Threads, NEW f \in Frames, Len(stack[th]) > 0, Becomes(th, f),
           f.object = Top(th).object
    PROVE  ObjectsApart'
<1>1. /\ \A x \in Threads : Len(stack'[x]) = Len(stack[x])
      /\ \A x \in Threads : \A i \in 1 .. Len(stack[x]) : stack'[x][i].object = stack[x][i].object
  BY BecomesOccurs DEF Top, Depth
<1> SUFFICES ASSUME NEW x \in Threads, NEW y \in Threads,
                    NEW i \in 1 .. Len(stack'[x]), NEW j \in 1 .. Len(stack'[y]),
                    stack'[x][i].object = stack'[y][j].object, stack'[x][i].object # NULL
             PROVE  x = y /\ i = j
  BY DEF ObjectsApart
<1>2. /\ i \in 1 .. Len(stack[x]) /\ stack'[x][i].object = stack[x][i].object
      /\ j \in 1 .. Len(stack[y]) /\ stack'[y][j].object = stack[y][j].object
  BY <1>1
<1>3. stack[x][i].object = stack[y][j].object /\ stack[x][i].object # NULL
  BY <1>2
<1> QED
  BY <1>2, <1>3 DEF ObjectsApart

LEMMA PopApart ==
    ASSUME stack \in [Threads -> Seq(Frames)], ObjectsApart,
           NEW th \in Threads, Len(stack[th]) > 0, Pop(th)
    PROVE  ObjectsApart'
<1>1. \A x \in Threads : \A i \in 1 .. Len(stack'[x]) :
        i \in 1 .. Len(stack[x]) /\ stack'[x][i] = stack[x][i]
  BY PopOccurs
<1> SUFFICES ASSUME NEW x \in Threads, NEW y \in Threads,
                    NEW i \in 1 .. Len(stack'[x]), NEW j \in 1 .. Len(stack'[y]),
                    stack'[x][i].object = stack'[y][j].object, stack'[x][i].object # NULL
             PROVE  x = y /\ i = j
  BY DEF ObjectsApart
<1>2. /\ i \in 1 .. Len(stack[x]) /\ stack'[x][i] = stack[x][i]
      /\ j \in 1 .. Len(stack[y]) /\ stack'[y][j] = stack[y][j]
  BY <1>1
<1> QED
  BY <1>2 DEF ObjectsApart

\* What the steps leave of the registrations' part.
LEMMA KeepsFit ==
    ASSUME FramesFit, UNCHANGED hotplugVars,
           \A x \in Threads : \A i \in 1 .. Len(stack'[x]) :
             \/ i \in 1 .. Len(stack[x]) /\ stack'[x][i] = stack[x][i]
             \/ Fits(stack'[x][i])
    PROVE  FramesFit'
<1> SUFFICES ASSUME NEW x \in Threads, NEW i \in 1 .. Len(stack'[x])
             PROVE  Fits(stack[x][i])'
  BY DEF FramesFit
<1>1. Fits(stack'[x][i])
  BY DEF FramesFit
<1> QED
  BY <1>1 DEF Fits, hotplugVars, registrationVars

LEMMA KeepsHandles ==
    ASSUME HandlesFit, NoneLost, UNCHANGED <<registrationVars, hotplugCallbackHandleValue>>,
           \A r \in Registrations : Enumerates(r) => Enumerates(r)'
    PROVE  HandlesFit' /\ NoneLost'
BY DEF HandlesFit, NoneLost, registrationVars

LEMMA PushEnumerates ==
    ASSUME stack \in [Threads -> Seq(Frames)], NEW th \in Threads, NEW f \in Frames, Push(th, f),
           NEW r, Enumerates(r)
    PROVE  Enumerates(r)'
<1>1. PICK x \in Threads : \E i \in 1 .. Len(stack[x]) :
        stack[x][i].pc = "enumerate" /\ stack[x][i].reg = r
  BY DEF Enumerates
<1>2. \A i \in 1 .. Len(stack[x]) : i \in 1 .. Len(stack'[x]) /\ stack'[x][i] = stack[x][i]
  BY PushOccurs
<1> QED
  BY <1>1, <1>2 DEF Enumerates

LEMMA BecomesEnumerates ==
    ASSUME stack \in [Threads -> Seq(Frames)], NEW th \in Threads, NEW f \in Frames,
           Len(stack[th]) > 0, Becomes(th, f),
           NEW r, Top(th).pc # "enumerate" \/ Top(th).reg # r, Enumerates(r)
    PROVE  Enumerates(r)'
BY BecomesOccurs DEF Enumerates, Top, Depth

LEMMA PopEnumerates ==
    ASSUME stack \in [Threads -> Seq(Frames)], NEW th \in Threads, Len(stack[th]) > 0, Pop(th),
           NEW r, Top(th).pc # "enumerate" \/ Top(th).reg # r, Enumerates(r)
    PROVE  Enumerates(r)'
BY PopOccurs DEF Enumerates, Top, Depth

\* A function that is entered.
LEMMA PushHandleInv ==
    ASSUME TypeOK, HandleInv, NEW th \in Threads, NEW f \in Frames, Push(th, f), Fits(f),
           UNCHANGED hotplugVars,
           f.object # NULL =>
             \A x \in Threads : \A i \in 1 .. Len(stack[x]) : stack[x][i].object # f.object
    PROVE  HandleInv'
<1>1. stack \in [Threads -> Seq(Frames)]
  BY DEF TypeOK
<1>2. ObjectsApart'
  BY <1>1, PushApart DEF HandleInv
<1>3. \A x \in Threads : \A i \in 1 .. Len(stack'[x]) :
        \/ i \in 1 .. Len(stack[x]) /\ stack'[x][i] = stack[x][i]
        \/ stack'[x][i] = f
  BY <1>1, PushOccurs
<1>4. FramesFit'
  BY <1>3, KeepsFit DEF HandleInv
<1>5. \A r \in Registrations : Enumerates(r) => Enumerates(r)'
  BY <1>1, PushEnumerates
<1>6. HandlesFit' /\ NoneLost'
  BY <1>5, KeepsHandles DEF HandleInv, hotplugVars
<1> QED
  BY <1>2, <1>4, <1>6 DEF HandleInv

\* A callback's steps between its entry and its end.
LEMMA BecomesHandleInv ==
    ASSUME TypeOK, HandleInv, NEW th \in Threads, NEW f \in Frames, Len(stack[th]) > 0,
           Becomes(th, f), f.pc \in {"java", "end", "leave"}, f.object = Top(th).object,
           Top(th).pc # "enumerate", UNCHANGED hotplugVars
    PROVE  HandleInv'
<1>1. stack \in [Threads -> Seq(Frames)]
  BY DEF TypeOK
<1>2. ObjectsApart'
  BY <1>1, BecomesApart DEF HandleInv
<1>3. \A x \in Threads : \A i \in 1 .. Len(stack'[x]) :
        \/ i \in 1 .. Len(stack[x]) /\ stack'[x][i] = stack[x][i]
        \/ stack'[x][i] = f
  BY <1>1, BecomesOccurs
<1>4. Fits(f)
  BY DEF Fits
<1>5. FramesFit'
  BY <1>3, <1>4, KeepsFit DEF HandleInv
<1>6. \A r \in Registrations : Enumerates(r) => Enumerates(r)'
  BY <1>1, BecomesEnumerates
<1>7. HandlesFit' /\ NoneLost'
  BY <1>6, KeepsHandles DEF HandleInv, hotplugVars
<1> QED
  BY <1>2, <1>5, <1>7 DEF HandleInv

LEMMA RegisterFailsHandleInv ==
    ASSUME TypeOK, HandleInv, NEW th \in Threads, RegisterFails(th)
    PROVE  HandleInv'
<1>1. /\ stack \in [Threads -> Seq(Frames)] /\ Len(stack[th]) > 0 /\ Pop(th)
      /\ Top(th).pc = "register" /\ UNCHANGED hotplugVars
  BY DEF TypeOK, RegisterFails, At, Depth
<1>2. ObjectsApart'
  BY <1>1, PopApart DEF HandleInv
<1>3. \A x \in Threads : \A i \in 1 .. Len(stack'[x]) :
        i \in 1 .. Len(stack[x]) /\ stack'[x][i] = stack[x][i]
  BY <1>1, PopOccurs
<1>4. FramesFit'
  BY <1>1, <1>3, KeepsFit DEF HandleInv
<1>5. \A r \in Registrations : Enumerates(r) => Enumerates(r)'
  BY <1>1, PopEnumerates
<1>6. HandlesFit' /\ NoneLost'
  BY <1>1, <1>5, KeepsHandles DEF HandleInv, hotplugVars
<1> QED
  BY <1>2, <1>4, <1>6 DEF HandleInv

LEMMA LibusbRegisterHandleInv ==
    ASSUME TypeOK, HandleInv, NEW th \in Threads, NEW r \in Registrations, LibusbRegister(th, r)
    PROVE  HandleInv'
<1> DEFINE n == Len(stack[th])
           f == Frame("enumerate", r, Top(th).object)
<1>1. /\ stack \in [Threads -> Seq(Frames)] /\ Len(stack[th]) > 0
      /\ Top(th).pc = "register" /\ Top(th) = stack[th][n] /\ n \in 1 .. n
  BY TopIsTyped DEF TypeOK, LibusbRegister, At, Depth, Top
<1>2. /\ Becomes(th, f) /\ f \in Frames
      /\ f.pc = "enumerate" /\ f.reg = r /\ f.object = Top(th).object
  BY TopFields, FrameTyped DEF LibusbRegister, Frame, Pcs
<1> HIDE DEF f
<1>3. /\ \A x \in Threads : Len(stack'[x]) = Len(stack[x])
      /\ \A x \in Threads : \A i \in 1 .. Len(stack[x]) :
           stack'[x][i] = IF x = th /\ i = n THEN f ELSE stack[x][i]
  BY <1>1, <1>2, BecomesOccurs
<1>4. /\ registered[r] = "not yet"
      /\ \A q \in Registrations :
           q # r => registered'[q] = registered[q] /\ madeFor'[q] = madeFor[q]
      /\ registered'[r] = "live" /\ madeFor'[r] = Top(th).object
      /\ UNCHANGED hotplugCallbackHandleValue
  BY DEF TypeOK, LibusbRegister
<1>5. ObjectsApart'
  BY <1>1, <1>2, BecomesApart DEF HandleInv
<1>6. FramesFit'
  <2> SUFFICES ASSUME NEW x \in Threads, NEW i \in 1 .. Len(stack'[x])
               PROVE  Fits(stack[x][i])'
    BY DEF FramesFit
  <2>1. CASE x = th /\ i = n
    <3>1. f.object # NULL => hotplugCallbackHandleValue[f.object] = NULL
      <4>1. Fits(Top(th))
        BY <1>1 DEF HandleInv, FramesFit
      <4> QED
        BY <1>1, <1>2, <4>1 DEF Fits
    <3>2. stack'[x][i] = f
      BY <1>1, <1>3, <2>1
    <3>3. registered'[f.reg] = "live" /\ madeFor'[f.reg] = f.object
      BY <1>2, <1>4
    <3> QED
      BY <1>2, <1>4, <3>1, <3>2, <3>3 DEF Fits
  <2>2. CASE ~(x = th /\ i = n)
    <3>1. stack'[x][i] = stack[x][i] /\ Fits(stack[x][i])
      BY <1>3, <2>2 DEF HandleInv, FramesFit
    <3> QED
      BY <1>4, <3>1 DEF Fits
  <2> QED
    BY <2>1, <2>2
<1>7. HandlesFit'
  BY <1>4 DEF HandleInv, HandlesFit, TypeOK
<1>8. NoneLost'
  <2>1. Enumerates(r)'
    BY <1>1, <1>2, <1>3 DEF Enumerates
  <2>2. \A q \in Registrations : Enumerates(q) => Enumerates(q)'
    BY <1>1, <1>2, BecomesEnumerates
  <2> QED
    BY <1>4, <2>1, <2>2 DEF HandleInv, NoneLost
<1> QED
  BY <1>5, <1>6, <1>7, <1>8 DEF HandleInv

\* The field of the object changes, and no other call has the object.
LEMMA RegisterReturnsHandleInv ==
    ASSUME TypeOK, HandleInv, NEW th \in Threads, RegisterReturns(th)
    PROVE  HandleInv'
<1> DEFINE n == Len(stack[th])
           o == Top(th).object
           r == Top(th).reg
<1>1. /\ stack \in [Threads -> Seq(Frames)] /\ Len(stack[th]) > 0 /\ Pop(th)
      /\ Top(th).pc = "enumerate" /\ Top(th) = stack[th][n] /\ n \in 1 .. n
  BY TopIsTyped DEF TypeOK, RegisterReturns, At, Depth, Top
<1>2. /\ r \in Registrations /\ registered[r] # "not yet" /\ madeFor[r] = o
      /\ o # NULL => hotplugCallbackHandleValue[o] = NULL
  <2>1. Fits(stack[th][n])
    BY <1>1 DEF HandleInv, FramesFit
  <2> QED
    BY <1>1, <2>1 DEF Fits
<1>3. o \in HandleObjects \cup {NULL}
  BY TopFields DEF RegisterReturns
<1>4. /\ registered' = registered /\ madeFor' = madeFor
      /\ o = NULL => hotplugCallbackHandleValue' = hotplugCallbackHandleValue
      /\ o # NULL => hotplugCallbackHandleValue'[o] = r
      /\ \A p \in HandleObjects :
           p # o => hotplugCallbackHandleValue'[p] = hotplugCallbackHandleValue[p]
  BY <1>3 DEF TypeOK, RegisterReturns, registrationVars
<1> HIDE DEF o, r
<1>5. ObjectsApart'
  BY <1>1, PopApart DEF HandleInv
<1>6. FramesFit'
  <2> SUFFICES ASSUME NEW x \in Threads, NEW i \in 1 .. Len(stack'[x])
               PROVE  Fits(stack[x][i])'
    BY DEF FramesFit
  <2>1. /\ i \in 1 .. Len(stack[x]) /\ stack'[x][i] = stack[x][i]
        /\ x # th \/ i # n
    BY <1>1, PopOccurs
  <2>2. Fits(stack[x][i]) /\ stack[x][i].object \in HandleObjects \cup {NULL}
    <3>1. stack[x] \in Seq(Frames)
      BY <1>1
    <3>2. stack[x][i] \in Frames
      BY <2>1, <3>1
    <3> QED
      BY <2>1, <3>2 DEF HandleInv, FramesFit, Frames
  <2>3. stack[x][i].object = NULL \/ stack[x][i].object # o
    BY <1>1, <2>1 DEF HandleInv, ObjectsApart, o
  <2> QED
    BY <1>4, <2>1, <2>2, <2>3 DEF Fits
<1>7. HandlesFit'
  BY <1>2, <1>4 DEF HandleInv, HandlesFit
<1>8. NoneLost'
  <2>1. \A q \in Registrations : q # r /\ Enumerates(q) => Enumerates(q)'
    BY <1>1, PopEnumerates DEF r
  <2> SUFFICES ASSUME NEW q \in Registrations, registered[q] = "live", madeFor[q] # NULL
               PROVE  hotplugCallbackHandleValue'[madeFor[q]] = q \/ Enumerates(q)'
    BY <1>4 DEF NoneLost
  <2>2. madeFor[q] \in HandleObjects
    BY DEF TypeOK
  <2>3. hotplugCallbackHandleValue[madeFor[q]] = q \/ Enumerates(q)
    BY DEF HandleInv, NoneLost
  <2>4. CASE q = r
    BY <1>2, <1>4, <2>4
  <2>5. CASE q # r /\ Enumerates(q)
    BY <2>1, <2>5
  <2>6. CASE q # r /\ hotplugCallbackHandleValue[madeFor[q]] = q
    BY <1>2, <1>4, <2>2, <2>6, CallbacksAssumption
  <2> QED
    BY <2>3, <2>4, <2>5, <2>6
<1> QED
  BY <1>5, <1>6, <1>7, <1>8 DEF HandleInv

LEMMA LibusbDeregisterHandleInv ==
    ASSUME TypeOK, HandleInv, NEW th \in Threads, LibusbDeregister(th)
    PROVE  HandleInv'
<1> DEFINE n == Len(stack[th])
           r == Top(th).reg
           f == Frame("reset", r, Top(th).object)
<1>1. /\ stack \in [Threads -> Seq(Frames)] /\ Len(stack[th]) > 0
      /\ Top(th).pc = "deregister" /\ Top(th) = stack[th][n] /\ n \in 1 .. n
  BY TopIsTyped DEF TypeOK, LibusbDeregister, At, Depth, Top
<1>2. Fits(Top(th))
  BY <1>1 DEF HandleInv, FramesFit
<1>3. /\ Becomes(th, f) /\ f \in Frames
      /\ f.pc = "reset" /\ f.reg = r /\ f.object = Top(th).object
  BY TopFields, FrameTyped DEF LibusbDeregister, Frame, Pcs
<1> HIDE DEF f
<1>4. /\ \A x \in Threads : Len(stack'[x]) = Len(stack[x])
      /\ \A x \in Threads : \A i \in 1 .. Len(stack[x]) :
           stack'[x][i] = IF x = th /\ i = n THEN f ELSE stack[x][i]
  BY <1>1, <1>3, BecomesOccurs
<1>5. /\ \A q \in Registrations : registered'[q] = IF q = r THEN "ended" ELSE registered[q]
      /\ UNCHANGED <<madeFor, hotplugCallbackHandleValue>>
  BY DEF TypeOK, LibusbDeregister
<1>6. ObjectsApart'
  BY <1>1, <1>3, BecomesApart DEF HandleInv
<1>7. FramesFit'
  <2> SUFFICES ASSUME NEW x \in Threads, NEW i \in 1 .. Len(stack'[x])
               PROVE  Fits(stack[x][i])'
    BY DEF FramesFit
  <2>1. CASE x = th /\ i = n
    <3>1. /\ f.object \in HandleObjects /\ f.reg \in Registrations
          /\ hotplugCallbackHandleValue[f.object] = f.reg
      BY <1>1, <1>2, <1>3 DEF Fits
    <3>2. stack'[x][i] = f
      BY <1>1, <1>4, <2>1
    <3>3. registered'[f.reg] = "ended"
      BY <1>3, <1>5, <3>1
    <3> QED
      BY <1>3, <1>5, <3>1, <3>2, <3>3 DEF Fits
  <2>2. CASE ~(x = th /\ i = n)
    <3>1. stack'[x][i] = stack[x][i] /\ Fits(stack[x][i])
      BY <1>4, <2>2 DEF HandleInv, FramesFit
    <3> QED
      BY <1>5, <3>1 DEF Fits
  <2> QED
    BY <2>1, <2>2
<1>8. HandlesFit'
  <2> SUFFICES ASSUME NEW o \in HandleObjects, hotplugCallbackHandleValue[o] # NULL
               PROVE  /\ registered'[hotplugCallbackHandleValue[o]] # "not yet"
                      /\ madeFor[hotplugCallbackHandleValue[o]] = o
    BY <1>5 DEF HandlesFit
  <2>1. hotplugCallbackHandleValue[o] \in Registrations
    BY DEF TypeOK
  <2> QED
    BY <1>5, <2>1 DEF HandleInv, HandlesFit
<1>9. NoneLost'
  <2>1. \A q \in Registrations : Enumerates(q) => Enumerates(q)'
    BY <1>1, <1>3, BecomesEnumerates
  <2> QED
    BY <1>5, <2>1 DEF HandleInv, NoneLost
<1> QED
  BY <1>6, <1>7, <1>8, <1>9 DEF HandleInv

LEMMA DeregisterReturnsHandleInv ==
    ASSUME TypeOK, HandleInv, NEW th \in Threads, DeregisterReturns(th)
    PROVE  HandleInv'
<1> DEFINE n == Len(stack[th])
           o == Top(th).object
<1>1. /\ stack \in [Threads -> Seq(Frames)] /\ Len(stack[th]) > 0 /\ Pop(th)
      /\ Top(th).pc = "reset" /\ Top(th) = stack[th][n] /\ n \in 1 .. n
  BY TopIsTyped DEF TypeOK, DeregisterReturns, At, Depth, Top
<1>2. /\ o \in HandleObjects /\ hotplugCallbackHandleValue[o] \in Registrations
      /\ registered[hotplugCallbackHandleValue[o]] = "ended"
  <2>1. Fits(stack[th][n])
    BY <1>1 DEF HandleInv, FramesFit
  <2> QED
    BY <1>1, <2>1 DEF Fits
<1>3. /\ registered' = registered /\ madeFor' = madeFor
      /\ \A p \in HandleObjects :
           hotplugCallbackHandleValue'[p] = IF p = o THEN NULL ELSE hotplugCallbackHandleValue[p]
  BY DEF TypeOK, DeregisterReturns, registrationVars
<1> HIDE DEF o
<1>4. ObjectsApart'
  BY <1>1, PopApart DEF HandleInv
<1>5. FramesFit'
  <2> SUFFICES ASSUME NEW x \in Threads, NEW i \in 1 .. Len(stack'[x])
               PROVE  Fits(stack[x][i])'
    BY DEF FramesFit
  <2>1. /\ i \in 1 .. Len(stack[x]) /\ stack'[x][i] = stack[x][i]
        /\ x # th \/ i # n
    BY <1>1, PopOccurs
  <2>2. Fits(stack[x][i]) /\ stack[x][i].object \in HandleObjects \cup {NULL}
    <3>1. stack[x] \in Seq(Frames)
      BY <1>1
    <3>2. stack[x][i] \in Frames
      BY <2>1, <3>1
    <3> QED
      BY <2>1, <3>2 DEF HandleInv, FramesFit, Frames
  <2>3. stack[x][i].object = NULL \/ stack[x][i].object # o
    BY <1>1, <2>1 DEF HandleInv, ObjectsApart, o
  <2> QED
    BY <1>3, <2>1, <2>2, <2>3, CallbacksAssumption DEF Fits
<1>6. HandlesFit'
  BY <1>3 DEF HandleInv, HandlesFit
<1>7. NoneLost'
  <2>1. \A q \in Registrations : Enumerates(q) => Enumerates(q)'
    BY <1>1, PopEnumerates
  <2> SUFFICES ASSUME NEW q \in Registrations, registered[q] = "live", madeFor[q] # NULL
               PROVE  hotplugCallbackHandleValue'[madeFor[q]] = q \/ Enumerates(q)'
    BY <1>3 DEF NoneLost
  <2>2. madeFor[q] \in HandleObjects
    BY DEF TypeOK
  <2>3. hotplugCallbackHandleValue[madeFor[q]] = q \/ Enumerates(q)
    BY DEF HandleInv, NoneLost
  <2> QED
    BY <1>2, <1>3, <2>1, <2>2, <2>3
<1> QED
  BY <1>4, <1>5, <1>6, <1>7 DEF HandleInv

LEMMA CallbackLeavesHandleInv ==
    ASSUME TypeOK, HandleInv, NEW th \in Threads, CallbackLeaves(th)
    PROVE  HandleInv'
<1>1. /\ stack \in [Threads -> Seq(Frames)] /\ Len(stack[th]) > 0 /\ Pop(th)
      /\ Top(th).pc = "leave"
  BY DEF TypeOK, CallbackLeaves, At, Depth
<1>2. /\ \A q \in Registrations : registered'[q] \in {registered[q], "ended"}
      /\ UNCHANGED <<madeFor, hotplugCallbackHandleValue>>
  BY DEF TypeOK, CallbackLeaves
<1>3. ObjectsApart'
  BY <1>1, PopApart DEF HandleInv
<1>4. FramesFit'
  <2> SUFFICES ASSUME NEW x \in Threads, NEW i \in 1 .. Len(stack'[x])
               PROVE  Fits(stack[x][i])'
    BY DEF FramesFit
  <2>1. stack'[x][i] = stack[x][i] /\ Fits(stack[x][i])
    BY <1>1, PopOccurs DEF HandleInv, FramesFit
  <2> QED
    BY <1>2, <2>1 DEF Fits
<1>5. HandlesFit'
  BY <1>2 DEF HandleInv, HandlesFit, TypeOK
<1>6. NoneLost'
  <2>1. \A q \in Registrations : Enumerates(q) => Enumerates(q)'
    BY <1>1, PopEnumerates
  <2> QED
    BY <1>2, <2>1 DEF HandleInv, NoneLost
<1> QED
  BY <1>3, <1>4, <1>5, <1>6 DEF HandleInv

LEMMA HandleInvStep ==
    ASSUME ~ShareHandles, TypeOK, HandleInv, [Next]_vars
    PROVE  HandleInv'
<1>s. stack \in [Threads -> Seq(Frames)]
  BY DEF TypeOK
<1>p. \A o \in HandleObjects : MayPass(o) =>
        \A x \in Threads : \A i \in 1 .. Len(stack[x]) : stack[x][i].object # o
  BY <1>s, LenProperties DEF MayPass
<1>1. ASSUME NEW th \in Threads, NEW o \in HandleObjects \cup {NULL}, Register(th, o)
      PROVE  HandleInv'
  <2> DEFINE f == Frame("register", NULL, o)
  <2>1. f \in Frames /\ f.pc = "register" /\ f.object = o /\ Push(th, f)
    BY <1>1, FrameTyped DEF Register, Frame, Pcs
  <2> HIDE DEF f
  <2>2. Fits(f)
    BY <1>1, <2>1 DEF Fits, Register
  <2> QED
    BY <1>1, <1>p, <2>1, <2>2, PushHandleInv DEF Register
<1>2. ASSUME NEW th \in Threads, NEW o \in HandleObjects, Deregister(th, o)
      PROVE  HandleInv'
  <2> DEFINE f == Frame("deregister", hotplugCallbackHandleValue[o], o)
  <2>1. hotplugCallbackHandleValue[o] \in Registrations
    BY <1>2 DEF Deregister, TypeOK
  <2>2. /\ f \in Frames /\ f.pc = "deregister" /\ f.object = o /\ Push(th, f)
        /\ f.reg = hotplugCallbackHandleValue[o]
    BY <1>2, <2>1, FrameTyped DEF Deregister, Frame, Pcs
  <2> HIDE DEF f
  <2>3. Fits(f)
    BY <1>2, <2>1, <2>2 DEF Fits
  <2> QED
    BY <1>2, <1>p, <2>2, <2>3, PushHandleInv DEF Deregister
<1>3. ASSUME NEW th \in Threads, NEW r \in Registrations \cup {NULL}, CallBack(th, r)
      PROVE  HandleInv'
  <2> DEFINE f == Frame("begin", r, NULL)
  <2>1. f \in Frames /\ f.pc = "begin" /\ f.object = NULL /\ Push(th, f)
    BY <1>3, FrameTyped DEF CallBack, Frame, Pcs
  <2> HIDE DEF f
  <2>2. Fits(f)
    BY <2>1 DEF Fits
  <2> QED
    BY <1>3, <2>1, <2>2, PushHandleInv DEF CallBack
<1>4. ASSUME NEW th \in Threads, ThreadBegin(th) \/ JavaReturns(th) \/ ThreadEnd(th)
      PROVE  HandleInv'
  <2>1. Len(stack[th]) > 0 /\ Top(th).pc \in {"begin", "java", "end"} /\ UNCHANGED hotplugVars
    BY <1>4 DEF ThreadBegin, JavaReturns, ThreadEnd, At, Depth
  <2>2. Top(th) \in Frames
    BY <2>1, TopIsTyped
  <2>3. PICK f \in Frames : /\ Becomes(th, f)
                            /\ f.pc \in {"java", "end", "leave"} /\ f.object = Top(th).object
    <3>1. \A result \in {"JNI_OK", "JNI_EDETACHED"} :
            /\ [Top(th) EXCEPT !.pc = "java", !.result = result] \in Frames
            /\ [Top(th) EXCEPT !.pc = "java", !.result = result].pc = "java"
            /\ [Top(th) EXCEPT !.pc = "java", !.result = result].object = Top(th).object
      BY <2>2 DEF Frames, Pcs
    <3>2. \A last \in BOOLEAN :
            /\ [Top(th) EXCEPT !.pc = "end", !.last = last] \in Frames
            /\ [Top(th) EXCEPT !.pc = "end", !.last = last].pc = "end"
            /\ [Top(th) EXCEPT !.pc = "end", !.last = last].object = Top(th).object
      BY <2>2 DEF Frames, Pcs
    <3>3. /\ [Top(th) EXCEPT !.pc = "leave"] \in Frames
          /\ [Top(th) EXCEPT !.pc = "leave"].pc = "leave"
          /\ [Top(th) EXCEPT !.pc = "leave"].object = Top(th).object
      BY <2>2 DEF Frames, Pcs
    <3>4. CASE ThreadBegin(th)
      BY <3>1, <3>4 DEF ThreadBegin
    <3>5. CASE JavaReturns(th)
      BY <3>2, <3>5 DEF JavaReturns
    <3>6. CASE ThreadEnd(th)
      BY <3>3, <3>6 DEF ThreadEnd
    <3> QED
      BY <1>4, <3>4, <3>5, <3>6
  <2> QED
    BY <2>1, <2>3, BecomesHandleInv
<1>5. CASE UNCHANGED vars
  <2>1. /\ UNCHANGED <<stack, hotplugVars>>
        /\ UNCHANGED <<registrationVars, hotplugCallbackHandleValue>>
    BY <1>5 DEF vars, hotplugVars, registrationVars
  <2>2. ObjectsApart'
    BY <2>1 DEF HandleInv, ObjectsApart
  <2>3. FramesFit'
    BY <2>1, KeepsFit DEF HandleInv
  <2>4. HandlesFit' /\ NoneLost'
    BY <2>1, KeepsHandles DEF HandleInv, Enumerates
  <2> QED
    BY <2>2, <2>3, <2>4 DEF HandleInv
<1> QED
  BY <1>1, <1>2, <1>3, <1>4, <1>5, LibusbRegisterHandleInv, RegisterFailsHandleInv,
     RegisterReturnsHandleInv, LibusbDeregisterHandleInv, DeregisterReturnsHandleInv,
     CallbackLeavesHandleInv DEF Next, RegistrationSteps, CallbackSteps

LEMMA HandleInvInit == Init => HandleInv
<1> SUFFICES ASSUME Init PROVE HandleInv
  OBVIOUS
<1>1. \A th \in Threads : 1 .. Len(stack[th]) = {}
  <2> DEFINE none == <<>>
  <2>1. Len(none) = 0
    OBVIOUS
  <2>2. stack = [th \in Threads |-> none]
    BY DEF Init
  <2> HIDE DEF none
  <2> QED
    BY <2>1, <2>2
<1>2. ObjectsApart /\ FramesFit
  BY <1>1 DEF ObjectsApart, FramesFit
<1>3. HandlesFit /\ NoneLost
  BY DEF Init, HandlesFit, NoneLost
<1> QED
  BY <1>2, <1>3 DEF HandleInv

\* No registration gets out of reach and no object names another's, if clients hand
\* an object to one call at a time; the run callbacks_reentrant shows what happens
\* if they do not.
THEOREM HandlesName == ~ShareHandles => (Spec => []HandlesNameRegistrations)
<1> SUFFICES ASSUME ~ShareHandles PROVE Spec => []HandlesNameRegistrations
  OBVIOUS
<1>1. TypeOK /\ HandleInv /\ [Next]_vars => HandleInv'
  BY HandleInvStep
<1>2. TypeOK /\ HandleInv => HandlesNameRegistrations
  BY HandleInvImplies
<1> QED
  BY <1>1, <1>2, HandleInvInit, CallbacksTyped, PTL DEF Spec

-----------------------------------------------------------------------------
\* "If callbackHandle is set, the Java object must be fresh/empty" (LibUsb.c:1828)
\* is still true when the handle is stored, after libusb and its callbacks have run,
\* if clients hand an object to one call at a time; the run callbacks_reentrant shows
\* that it is not for others.
THEOREM HandlesStoredFresh == ~ShareHandles => (Spec => HandleObjectsFresh)
<1> SUFFICES ASSUME ~ShareHandles PROVE Spec => HandleObjectsFresh
  OBVIOUS
<1> DEFINE Fresh ==
      \A o \in HandleObjects :
          hotplugCallbackHandleValue'[o] # hotplugCallbackHandleValue[o]
              => NULL \in {hotplugCallbackHandleValue[o], hotplugCallbackHandleValue'[o]}
<1>1. TypeOK /\ HandleInv /\ [Next]_vars => HandleInv'
  BY HandleInvStep
<1>2. TypeOK /\ HandleInv /\ [Next]_vars => [Fresh]_vars
  <2> SUFFICES ASSUME TypeOK, HandleInv, NEW th \in Threads,
                      RegistrationSteps(th) \/ CallbackSteps(th),
                      NEW o \in HandleObjects,
                      hotplugCallbackHandleValue'[o] # hotplugCallbackHandleValue[o]
               PROVE  NULL \in {hotplugCallbackHandleValue[o], hotplugCallbackHandleValue'[o]}
    BY DEF Next
  <2>1. RegisterReturns(th) \/ DeregisterReturns(th)
    BY DEF RegistrationSteps, CallbackSteps, Register, LibusbRegister, RegisterFails, Deregister,
       LibusbDeregister, CallBack, ThreadBegin, JavaReturns, ThreadEnd, CallbackLeaves,
       hotplugVars
  <2>2. Len(stack[th]) \in 1 .. Len(stack[th]) /\ Top(th) = stack[th][Len(stack[th])]
    <3>1. Len(stack[th]) \in Nat /\ Len(stack[th]) > 0
      BY <2>1, LenProperties DEF RegisterReturns, DeregisterReturns, At, Depth, TypeOK
    <3> QED
      BY <3>1 DEF Top, Depth
  <2>3. Fits(Top(th))
    BY <2>2 DEF HandleInv, FramesFit
  <2>4. CASE RegisterReturns(th)
    <3>1. /\ Top(th).pc = "enumerate" /\ Top(th).object # NULL /\ o = Top(th).object
          /\ hotplugCallbackHandleValue[o] = NULL
      BY <2>3, <2>4 DEF RegisterReturns, At, Fits, TypeOK
    <3> QED
      BY <3>1
  <2>5. CASE DeregisterReturns(th)
    BY <2>5 DEF DeregisterReturns, TypeOK
  <2> QED
    BY <2>1, <2>4, <2>5
<1> QED
  BY <1>1, <1>2, HandleInvInit, CallbacksTyped, PTL DEF Spec, HandleObjectsFresh

-----------------------------------------------------------------------------
(***************************************************************************)
(* Registrations implement Ownership.  Under HandleInv an object answers   *)
(* for the registrations in force that were made for it, and for one at    *)
(* most; so a step is told by what it does to registered and madeFor.      *)
(***************************************************************************)
IsFor(r, o) == registered[r] = "live" /\ madeFor[r] = o

AnswersFit ==
    /\ Answered \in [HandleObjects -> Registrations \cup {NULL}]
    /\ \A o \in HandleObjects : \A r \in Registrations : Answered[o] = r <=> IsFor(r, o)

\* Two registrations in force for one object are one and the same.
LEMMA OneIsFor ==
    ASSUME TypeOK, HandleInv, NEW o \in HandleObjects,
           NEW q \in Registrations, NEW r \in Registrations, IsFor(q, o), IsFor(r, o)
    PROVE  q = r
<1>1. o # NULL
  BY CallbacksAssumption
<1>2. ASSUME NEW s \in Registrations, IsFor(s, o)
      PROVE  \/ hotplugCallbackHandleValue[o] = s
             \/ \E x \in Threads : \E i \in 1 .. Len(stack[x]) :
                  /\ stack[x][i].pc = "enumerate" /\ stack[x][i].reg = s
                  /\ stack[x][i].object = o /\ hotplugCallbackHandleValue[o] = NULL
  <2>1. hotplugCallbackHandleValue[o] = s \/ Enumerates(s)
    BY <1>1, <1>2 DEF IsFor, HandleInv, NoneLost
  <2>2. ASSUME NEW x \in Threads, NEW i \in 1 .. Len(stack[x]),
               stack[x][i].pc = "enumerate", stack[x][i].reg = s
        PROVE  stack[x][i].object = o /\ hotplugCallbackHandleValue[o] = NULL
    <3>1. Fits(stack[x][i])
      BY DEF HandleInv, FramesFit
    <3> QED
      BY <1>1, <1>2, <2>2, <3>1 DEF Fits, IsFor
  <2> QED
    BY <2>1, <2>2 DEF Enumerates
<1>3. NULL \notin Registrations
  BY CallbacksAssumption
<1>4. CASE hotplugCallbackHandleValue[o] # NULL
  BY <1>2, <1>4
<1>5. CASE hotplugCallbackHandleValue[o] = NULL
  <2>1. /\ \E x \in Threads : \E i \in 1 .. Len(stack[x]) :
             stack[x][i].reg = q /\ stack[x][i].object = o
        /\ \E y \in Threads : \E j \in 1 .. Len(stack[y]) :
             stack[y][j].reg = r /\ stack[y][j].object = o
    BY <1>2, <1>3, <1>5
  <2> QED
    BY <1>1, <2>1 DEF HandleInv, ObjectsApart
<1> QED
  BY <1>4, <1>5

LEMMA AnswersKnown ==
    ASSUME TypeOK, HandleInv, NEW o \in HandleObjects
    PROVE  Answers(o) = {r \in Registrations : IsFor(r, o)}
<1>1. o # NULL
  BY CallbacksAssumption
<1>2. \A x \in Threads : DOMAIN stack[x] = 1 .. Len(stack[x])
  BY LenProperties DEF TypeOK
<1>3. ASSUME NEW r \in Answers(o)
      PROVE  IsFor(r, o)
  <2>1. r \in Registrations /\ registered[r] = "live"
    BY DEF Answers
  <2>2. CASE hotplugCallbackHandleValue[o] = r
    BY <2>1, <2>2, CallbacksAssumption DEF HandleInv, HandlesFit, IsFor
  <2>3. ASSUME NEW x \in Threads, NEW i \in DOMAIN stack[x], stack[x][i].pc = "enumerate",
               stack[x][i].object = o, stack[x][i].reg = r
        PROVE  IsFor(r, o)
    <3>1. Fits(stack[x][i])
      BY <1>2 DEF HandleInv, FramesFit
    <3> QED
      BY <2>1, <2>3, <3>1 DEF Fits, IsFor
  <2> QED
    BY <2>2, <2>3 DEF Answers
<1>4. ASSUME NEW r \in Registrations, IsFor(r, o)
      PROVE  r \in Answers(o)
  <2>1. hotplugCallbackHandleValue[o] = r \/ Enumerates(r)
    BY <1>1, <1>4 DEF IsFor, HandleInv, NoneLost
  <2>2. ASSUME NEW x \in Threads, NEW i \in 1 .. Len(stack[x]), stack[x][i].pc = "enumerate",
               stack[x][i].reg = r
        PROVE  i \in DOMAIN stack[x] /\ stack[x][i].object = o
    <3>1. Fits(stack[x][i])
      BY DEF HandleInv, FramesFit
    <3> QED
      BY <1>2, <1>4, <2>2, <3>1 DEF Fits, IsFor
  <2> QED
    BY <1>4, <2>1, <2>2 DEF Answers, Enumerates, IsFor
<1> QED
  BY <1>3, <1>4 DEF Answers

LEMMA AnswersAreFit == TypeOK /\ HandleInv => AnswersFit
<1> SUFFICES ASSUME TypeOK, HandleInv PROVE AnswersFit
  OBVIOUS
<1>1. \A o \in HandleObjects :
        Answered[o] = IF Answers(o) = {} THEN NULL ELSE CHOOSE r \in Answers(o) : TRUE
  BY DEF Answered
<1>2. \A o \in HandleObjects :
        (Answered[o] = NULL /\ Answers(o) = {}) \/ Answered[o] \in Answers(o)
  BY <1>1
<1>3. ASSUME NEW o \in HandleObjects
      PROVE  /\ Answered[o] \in Registrations \cup {NULL}
             /\ \A r \in Registrations : Answered[o] = r <=> IsFor(r, o)
  BY <1>2, AnswersKnown, OneIsFor, CallbacksAssumption
<1> QED
  BY <1>3 DEF AnswersFit, Answered

-----------------------------------------------------------------------------
\* Three kinds of step: those that make or end no registration, that end one, that
\* make one.
LEMMA NoneMadeNoneEnded ==
    ASSUME AnswersFit, AnswersFit', UNCHANGED <<registered, madeFor>>
    PROVE  UNCHANGED <<Answered, InForce>>
<1>1. \A o \in HandleObjects : Answered'[o] = Answered[o]
  <2> SUFFICES ASSUME NEW o \in HandleObjects PROVE Answered'[o] = Answered[o]
    OBVIOUS
  <2>1. /\ Answered[o] \in Registrations \cup {NULL} /\ Answered'[o] \in Registrations \cup {NULL}
        /\ \A r \in Registrations : Answered[o] = r <=> Answered'[o] = r
    BY DEF AnswersFit, IsFor
  <2> QED
    BY <2>1, CallbacksAssumption
<1>2. Answered' = Answered
  BY <1>1 DEF Answered
<1> QED
  BY <1>2 DEF InForce

LEMMA Ended ==
    ASSUME TypeOK, AnswersFit, AnswersFit', NEW r \in Registrations \cup {NULL},
           registered' = [registered EXCEPT ![r] = "ended"], UNCHANGED madeFor
    PROVE  [Registration!Next]_<<Answered, InForce>>
<1>1. /\ \A q \in Registrations : q # r => registered'[q] = registered[q]
      /\ r \in Registrations => registered'[r] = "ended"
      /\ NULL \notin Registrations \cup HandleObjects
  BY CallbacksAssumption DEF TypeOK
<1>2. CASE r \in InForce
  <2> DEFINE o == madeFor[r]
  <2>1. r \in Registrations /\ o \in HandleObjects /\ IsFor(r, o) /\ registered'[r] = "ended"
    BY <1>1, <1>2 DEF InForce, TypeOK, IsFor
  <2> HIDE DEF o
  <2>2. Answered[o] = r
    BY <2>1 DEF AnswersFit
  <2>3. ASSUME NEW x \in HandleObjects
        PROVE  Answered'[x] = IF x = o THEN NULL ELSE Answered[x]
    <3>1. /\ Answered[x] \in Registrations \cup {NULL}
          /\ Answered'[x] \in Registrations \cup {NULL}
          /\ \A q \in Registrations : Answered[x] = q <=> IsFor(q, x)
          /\ \A q \in Registrations : Answered'[x] = q <=> IsFor(q, x)'
      BY DEF AnswersFit
    <3>2. \A q \in Registrations : IsFor(q, x)' <=> IsFor(q, x) /\ q # r
      BY <1>1, <2>1 DEF IsFor
    <3>3. IsFor(r, x) <=> x = o
      BY <2>1 DEF IsFor
    <3>4. x = o => Answered[x] = r
      BY <2>2
    <3> QED
      BY <1>1, <2>1, <3>1, <3>2, <3>3, <3>4
  <2>4. Answered' = [Answered EXCEPT ![o] = NULL]
    BY <2>3 DEF AnswersFit
  <2>5. InForce' = InForce \ {Answered[o]}
    BY <1>1, <2>1, <2>2 DEF InForce
  <2>6. Registration!Release(o)
    BY <1>1, <2>1, <2>2, <2>4, <2>5 DEF Registration!Release
  <2> QED
    BY <2>1, <2>6 DEF Registration!Next
<1>3. CASE r \notin InForce
  <2>1. \A q \in Registrations : \A o \in HandleObjects : IsFor(q, o)' <=> IsFor(q, o)
    BY <1>1, <1>3 DEF IsFor, InForce
  <2>2. ASSUME NEW o \in HandleObjects PROVE Answered'[o] = Answered[o]
    <3>1. /\ Answered[o] \in Registrations \cup {NULL} /\ Answered'[o] \in Registrations \cup {NULL}
          /\ \A q \in Registrations : Answered[o] = q <=> Answered'[o] = q
      BY <2>1 DEF AnswersFit
    <3> QED
      BY <3>1, <1>1
  <2>3. Answered' = Answered
    BY <2>2 DEF Answered
  <2>4. InForce' = InForce
    BY <1>1, <1>3 DEF InForce
  <2> QED
    BY <2>3, <2>4
<1> QED
  BY <1>2, <1>3

LEMMA Made ==
    ASSUME TypeOK, HandleInv, AnswersFit, AnswersFit', NEW th \in Threads,
           NEW r \in Registrations, LibusbRegister(th, r)
    PROVE  [Registration!Next]_<<Answered, InForce>>
<1> DEFINE o == Top(th).object
<1>1. /\ o \in HandleObjects \cup {NULL}
      /\ registered[r] = "not yet" /\ registered'[r] = "live" /\ madeFor'[r] = o
      /\ \A q \in Registrations : q # r => registered'[q] = registered[q] /\ madeFor'[q] = madeFor[q]
      /\ NULL \notin Registrations \cup HandleObjects
  BY TopFields, CallbacksAssumption DEF LibusbRegister, TypeOK
<1>2. Fits(Top(th)) /\ Top(th).pc = "register" /\ Top(th).object = o
  BY TopIsTyped DEF HandleInv, FramesFit, LibusbRegister, At, Depth, Top
<1>3. \A q \in Registrations : \A x \in HandleObjects :
        IsFor(q, x)' <=> IsFor(q, x) \/ (q = r /\ x = o)
  BY <1>1 DEF IsFor
<1>4. InForce' = IF o = NULL THEN InForce ELSE InForce \cup {r}
  BY <1>1 DEF InForce
<1>5. ASSUME NEW x \in HandleObjects
      PROVE  Answered'[x] = IF x = o THEN r ELSE Answered[x]
  <2>1. /\ Answered[x] \in Registrations \cup {NULL} /\ Answered'[x] \in Registrations \cup {NULL}
        /\ \A q \in Registrations : Answered[x] = q <=> IsFor(q, x)
        /\ \A q \in Registrations : Answered'[x] = q <=> IsFor(q, x)'
    BY DEF AnswersFit
  <2> QED
    BY <1>1, <1>3, <2>1
<1> HIDE DEF o
<1>6. CASE o = NULL
  <2>1. Answered' = Answered
    BY <1>1, <1>5, <1>6 DEF Answered
  <2> QED
    BY <1>4, <1>6, <2>1
<1>7. CASE o # NULL
  <2>1. Answered[o] = NULL
    <3>1. Answered[o] \in Registrations \cup {NULL}
      BY <1>1, <1>7 DEF AnswersFit
    <3>2. ASSUME NEW q \in Registrations, IsFor(q, o)
          PROVE  FALSE
      <4>1. hotplugCallbackHandleValue[o] = NULL
        BY <1>2, <1>7 DEF Fits
      <4>2. hotplugCallbackHandleValue[o] # q /\ registered[q] = "live" /\ madeFor[q] = o
        BY <1>1, <3>2, <4>1 DEF IsFor
      <4>3. Enumerates(q)
        BY <1>7, <4>2 DEF HandleInv, NoneLost
      <4>4. PICK x \in Threads : \E i \in 1 .. Len(stack[x]) :
              stack[x][i].pc = "enumerate" /\ stack[x][i].reg = q
        BY <4>3 DEF Enumerates
      <4>5. PICK i \in 1 .. Len(stack[x]) :
              stack[x][i].pc = "enumerate" /\ stack[x][i].reg = q
        BY <4>4
      <4>6. Fits(stack[x][i])
        BY DEF HandleInv, FramesFit
      <4>7. stack[x][i].object = o
        BY <3>2, <4>5, <4>6 DEF Fits, IsFor
      <4>8. Len(stack[th]) \in 1 .. Len(stack[th]) /\ Top(th) = stack[th][Len(stack[th])]
        BY TopIsTyped DEF LibusbRegister, At, Depth, Top
      <4>9. x = th /\ i = Len(stack[th])
        BY <1>2, <1>7, <4>7, <4>8 DEF HandleInv, ObjectsApart
      <4> QED
        BY <1>2, <4>5, <4>8, <4>9
    <3> QED
      BY <1>1, <1>7, <3>1, <3>2 DEF AnswersFit
  <2>2. Answered' = [Answered EXCEPT ![o] = r]
    BY <1>1, <1>5, <1>7 DEF AnswersFit
  <2>3. r \notin InForce
    BY <1>1 DEF InForce
  <2>4. Registration!Acquire(o, r)
    BY <1>4, <1>7, <2>1, <2>2, <2>3 DEF Registration!Acquire
  <2> QED
    BY <1>1, <1>7, <2>4 DEF Registration!Next
<1> QED
  BY <1>6, <1>7

LEMMA OwnershipStep ==
    ASSUME TypeOK, HandleInv, AnswersFit, AnswersFit', [Next]_vars
    PROVE  [Registration!Next]_<<Answered, InForce>>
<1>1. ASSUME NEW th \in Threads, RegistrationSteps(th) \/ CallbackSteps(th)
      PROVE  [Registration!Next]_<<Answered, InForce>>
  <2>1. \/ \E r \in Registrations : LibusbRegister(th, r)
        \/ LibusbDeregister(th) \/ CallbackLeaves(th)
        \/ UNCHANGED <<registered, madeFor>>
    BY <1>1 DEF RegistrationSteps, CallbackSteps, Register, RegisterFails, RegisterReturns,
       Deregister, DeregisterReturns, CallBack, ThreadBegin, JavaReturns, ThreadEnd,
       hotplugVars, registrationVars
  <2>2. CASE LibusbDeregister(th)
    <3>1. Top(th).reg \in Registrations \cup {NULL}
      BY <2>2, TopFields DEF LibusbDeregister
    <3> QED
      BY <2>2, <3>1, Ended DEF LibusbDeregister
  <2>3. CASE CallbackLeaves(th)
    <3>1. Top(th).reg \in Registrations \cup {NULL}
      BY <2>3, TopFields DEF CallbackLeaves
    <3> QED
      BY <2>3, <3>1, Ended, NoneMadeNoneEnded DEF CallbackLeaves
  <2> QED
    BY <2>1, <2>2, <2>3, Made, NoneMadeNoneEnded
<1>2. CASE UNCHANGED vars
  BY <1>2, NoneMadeNoneEnded DEF vars, registrationVars
<1> QED
  BY <1>1, <1>2 DEF Next

LEMMA OwnershipInit == Init => Registration!Init
<1> SUFFICES ASSUME Init PROVE Registration!Init
  OBVIOUS
<1>1. InForce = {} /\ \A o \in HandleObjects : Answers(o) = {}
  BY DEF Init, InForce, Answers
<1> QED
  BY <1>1 DEF Registration!Init, Answered

\* Registrations implement Ownership, for clients that hand an object to one call at
\* a time: an object answers for one registration at a time, from the moment libusb
\* makes it, before its handle is stored, to the moment it ends.
THEOREM RegistrationsImplementOwnership == ~ShareHandles => (Spec => RegistrationsOwned)
<1> SUFFICES ASSUME ~ShareHandles PROVE Spec => RegistrationsOwned
  OBVIOUS
<1>1. TypeOK /\ HandleInv /\ [Next]_vars => HandleInv'
  BY HandleInvStep
<1>2. TypeOK /\ HandleInv /\ AnswersFit /\ AnswersFit' /\ [Next]_vars
        => [Registration!Next]_<<Answered, InForce>>
  BY OwnershipStep
<1> QED
  BY <1>1, <1>2, AnswersAreFit, OwnershipInit, HandleInvInit, CallbacksTyped, PTL
  DEF Spec, RegistrationsOwned, Registration!Spec
===============================================================================
