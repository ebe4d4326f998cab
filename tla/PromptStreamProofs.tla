--------------------------- MODULE PromptStreamProofs ---------------------------
(***************************************************************************)
(* PromptStream proved for every set of prompts and providers:             *)
(*                                                                         *)
(*   TypeCorrect    the variables keep to their types (TypeOK),            *)
(*   NoDeltaLost    no text is leaked or fetched twice (DeltasAwaited),    *)
(*   RepliesAgree   what a prompt's callbacks have gathered is its reply   *)
(*                  and what was stored (ShownIsReply),                    *)
(*   AnswersAreText the response is the text outside the tags, however the *)
(*                  stream is cut into chunks (ResponseIsAnswer).          *)
(*                                                                         *)
(* DeltasAwaited is inductive with the types.  ShownIsReply needs          *)
(* Replying: what has been gathered and what is on its way to the isolate  *)
(* make up the response so far (Gathered), the completion is the last post *)
(* of its prompt (CompletesLast), and the answer was stored before         *)
(* (StoredFirst).                                                          *)
(*                                                                         *)
(* ResponseIsAnswer needs Parsing: between two chunks the parser is inside *)
(* or outside as the text so far says, holds back a "<" at its end, and    *)
(* has handed on the answer before that (ParsedUpTo).  In a chunk, what is *)
(* left of it is what is left of the text after some symbol, which is not  *)
(* the first of a tag (Reading); a round keeps this and goes on by a       *)
(* symbol at least.                                                        *)
(*                                                                         *)
(* The types of what the parser and FlattenSeq return are inductions over  *)
(* numbers.  They are derived from the least element of a set of numbers   *)
(* (Induction), and with them that a function defined by recursion on its  *)
(* argument exists (RecursionExists).                                      *)
(***************************************************************************)
EXTENDS PromptStream, SequenceTheorems, WellFoundedInduction, TLAPS

(* A nonempty set of numbers has a least one, and so what holds of 0 and   *)
(* from one number to the next holds of all.                               *)
LEMMA LeastExists ==
  ASSUME NEW T \in SUBSET Nat, T # {}
  PROVE  \E n \in T : \A m \in T : n <= m
<1> DEFINE R == OpToRel(<, Nat)
<1>1. IsWellFoundedOn(R, Nat)
  BY NatLessThanWellFounded
<1>2. \A x \in Nat : \A y \in Nat : y < x => <<y, x>> \in R
  BY DEF OpToRel
<1> HIDE DEF R
<1>3. PICK n \in T : \A m \in T : ~(<<m, n>> \in R)
  BY <1>1, WFMin
<1>4. \A m \in T : n <= m
  <2> TAKE m \in T
  <2>1. ~(m < n) /\ m \in Nat /\ n \in Nat
    BY <1>2, <1>3
  <2> QED
    BY <2>1
<1> QED
  BY <1>4

LEMMA Induction ==
  ASSUME NEW N \in Nat, NEW P, 0 \in P, \A n \in 0..N : n # N /\ n \in P => n + 1 \in P
  PROVE  0..N \subseteq P
<1> SUFFICES ASSUME ~(0..N \subseteq P) PROVE FALSE
  OBVIOUS
<1> DEFINE T == {n \in 0..N : n \notin P}
<1>1. T \in SUBSET Nat /\ T # {}
  OBVIOUS
<1>2. PICK n \in T : \A m \in T : n <= m
  <2> HIDE DEF T
  <2> QED
    BY <1>1, LeastExists
<1>3. n \in 1..N
  OBVIOUS
<1>4. n - 1 \in 0..N /\ n - 1 # N /\ (n - 1) + 1 = n /\ ~(n <= n - 1)
  BY <1>3
<1>5. n - 1 \in P
  BY <1>2, <1>4
<1> QED
  BY <1>4, <1>5

(* A function on 0..N may be defined by what it is at 0 and by a step.     *)
Follows(f, N, a, step) == \A n \in 0..N : f[n] = IF n = 0 THEN a ELSE step[n][f[n - 1]]

LEMMA RecursionExists ==
  ASSUME NEW S, NEW a \in S, NEW N \in Nat, NEW step \in [1..N -> [S -> S]]
  PROVE  \E f \in [0..N -> S] : Follows(f, N, a, step)
<1> DEFINE P == {n \in 0..N : \E f \in [0..n -> S] :
                                \A k \in 0..n : f[k] = IF k = 0 THEN a ELSE step[k][f[k - 1]]}
<1>1. 0 \in P
  <2> DEFINE f == [k \in 0..0 |-> a]
  <2>1. f \in [0..0 -> S] /\ \A k \in 0..0 : f[k] = IF k = 0 THEN a ELSE step[k][f[k - 1]]
    OBVIOUS
  <2> HIDE DEF f
  <2> QED
    BY <2>1
<1>2. ASSUME NEW n \in 0..N, n # N, n \in P PROVE n + 1 \in P
  <2>1. PICK f \in [0..n -> S] : \A k \in 0..n : f[k] = IF k = 0 THEN a ELSE step[k][f[k - 1]]
    BY <1>2
  <2>2. n + 1 \in 1..N /\ n + 1 \in 0..N /\ (n + 1) - 1 = n /\ n \in 0..n /\ n + 1 \notin 0..n
    BY <1>2
  <2> DEFINE g == [k \in 0..n + 1 |-> IF k = n + 1 THEN step[n + 1][f[n]] ELSE f[k]]
  <2>3. \A k \in 0..n + 1 : k \in 0..n \/ k = n + 1
    BY <1>2
  <2>4. f[n] \in S /\ step[n + 1][f[n]] \in S
    BY <2>1, <2>2
  <2>5. g \in [0..n + 1 -> S]
    BY <2>1, <2>3, <2>4
  <2>6. \A k \in 0..n + 1 : g[k] = IF k = 0 THEN a ELSE step[k][g[k - 1]]
    <3> TAKE k \in 0..n + 1
    <3>1. CASE k = n + 1
      <4>1. g[n] = f[n] /\ n \in 0..n + 1
        BY <1>2, <2>2
      <4> QED
        BY <2>2, <3>1, <4>1
    <3>2. CASE k \in 0..n
      <4>1. g[k] = f[k] /\ (k # 0 => k - 1 \in 0..n /\ k - 1 \in 0..n + 1 /\ g[k - 1] = f[k - 1])
        BY <1>2, <2>2, <3>2
      <4> QED
        BY <2>1, <3>2, <4>1
    <3> QED
      BY <2>3, <3>1, <3>2
  <2> HIDE DEF g
  <2> QED
    BY <2>2, <2>5, <2>6
<1> HIDE DEF P
<1>3. N \in P
  <2>1. 0..N \subseteq P
    BY <1>1, <1>2, Induction
  <2> QED
    BY <2>1
<1> QED
  BY <1>3 DEF P, Follows
-----------------------------------------------------------------------------
(* The running result of an operation over a list of elements.             *)
FoldOf(f, N, elem, op) == \A i \in 1..N : f[i] = IF i = 1 THEN elem[i] ELSE op[f[i - 1]][elem[i]]

LEMMA RunningFold ==
  ASSUME NEW T, NEW N \in Nat, NEW elem \in [1..N -> T], NEW op \in [T -> [T -> T]], N # 0
  PROVE  \E f \in [1..N -> T] : FoldOf(f, N, elem, op)
<1>1. PICK a \in T : a = elem[1]
  OBVIOUS
<1>2. PICK step \in [1..N -> [T -> T]] :
         \A n \in 1..N : \A x \in T : step[n][x] = IF n = 1 THEN elem[n] ELSE op[x][elem[n]]
  <2> DEFINE st == [n \in 1..N |-> [x \in T |-> IF n = 1 THEN elem[n] ELSE op[x][elem[n]]]]
  <2>1. st \in [1..N -> [T -> T]]
    OBVIOUS
  <2> QED
    BY <2>1
<1>3. PICK g \in [0..N -> T] : \A n \in 0..N : g[n] = IF n = 0 THEN a ELSE step[n][g[n - 1]]
  <2>1. \E g \in [0..N -> T] : Follows(g, N, a, step)
    BY RecursionExists
  <2> QED
    BY <2>1 DEF Follows
<1>4. ASSUME NEW i \in 1..N PROVE g[i] = IF i = 1 THEN elem[i] ELSE op[g[i - 1]][elem[i]]
  <2>1. i \in 0..N /\ i # 0 /\ i - 1 \in 0..N
    OBVIOUS
  <2>2. g[i] = step[i][g[i - 1]] /\ g[i - 1] \in T
    BY <1>3, <2>1
  <2> QED
    BY <1>2, <2>2
<1>5. PICK f \in [1..N -> T] : \A i \in 1..N : f[i] = g[i]
  <2>1. [i \in 1..N |-> g[i]] \in [1..N -> T]
    OBVIOUS
  <2> QED
    BY <2>1
<1>6. \A i \in 1..N : i # 1 => i - 1 \in 1..N
  OBVIOUS
<1>7. \A i \in 1..N : f[i] = IF i = 1 THEN elem[i] ELSE op[f[i - 1]][elem[i]]
  BY <1>4, <1>5, <1>6
<1> QED
  BY <1>7 DEF FoldOf

(* FlattenSeq puts sequences one after the other.                          *)
LEMMA FlattenIs ==
  ASSUME NEW S, NEW s \in Seq(Seq(S)), s # <<>>
  PROVE  \E f \in [1..Len(s) -> Seq(S)] :
            /\ FlattenSeq(s) = f[Len(s)]
            /\ \A i \in 1..Len(s) : f[i] = IF i = 1 THEN s[1] ELSE f[i - 1] \o s[i]
<1> DEFINE N == Len(s)
           flat == CHOOSE f : f = [i \in 1..N |-> IF i = 1 THEN s[i] ELSE f[i - 1] \o s[i]]
<1>1. N \in Nat /\ N # 0 /\ N \in 1..N /\ \A i \in 1..N : s[i] \in Seq(S)
  <2>1. N \in Nat /\ \A i \in 1..N : s[i] \in Seq(S)
    BY ElementOfSeq, LenProperties
  <2>2. N # 0
    BY EmptySeq
  <2> QED
    BY <2>1, <2>2
<1>2. FlattenSeq(s) = flat[N]
  BY <1>1 DEF FlattenSeq
<1> HIDE DEF N
<1>3. \E f : f = [i \in 1..N |-> IF i = 1 THEN s[i] ELSE f[i - 1] \o s[i]]
  <2>1. PICK T : T = Seq(S)
    OBVIOUS
  <2> DEFINE op == [x \in T |-> [y \in T |-> x \o y]]
  <2>2. op \in [T -> [T -> T]] /\ \A x, y \in T : op[x][y] = x \o y
    BY <2>1, ConcatProperties
  <2>3. PICK elem \in [1..N -> T] : \A i \in 1..N : elem[i] = s[i]
    <3>1. [i \in 1..N |-> s[i]] \in [1..N -> T]
      BY <1>1, <2>1
    <3> QED
      BY <3>1
  <2> HIDE DEF op
  <2>4. PICK g \in [1..N -> T] : \A i \in 1..N : g[i] = IF i = 1 THEN elem[i] ELSE op[g[i - 1]][elem[i]]
    <3>1. \E g \in [1..N -> T] : FoldOf(g, N, elem, op)
      BY <1>1, <2>2, RunningFold
    <3> QED
      BY <3>1 DEF FoldOf
  <2>5. ASSUME NEW i \in 1..N PROVE g[i] = IF i = 1 THEN s[i] ELSE g[i - 1] \o s[i]
    <3>1. i # 1 => i - 1 \in 1..N
      BY <1>1
    <3>2. i # 1 => g[i - 1] \in T /\ s[i] \in T
      BY <1>1, <2>1, <3>1
    <3>3. g[i] = IF i = 1 THEN elem[i] ELSE op[g[i - 1]][elem[i]]
      BY <2>4
    <3>4. elem[i] = s[i]
      BY <2>3
    <3>5. i # 1 => op[g[i - 1]][s[i]] = g[i - 1] \o s[i]
      BY <2>2, <3>2
    <3> QED
      BY <3>3, <3>4, <3>5
  <2>6. g = [i \in 1..N |-> IF i = 1 THEN s[i] ELSE g[i - 1] \o s[i]]
    BY <2>5
  <2> QED
    BY <2>6
<1>4. flat = [i \in 1..N |-> IF i = 1 THEN s[i] ELSE flat[i - 1] \o s[i]]
  BY <1>3
<1> HIDE DEF flat
<1>5. \A i \in 1..N : flat[i] = IF i = 1 THEN s[1] ELSE flat[i - 1] \o s[i]
  BY <1>4
<1>6. \A i \in 1..N : flat[i] \in Seq(S)
  <2> DEFINE P == {n \in 0..N : n = 0 \/ flat[n] \in Seq(S)}
  <2>1. 0 \in P
    BY <1>1
  <2>2. ASSUME NEW n \in 0..N, n # N, n \in P PROVE n + 1 \in P
    <3>1. n + 1 \in 1..N /\ (n + 1) - 1 = n /\ n + 1 \in 0..N
      BY <1>1, <2>2
    <3>2. CASE n = 0
      <4>1. flat[n + 1] = s[n + 1]
        BY <1>5, <3>1, <3>2
      <4> QED
        BY <1>1, <3>1, <4>1
    <3>3. CASE n # 0
      <4>1. flat[n + 1] = flat[n] \o s[n + 1] /\ flat[n] \in Seq(S) /\ s[n + 1] \in Seq(S)
        <5>1. n + 1 # 1
          BY <3>3
        <5> QED
          BY <1>1, <1>5, <2>2, <3>1, <3>3, <5>1
      <4>2. flat[n + 1] \in Seq(S)
        BY <4>1, ConcatProperties
      <4> QED
        BY <3>1, <4>2
    <3> QED
      BY <3>2, <3>3
  <2> HIDE DEF P
  <2>3. 0..N \subseteq P
    BY <1>1, <2>1, <2>2, Induction
  <2>4. \A i \in 1..N : i \in 0..N /\ i # 0
    BY <1>1
  <2> QED
    BY <2>3, <2>4 DEF P
<1>7. flat \in [1..N -> Seq(S)]
  BY <1>4, <1>6
<1> QED
  BY <1>2, <1>5, <1>7 DEF N

LEMMA FlattenEmpty == FlattenSeq(<<>>) = <<>>
  BY EmptySeq DEF FlattenSeq

LEMMA FlattenType ==
  ASSUME NEW S, NEW s \in Seq(Seq(S))
  PROVE  FlattenSeq(s) \in Seq(S)
<1>1. CASE s = <<>>
  BY <1>1, FlattenEmpty, EmptySeq
<1>2. CASE s # <<>>
  <2>1. PICK f \in [1..Len(s) -> Seq(S)] : FlattenSeq(s) = f[Len(s)]
    BY <1>2, FlattenIs
  <2>2. Len(s) \in 1..Len(s)
    BY <1>2
  <2> QED
    BY <2>1, <2>2
<1> QED
  BY <1>1, <1>2

LEMMA FlattenOne ==
  ASSUME NEW S, NEW x \in Seq(S)
  PROVE  FlattenSeq(<<x>>) = x
<1>1. <<x>> \in Seq(Seq(S)) /\ <<x>> # <<>> /\ Len(<<x>>) = 1 /\ <<x>>[1] = x
  OBVIOUS
<1>2. PICK f \in [1..1 -> Seq(S)] : FlattenSeq(<<x>>) = f[1] /\ f[1] = x
  <2>1. 1 \in 1..1
    OBVIOUS
  <2>2. PICK f \in [1..Len(<<x>>) -> Seq(S)] :
            /\ FlattenSeq(<<x>>) = f[Len(<<x>>)]
            /\ \A i \in 1..Len(<<x>>) : f[i] = IF i = 1 THEN <<x>>[1] ELSE f[i - 1] \o <<x>>[i]
    BY <1>1, FlattenIs
  <2> QED
    BY <1>1, <2>1, <2>2
<1> QED
  BY <1>2

LEMMA FlattenAppend ==
  ASSUME NEW S, NEW s \in Seq(Seq(S)), NEW x \in Seq(S)
  PROVE  FlattenSeq(Append(s, x)) = FlattenSeq(s) \o x
<1>1. CASE s = <<>>
  <2>1. Append(s, x) = <<x>>
    BY <1>1
  <2> QED
    BY <1>1, <2>1, FlattenOne, FlattenEmpty, ConcatEmptySeq
<1>2. CASE s # <<>>
  <2> DEFINE N == Len(s)
             t == Append(s, x)
  <2>1. /\ N \in Nat /\ N # 0 /\ t \in Seq(Seq(S)) /\ t # <<>> /\ Len(t) = N + 1
        /\ \A i \in 1..N : t[i] = s[i]
        /\ t[N + 1] = x
    BY <1>2, EmptySeq
  <2>2. PICK f \in [1..Len(s) -> Seq(S)] :
            /\ FlattenSeq(s) = f[Len(s)]
            /\ \A i \in 1..Len(s) : f[i] = IF i = 1 THEN s[1] ELSE f[i - 1] \o s[i]
    BY <1>2, FlattenIs
  <2> HIDE DEF t
  <2>3. PICK g \in [1..Len(t) -> Seq(S)] :
            /\ FlattenSeq(t) = g[Len(t)]
            /\ \A i \in 1..Len(t) : g[i] = IF i = 1 THEN t[1] ELSE g[i - 1] \o t[i]
    <3>1. t \in Seq(Seq(S)) /\ t # <<>>
      BY <2>1
    <3> HIDE <2>1
    <3> QED
      BY <3>1, FlattenIs
  <2> DEFINE P == {n \in 0..N : n = 0 \/ g[n] = f[n]}
  <2>4. 0 \in P
    BY <2>1
  <2> HIDE DEF N
  <2>5. ASSUME NEW n \in 0..N, n # N, n \in P PROVE n + 1 \in P
    <3>1. n + 1 \in 1..N /\ (n + 1) - 1 = n /\ n + 1 \in 0..N /\ n + 1 \in 1..N + 1 /\ (n # 0 => n + 1 # 1)
      BY <2>1, <2>5
    <3>2. t[n + 1] = s[n + 1]
      BY <2>1, <3>1
    <3>3. /\ f[n + 1] = IF n + 1 = 1 THEN s[1] ELSE f[n] \o s[n + 1]
          /\ g[n + 1] = IF n + 1 = 1 THEN t[1] ELSE g[n] \o t[n + 1]
      BY <2>1, <2>2, <2>3, <3>1 DEF N
    <3>4. g[n + 1] = f[n + 1]
      BY <2>5, <3>1, <3>2, <3>3, SMTT(20)
    <3> QED
      BY <3>1, <3>4
  <2>6. N \in P
    <3> HIDE DEF P
    <3>1. 0..N \subseteq P
      BY <2>1, <2>4, <2>5, Induction
    <3> QED
      BY <2>1, <3>1
  <2>7. g[N] = f[N]
    BY <2>1, <2>6
  <2>8. g[N + 1] = g[N] \o x
    <3>1. N + 1 \in 1..N + 1 /\ N + 1 # 1 /\ (N + 1) - 1 = N
      BY <2>1
    <3> QED
      BY <2>1, <2>3, <3>1
  <2> QED
    BY <2>1, <2>2, <2>3, <2>7, <2>8 DEF N, t
<1> QED
  BY <1>1, <1>2

(* The library's facts about \o, for one set of elements at a time.        *)
LEMMA ConcatAssoc ==
  ASSUME NEW S
  PROVE  \A s, t, u \in Seq(S) : (s \o t) \o u = s \o (t \o u)
<1> SUFFICES ASSUME NEW s \in Seq(S), NEW t \in Seq(S), NEW u \in Seq(S)
             PROVE  (s \o t) \o u = s \o (t \o u)
  OBVIOUS
<1> QED
  BY ConcatAssociative

LEMMA TextAssoc == \A s, t, u \in Seq(Symbols) : (s \o t) \o u = s \o (t \o u)
  BY ConcatAssoc

LEMMA ConcatAppend ==
  ASSUME NEW S
  PROVE  \A s, t \in Seq(S), x \in S : s \o Append(t, x) = Append(s \o t, x)
<1> SUFFICES ASSUME NEW s \in Seq(S), NEW t \in Seq(S), NEW x \in S
             PROVE  s \o Append(t, x) = Append(s \o t, x)
  OBVIOUS
<1>1. PICK u \in Seq(S) : u = <<x>>
  <2>1. <<x>> \in Seq(S)
    OBVIOUS
  <2> QED
    BY <2>1
<1>2. s \o t \in Seq(S)
  BY ConcatProperties
<1>3. Append(t, x) = t \o u /\ Append(s \o t, x) = (s \o t) \o u
  BY <1>1, <1>2, AppendIsConcat
<1>4. (s \o t) \o u = s \o (t \o u)
  BY ConcatAssoc
<1> QED
  BY <1>3, <1>4

LEMMA FlattenConcat ==
  ASSUME NEW S, NEW s \in Seq(Seq(S)), NEW t \in Seq(Seq(S))
  PROVE  FlattenSeq(s \o t) = FlattenSeq(s) \o FlattenSeq(t)
<1>a. \A u \in Seq(Seq(S)), v \in Seq(Seq(S)), x \in Seq(S) : u \o Append(v, x) = Append(u \o v, x)
  BY ConcatAppend, SMTT(20)
<1>b. \A u \in Seq(S), v \in Seq(S), w \in Seq(S) : (u \o v) \o w = u \o (v \o w)
  BY ConcatAssoc, SMTT(20)
<1> DEFINE N == Len(t)
           P == {n \in 0..N : FlattenSeq(s \o SubSeq(t, 1, n)) = FlattenSeq(s) \o FlattenSeq(SubSeq(t, 1, n))}
<1>1. N \in Nat /\ \A n \in 0..N : SubSeq(t, 1, n) \in Seq(Seq(S)) /\ Len(SubSeq(t, 1, n)) = n
  BY SubSeqProperties
<1>2. 0 \in P
  <2>1. SubSeq(t, 1, 0) = <<>>
    BY SubSeqEmpty
  <2>2. s \o <<>> = s
    BY ConcatEmptySeq
  <2>3. FlattenSeq(s) \o <<>> = FlattenSeq(s)
    <3>1. FlattenSeq(s) \in Seq(S)
      BY FlattenType
    <3> QED
      BY <3>1, ConcatEmptySeq
  <2>4. FlattenSeq(s \o SubSeq(t, 1, 0)) = FlattenSeq(s) \o FlattenSeq(SubSeq(t, 1, 0))
    BY <2>1, <2>2, <2>3, FlattenEmpty
  <2> QED
    BY <1>1, <2>4
<1>3. ASSUME NEW n \in 0..N, n # N, n \in P PROVE n + 1 \in P
  <2>1. n + 1 \in 1..N /\ n + 1 \in 0..N /\ n \in Nat
    BY <1>1, <1>3
  <2>2. PICK p : p = SubSeq(t, 1, n)
    OBVIOUS
  <2>3. p \in Seq(Seq(S)) /\ t[n + 1] \in Seq(S)
    BY <1>1, <2>1, <2>2, ElementOfSeq
  <2>4. SubSeq(t, 1, n + 1) = Append(p, t[n + 1])
    <3>1. p = [i \in 1..n |-> t[i]]
      BY <2>1, <2>2, SubSeqProperties
    <3>2. SubSeq(t, 1, n + 1) \in Seq(Seq(S)) /\ Len(SubSeq(t, 1, n + 1)) = n + 1
          /\ \A i \in 1..n + 1 : SubSeq(t, 1, n + 1)[i] = t[i]
      BY <2>1, SubSeqProperties
    <3>3. Append(p, t[n + 1]) \in Seq(Seq(S)) /\ Len(Append(p, t[n + 1])) = n + 1
          /\ \A i \in 1..n + 1 : Append(p, t[n + 1])[i] = t[i]
      <4>1. Len(p) = n
        BY <1>1, <2>2
      <4>2. \A i \in 1..n + 1 : i \in 1..n \/ i = n + 1
        BY <2>1
      <4>3. /\ Append(p, t[n + 1]) \in Seq(Seq(S)) /\ Len(Append(p, t[n + 1])) = n + 1
            /\ \A i \in 1..n : Append(p, t[n + 1])[i] = p[i]
            /\ Append(p, t[n + 1])[n + 1] = t[n + 1]
        BY <2>3, <4>1
      <4> QED
        BY <3>1, <4>2, <4>3
    <3> QED
      BY <3>2, <3>3, SeqEqual
  <2>5. FlattenSeq(s \o p) = FlattenSeq(s) \o FlattenSeq(p)
    BY <1>3, <2>2
  <2>6. s \o Append(p, t[n + 1]) = Append(s \o p, t[n + 1])
    BY <1>a, <2>3, Zenon
  <2>7. s \o p \in Seq(Seq(S))
    BY <2>3, ConcatProperties
  <2>8. FlattenSeq(Append(s \o p, t[n + 1])) = FlattenSeq(s) \o FlattenSeq(Append(p, t[n + 1]))
    <3>1. FlattenSeq(Append(s \o p, t[n + 1])) = (FlattenSeq(s) \o FlattenSeq(p)) \o t[n + 1]
      <4>1. FlattenSeq(Append(s \o p, t[n + 1])) = FlattenSeq(s \o p) \o t[n + 1]
        BY <2>3, <2>7, FlattenAppend
      <4> QED
        BY <2>5, <4>1
    <3>2. FlattenSeq(Append(p, t[n + 1])) = FlattenSeq(p) \o t[n + 1]
      BY <2>3, FlattenAppend
    <3>3. FlattenSeq(s) \in Seq(S) /\ FlattenSeq(p) \in Seq(S)
      BY <2>3, FlattenType
    <3>4. PICK a \in Seq(S), b \in Seq(S), c \in Seq(S) : a = FlattenSeq(s) /\ b = FlattenSeq(p) /\ c = t[n + 1]
      BY <2>3, <3>3
    <3>5. (a \o b) \o c = a \o (b \o c)
      BY <1>b, Zenon
    <3> QED
      BY <3>1, <3>2, <3>4, <3>5, Zenon
  <2> QED
    BY <2>1, <2>4, <2>6, <2>8
<1>4. N \in P
  <2> HIDE DEF P, N
  <2>1. 0..N \subseteq P
    BY <1>1, <1>2, <1>3, Induction
  <2> QED
    BY <1>1, <2>1
<1>5. SubSeq(t, 1, N) = t
  <2>1. \A i \in 1..N : SubSeq(t, 1, N)[i] = t[i]
    BY <1>1, SubSeqProperties
  <2> QED
    BY <1>1, <2>1, SeqEqual
<1> QED
  BY <1>4, <1>5
-----------------------------------------------------------------------------
(* The parser keeps to its types.                                          *)
PieceType == [thinking : BOOLEAN, text : Text]
ScanState == [inThink : BOOLEAN, rest : Text, held : Text, out : Seq(PieceType)]

LEMMA HandOnType ==
  ASSUME NEW pieces \in Seq(PieceType), NEW thinking \in BOOLEAN, NEW text \in Text
  PROVE  HandOn(pieces, thinking, text) \in Seq(PieceType)
<1>1. Piece(thinking, text) \in PieceType
  BY DEF Piece, PieceType
<1>2. \A x \in PieceType : Append(pieces, x) \in Seq(PieceType)
  OBVIOUS
<1> QED
  BY <1>1, <1>2 DEF HandOn

LEMMA RoundType ==
  ASSUME NEW s \in ScanState
  PROVE  ScanRound(s) \in ScanState
<1> DEFINE tag == Tag(s.inThink)
           at == TagAt(tag, s.rest)
<1>1. s.inThink \in BOOLEAN /\ s.rest \in Text /\ s.held \in Text /\ s.out \in Seq(PieceType)
  BY DEF ScanState
<1>2. Len(s.rest) \in Nat /\ <<>> \in Text
  BY <1>1, EmptySeq DEF Text
<1>3. \A i, j \in Nat : i >= 1 /\ j <= Len(s.rest) => SubSeq(s.rest, i, j) \in Text
  <2> TAKE i, j \in Nat
  <2> HAVE i >= 1 /\ j <= Len(s.rest)
  <2>1. \A k \in i..j : s.rest[k] \in Symbols
    <3>1. \A k \in i..j : k \in 1..Len(s.rest)
      BY <1>2
    <3> QED
      BY <1>1, <3>1, ElementOfSeq DEF Text
  <2> QED
    BY <2>1, SubSeqProperties DEF Text
<1>4. CASE s.rest = <<>>
  <2>1. 1..Len(s.rest) - 1 = {}
    BY <1>4
  <2>2. at = {}
    BY <2>1 DEF TagAt
  <2>3. ScanRound(s) = s
    BY <1>4, <2>2 DEF ScanRound
  <2> QED
    BY <2>3
<1>5. CASE s.rest # <<>> /\ at # {}
  <2>1. at \in SUBSET Nat /\ at \subseteq 1..Len(s.rest) - 1
    BY <1>2 DEF TagAt
  <2> HIDE DEF at, tag
  <2>2. Min(at) \in at
    <3>1. \E n \in at : \A m \in at : n <= m
      BY <1>5, <2>1, LeastExists
    <3> QED
      BY <3>1 DEF Min
  <2>3. PICK i : i = Min(at)
    OBVIOUS
  <2>4. i \in 1..Len(s.rest) - 1
    BY <2>1, <2>2, <2>3
  <2>5. SubSeq(s.rest, i + 2, Len(s.rest)) \in Text /\ SubSeq(s.rest, 1, i - 1) \in Text
    BY <1>2, <1>3, <2>4
  <2>6. ScanRound(s) =
          [inThink |-> ~s.inThink, rest |-> SubSeq(s.rest, i + 2, Len(s.rest)), held |-> <<>>,
           out |-> HandOn(s.out, s.inThink, SubSeq(s.rest, 1, i - 1))]
    BY <1>5, <2>3 DEF ScanRound, at, tag
  <2>7. HandOn(s.out, s.inThink, SubSeq(s.rest, 1, i - 1)) \in Seq(PieceType)
    BY <1>1, <2>5, HandOnType
  <2> QED
    BY <1>1, <1>2, <2>5, <2>6, <2>7 DEF ScanState
<1>6. CASE s.rest # <<>> /\ at = {} /\ Held(tag, s.rest)
  <2>1. ScanRound(s) = [s EXCEPT !.rest = <<>>, !.held = s.rest]
    BY <1>6 DEF ScanRound
  <2> QED
    BY <1>1, <1>2, <2>1 DEF ScanState
<1>7. CASE s.rest # <<>> /\ at = {} /\ ~Held(tag, s.rest)
  <2>1. ScanRound(s) = [s EXCEPT !.rest = <<>>, !.out = Append(@, Piece(s.inThink, s.rest))]
    BY <1>7 DEF ScanRound
  <2>2. Piece(s.inThink, s.rest) \in PieceType
    BY <1>1 DEF Piece, PieceType
  <2>3. Append(s.out, Piece(s.inThink, s.rest)) \in Seq(PieceType)
    BY <1>1, <2>2
  <2> QED
    BY <1>1, <1>2, <2>1, <2>3 DEF ScanState
<1> QED
  BY <1>4, <1>5, <1>6, <1>7

(* A chunk goes through as many rounds as it has symbols.                  *)
FirstRound(inThink, all) == [inThink |-> inThink, rest |-> all, held |-> <<>>, out |-> <<>>]

Rounds(rounds, N, first) ==
    \A n \in 0..N : /\ rounds[n] \in ScanState
                    /\ rounds[n] = IF n = 0 THEN first ELSE ScanRound(rounds[n - 1])

LEMMA ScanRounds ==
  ASSUME NEW inThink \in BOOLEAN, NEW held \in Text, NEW text \in Text
  PROVE  \E N \in Nat : \E rounds :
            /\ N = Len(held \o text) /\ held \o text \in Text
            /\ Rounds(rounds, N, FirstRound(inThink, held \o text))
            /\ Scan(inThink, held, text) =
                  [inThink |-> rounds[N].inThink, held |-> rounds[N].held, out |-> rounds[N].out]
<1> DEFINE all == held \o text
           N == Len(all)
           first == [inThink |-> inThink, rest |-> all, held |-> <<>>, out |-> <<>>]
           rounds == CHOOSE s : s = [n \in 0..N |-> IF n = 0 THEN first ELSE ScanRound(s[n - 1])]
<1>1. all \in Text /\ N \in Nat
  BY ConcatProperties, LenProperties DEF Text
<1>2. first \in ScanState
  BY <1>1, EmptySeq DEF ScanState, Text
<1>3. Scan(inThink, held, text) =
        [inThink |-> rounds[N].inThink, held |-> rounds[N].held, out |-> rounds[N].out]
  BY DEF Scan
<1> HIDE DEF all, N, first
<1>4. \E s : s = [n \in 0..N |-> IF n = 0 THEN first ELSE ScanRound(s[n - 1])]
  <2>1. PICK a \in ScanState : a = first
    BY <1>2
  <2>2. PICK M \in Nat : M = N
    BY <1>1
  <2>3. PICK step \in [1..M -> [ScanState -> ScanState]] :
           \A n \in 1..M : \A x \in ScanState : step[n][x] = ScanRound(x)
    <3> DEFINE st == [n \in 1..M |-> [x \in ScanState |-> ScanRound(x)]]
    <3>1. st \in [1..M -> [ScanState -> ScanState]]
      BY RoundType
    <3>2. \A n \in 1..M : \A x \in ScanState : st[n][x] = ScanRound(x)
      OBVIOUS
    <3> HIDE DEF st
    <3> QED
      BY <3>1, <3>2
  <2>4. PICK g \in [0..M -> ScanState] : Follows(g, M, a, step)
    BY RecursionExists
  <2>5. ASSUME NEW n \in 0..M PROVE g[n] = IF n = 0 THEN a ELSE ScanRound(g[n - 1])
    <3>1. n # 0 => n \in 1..M /\ n - 1 \in 0..M
      OBVIOUS
    <3>2. g[n] = IF n = 0 THEN a ELSE step[n][g[n - 1]]
      BY <2>4 DEF Follows
    <3> QED
      BY <2>3, <3>1, <3>2
  <2>6. g = [n \in 0..N |-> IF n = 0 THEN first ELSE ScanRound(g[n - 1])]
    BY <2>1, <2>2, <2>5
  <2> QED
    BY <2>6
<1>5. rounds = [n \in 0..N |-> IF n = 0 THEN first ELSE ScanRound(rounds[n - 1])]
  BY <1>4
<1> HIDE DEF rounds
<1>6. \A n \in 0..N : rounds[n] = IF n = 0 THEN first ELSE ScanRound(rounds[n - 1])
  BY <1>5
<1>7. 0..N \subseteq {n \in 0..N : rounds[n] \in ScanState}
  <2> DEFINE P == {n \in 0..N : rounds[n] \in ScanState}
  <2>1. 0 \in P
    BY <1>1, <1>2, <1>6
  <2>2. ASSUME NEW n \in 0..N, n # N, n \in P PROVE n + 1 \in P
    <3>1. n + 1 \in 0..N /\ n + 1 # 0 /\ (n + 1) - 1 = n
      BY <1>1, <2>2
    <3>2. rounds[n + 1] = ScanRound(rounds[n])
      BY <1>6, <3>1
    <3> QED
      BY <2>2, <3>1, <3>2, RoundType
  <2> HIDE DEF P
  <2>3. 0..N \subseteq P
    BY <1>1, <2>1, <2>2, Induction
  <2> QED
    BY <2>3 DEF P
<1>8. Rounds(rounds, N, first)
  BY <1>6, <1>7 DEF Rounds
<1>9. first = FirstRound(inThink, all)
  BY DEF first, FirstRound
<1>10. N = Len(held \o text) /\ all = held \o text
  BY DEF N, all
<1> QED
  BY <1>1, <1>3, <1>8, <1>9, <1>10

LEMMA ScanType ==
  ASSUME NEW inThink \in BOOLEAN, NEW held \in Text, NEW text \in Text
  PROVE  Scan(inThink, held, text) \in [inThink : BOOLEAN, held : Text, out : Seq(PieceType)]
<1>1. PICK N \in Nat : \E rounds :
         /\ N = Len(held \o text) /\ held \o text \in Text
         /\ Rounds(rounds, N, FirstRound(inThink, held \o text))
         /\ Scan(inThink, held, text) =
               [inThink |-> rounds[N].inThink, held |-> rounds[N].held, out |-> rounds[N].out]
  BY ScanRounds
<1>2. PICK rounds :
         /\ Rounds(rounds, N, FirstRound(inThink, held \o text))
         /\ Scan(inThink, held, text) =
               [inThink |-> rounds[N].inThink, held |-> rounds[N].held, out |-> rounds[N].out]
  BY <1>1
<1>3. rounds[N] \in ScanState
  BY <1>2 DEF Rounds
<1> QED
  BY <1>2, <1>3 DEF ScanState
-----------------------------------------------------------------------------
(* What a call of the signal does to the delta store and the port: the     *)
(* texts get the next numbers, and the numbers are posted in their order.  *)
Kinds == {"answer", "thinking", "done"}
PostType == [prompt : Prompts, kind : Kinds, id : Nat]

PortTyped ==
    /\ deltaSeq \in Nat /\ port \in Seq(PostType)
    /\ DOMAIN deltas \subseteq 1..deltaSeq
    /\ \A id \in DOMAIN deltas : deltas[id] \in Text

Posted(p, kinds, texts, n, q, posts) ==
    /\ n \in Nat /\ q \in Nat /\ deltaSeq' = q + n
    /\ \A id : id \in DOMAIN deltas' <=> id \in DOMAIN deltas \/ id \in q + 1..q + n
    /\ \A id \in DOMAIN deltas : deltas'[id] = deltas[id] /\ id <= q
    /\ \A k \in 1..n : deltas'[q + k] = texts[k]
    /\ posts \in Seq(PostType) /\ Len(posts) = n
    /\ \A k \in 1..n : posts[k] = [prompt |-> p, kind |-> kinds[k], id |-> q + k]
    /\ port' = port \o posts

LEMMA PostFacts ==
  ASSUME PortTyped, NEW p \in Prompts, NEW texts \in Seq(Text), NEW kinds,
         \A k \in DOMAIN texts : kinds[k] \in Kinds, Post(p, kinds, texts)
  PROVE  \E posts : Posted(p, kinds, texts, Len(texts), deltaSeq, posts)
<1>1. PICK n : n = Len(texts)
  OBVIOUS
<1>2. PICK q : q = deltaSeq
  OBVIOUS
<1>3. n \in Nat /\ q \in Nat /\ DOMAIN texts = 1..n
  BY <1>1, <1>2, LenProperties DEF PortTyped
<1>4. \A k : DeltaId(k) = q + k
  BY <1>2 DEF DeltaId
<1>5. deltaSeq' = q + n
  BY <1>1, <1>2 DEF Post
<1>6. \A id \in DOMAIN deltas : id \in Nat /\ id <= q
  BY <1>2, <1>3 DEF PortTyped
<1>7. deltas' = [id \in DOMAIN deltas \cup {q + k : k \in 1..n} |->
                    IF \E k \in 1..n : q + k = id
                    THEN texts[CHOOSE k \in 1..n : q + k = id] ELSE deltas[id]]
  BY <1>3, <1>4 DEF Post
<1>8. \A id : id \in DOMAIN deltas' <=> id \in DOMAIN deltas \/ id \in q + 1..q + n
  <2>1. \A id : id \in {q + k : k \in 1..n} <=> id \in q + 1..q + n
    <3> TAKE id
    <3>1. id \in q + 1..q + n => id - q \in 1..n /\ q + (id - q) = id
      BY <1>3
    <3>2. \A k \in 1..n : q + k \in q + 1..q + n
      BY <1>3
    <3> QED
      BY <3>1, <3>2
  <2> QED
    BY <1>7, <2>1
<1>9. \A id \in DOMAIN deltas : deltas'[id] = deltas[id] /\ id <= q
  <2> TAKE id \in DOMAIN deltas
  <2>1. ~ \E k \in 1..n : q + k = id
    BY <1>3, <1>6
  <2> QED
    BY <1>6, <1>7, <2>1
<1>10. \A k \in 1..n : deltas'[q + k] = texts[k]
  <2> TAKE k \in 1..n
  <2>1. \A j \in 1..n : q + j = q + k => j = k
    BY <1>3
  <2>2. (CHOOSE j \in 1..n : q + j = q + k) = k
    BY <2>1
  <2> QED
    BY <1>7, <2>2
<1>11. PICK posts : posts = [k \in 1..n |-> [prompt |-> p, kind |-> kinds[k], id |-> q + k]]
  OBVIOUS
<1>12. /\ posts \in Seq(PostType) /\ Len(posts) = n
       /\ \A k \in 1..n : posts[k] = [prompt |-> p, kind |-> kinds[k], id |-> q + k]
  <2>1. \A k \in 1..n : [prompt |-> p, kind |-> kinds[k], id |-> q + k] \in PostType
    BY <1>3 DEF PostType
  <2>2. posts \in [1..n -> PostType]
    BY <1>11, <2>1
  <2> QED
    BY <1>3, <1>11, <2>2
<1>13. port' = port \o posts
  BY <1>3, <1>4, <1>11 DEF Post
<1> QED
  BY <1>1, <1>2, <1>3, <1>5, <1>8, <1>9, <1>10, <1>12, <1>13 DEF Posted

LEMMA PortLonger ==
  ASSUME port \in Seq(PostType), NEW posts \in Seq(PostType), port' = port \o posts
  PROVE  /\ port' \in Seq(PostType)
         /\ Len(port) \in Nat /\ Len(posts) \in Nat
         /\ DOMAIN port = 1..Len(port) /\ DOMAIN port' = 1..Len(port) + Len(posts)
         /\ \A i \in 1..Len(port) : port'[i] = port[i]
         /\ \A k \in 1..Len(posts) : port'[Len(port) + k] = posts[k]
         /\ \A i \in DOMAIN port' :
               i \in 1..Len(port) \/ \E k \in 1..Len(posts) : i = Len(port) + k
<1>1. /\ port' \in Seq(PostType) /\ Len(port) \in Nat /\ Len(posts) \in Nat
      /\ Len(port') = Len(port) + Len(posts)
      /\ \A i \in 1..Len(port) + Len(posts) :
            port'[i] = IF i <= Len(port) THEN port[i] ELSE posts[i - Len(port)]
  BY ConcatProperties, LenProperties
<1>2. DOMAIN port = 1..Len(port) /\ DOMAIN port' = 1..Len(port) + Len(posts)
  BY <1>1, LenProperties
<1>3. \A i \in 1..Len(port) : port'[i] = port[i]
  <2> TAKE i \in 1..Len(port)
  <2>1. i \in 1..Len(port) + Len(posts) /\ i <= Len(port)
    BY <1>1
  <2> QED
    BY <1>1, <2>1
<1>4. \A k \in 1..Len(posts) : port'[Len(port) + k] = posts[k]
  <2> TAKE k \in 1..Len(posts)
  <2>1. /\ Len(port) + k \in 1..Len(port) + Len(posts) /\ ~(Len(port) + k <= Len(port))
        /\ (Len(port) + k) - Len(port) = k
    BY <1>1
  <2> QED
    BY <1>1, <2>1
<1>5. \A i \in DOMAIN port' : i \in 1..Len(port) \/ \E k \in 1..Len(posts) : i = Len(port) + k
  <2> TAKE i \in DOMAIN port'
  <2>1. i \notin 1..Len(port) => i - Len(port) \in 1..Len(posts) /\ i = Len(port) + (i - Len(port))
    BY <1>1, <1>2
  <2> QED
    BY <2>1
<1> QED
  BY <1>1, <1>2, <1>3, <1>4, <1>5

LEMMA PostTyped ==
  ASSUME PortTyped, NEW p \in Prompts, NEW texts \in Seq(Text), NEW kinds,
         \A k \in DOMAIN texts : kinds[k] \in Kinds, Post(p, kinds, texts)
  PROVE  PortTyped'
<1>1. PICK n : n = Len(texts)
  OBVIOUS
<1>2. PICK q : q = deltaSeq
  OBVIOUS
<1>3. PICK posts : Posted(p, kinds, texts, n, q, posts)
  BY <1>1, <1>2, PostFacts
<1>4. port' \in Seq(PostType)
  BY <1>3, PortLonger DEF Posted, PortTyped
<1>5. DOMAIN deltas' \subseteq 1..deltaSeq'
  <2>1. \A id \in DOMAIN deltas : id \in 1..q + n
    BY <1>2, <1>3 DEF Posted, PortTyped
  <2>2. q + 1..q + n \subseteq 1..q + n
    BY <1>3 DEF Posted
  <2> QED
    BY <1>3, <2>1, <2>2 DEF Posted
<1>6. \A id \in DOMAIN deltas' : deltas'[id] \in Text
  <2> TAKE id \in DOMAIN deltas'
  <2>1. CASE id \in DOMAIN deltas
    BY <1>3, <2>1 DEF Posted, PortTyped
  <2>2. CASE id \in q + 1..q + n
    <3>1. id - q \in 1..n /\ q + (id - q) = id /\ n \in Nat /\ q \in Nat
      BY <1>3, <2>2 DEF Posted
    <3>2. deltas'[id] = texts[id - q]
      BY <1>3, <3>1 DEF Posted
    <3>3. texts[id - q] \in Text
      BY <1>1, <3>1, ElementOfSeq
    <3> QED
      BY <3>2, <3>3
  <2> QED
    BY <1>3, <2>1, <2>2 DEF Posted
<1>7. deltaSeq' \in Nat
  BY <1>3 DEF Posted
<1> QED
  BY <1>4, <1>5, <1>6, <1>7 DEF PortTyped

LEMMA PostAwaited ==
  ASSUME PortTyped, DeltasAwaited, NEW p \in Prompts, NEW texts \in Seq(Text), NEW kinds,
         \A k \in DOMAIN texts : kinds[k] \in Kinds, Post(p, kinds, texts)
  PROVE  DeltasAwaited'
<1>1. PICK n : n = Len(texts)
  OBVIOUS
<1>2. PICK q : q = deltaSeq
  OBVIOUS
<1>3. PICK posts : Posted(p, kinds, texts, n, q, posts)
  BY <1>1, <1>2, PostFacts
<1>4. PICK m : m = Len(port)
  OBVIOUS
<1>5. /\ m \in Nat /\ n \in Nat /\ q \in Nat
      /\ DOMAIN port = 1..m /\ DOMAIN port' = 1..m + n
      /\ \A i \in 1..m : port'[i] = port[i]
      /\ \A k \in 1..n : port'[m + k].id = q + k
      /\ \A i \in DOMAIN port' : i \in 1..m \/ \E k \in 1..n : i = m + k
  <2>1. /\ n \in Nat /\ q \in Nat /\ posts \in Seq(PostType) /\ Len(posts) = n /\ port' = port \o posts
        /\ \A k \in 1..n : posts[k].id = q + k
    BY <1>3 DEF Posted
  <2>2. port \in Seq(PostType)
    BY DEF PortTyped
  <2>3. \A k \in 1..n : port'[m + k].id = q + k
    BY <1>4, <2>1, <2>2, PortLonger
  <2> QED
    BY <1>4, <2>1, <2>2, <2>3, PortLonger
<1>6. \A i \in 1..m : port[i].id \in DOMAIN deltas /\ port[i].id <= q
  BY <1>3, <1>5 DEF DeltasAwaited, Posted
<1>7. \A i \in 1..m : i \in 1..m + n
  BY <1>5
<1>8. \A k \in 1..n : m + k \in 1..m + n /\ q + k \in q + 1..q + n
  BY <1>5
<1>9. \A id : id \in q + 1..q + n => id - q \in 1..n /\ q + (id - q) = id
  BY <1>5
<1>10. DOMAIN deltas' = {port'[i].id : i \in DOMAIN port'}
  <2>1. ASSUME NEW i \in DOMAIN port' PROVE port'[i].id \in DOMAIN deltas'
    <3>1. CASE i \in 1..m
      BY <1>3, <1>5, <1>6, <3>1 DEF Posted
    <3>2. ASSUME NEW k \in 1..n, i = m + k PROVE port'[i].id \in DOMAIN deltas'
      BY <1>3, <1>5, <1>8, <3>2 DEF Posted
    <3> QED
      BY <1>5, <3>1, <3>2
  <2>2. ASSUME NEW id \in DOMAIN deltas' PROVE \E i \in DOMAIN port' : port'[i].id = id
    <3>1. CASE id \in DOMAIN deltas
      <4>1. PICK i \in 1..m : port[i].id = id
        BY <1>5, <3>1 DEF DeltasAwaited
      <4> QED
        BY <1>5, <1>7, <4>1
    <3>2. CASE id \in q + 1..q + n
      BY <1>5, <1>8, <1>9, <3>2
    <3> QED
      BY <1>3, <3>1, <3>2 DEF Posted
  <2> QED
    BY <2>1, <2>2
<1>11. ASSUME NEW i \in DOMAIN port', NEW j \in DOMAIN port', port'[i].id = port'[j].id
       PROVE  i = j
  <2>1. CASE i \in 1..m /\ j \in 1..m
    BY <1>5, <1>11, <2>1 DEF DeltasAwaited
  <2>2. ASSUME NEW k \in 1..n, NEW x \in 1..m PROVE port'[m + k].id # port'[x].id
    <3>1. port'[m + k].id = q + k /\ port'[x].id <= q
      BY <1>5, <1>6
    <3> QED
      BY <1>5, <3>1
  <2>3. ASSUME NEW k \in 1..n, NEW l \in 1..n, port'[m + k].id = port'[m + l].id PROVE k = l
    <3>1. q + k = q + l
      BY <1>5, <2>3
    <3> QED
      BY <1>5, <3>1
  <2>4. (i \in 1..m \/ \E k \in 1..n : i = m + k) /\ (j \in 1..m \/ \E k \in 1..n : j = m + k)
    BY <1>5
  <2> QED
    BY <1>11, <2>1, <2>2, <2>3, <2>4, Zenon
<1> QED
  BY <1>10, <1>11 DEF DeltasAwaited
-----------------------------------------------------------------------------
(* The isolate takes the first post off the port, and its text out of the  *)
(* store.                                                                  *)
LEMMA PortShorter ==
  ASSUME port \in Seq(PostType), HandlePost
  PROVE  /\ port' \in Seq(PostType)
         /\ Len(port) \in Nat /\ Len(port) # 0 /\ Head(port) = port[1]
         /\ DOMAIN port = 1..Len(port) /\ DOMAIN port' = 1..Len(port) - 1
         /\ \A i \in 1..Len(port) - 1 : port'[i] = port[i + 1]
         /\ \A i \in DOMAIN port : i = 1 \/ i - 1 \in DOMAIN port'
         /\ \A id : id \in DOMAIN deltas' <=> id \in DOMAIN deltas /\ id # Head(port).id
         /\ \A id \in DOMAIN deltas' : deltas'[id] = deltas[id]
         /\ deltaSeq' = deltaSeq
<1>1. port # <<>> /\ port' = Tail(port)
  BY DEF HandlePost
<1>2. Len(port) \in Nat /\ Len(port) # 0 /\ DOMAIN port = 1..Len(port)
  BY <1>1, EmptySeq, LenProperties
<1>3. /\ port' \in Seq(PostType) /\ Len(port') = Len(port) - 1
      /\ \A i \in 1..Len(port) - 1 : port'[i] = port[i + 1]
  BY <1>1, HeadTailProperties
<1>4. DOMAIN port' = 1..Len(port) - 1
  BY <1>3, LenProperties
<1>5. \A i \in DOMAIN port : i = 1 \/ i - 1 \in DOMAIN port'
  BY <1>2, <1>4
<1>6. Head(port) = port[1]
  BY <1>1, <1>2
<1>7. deltas' = [id \in DOMAIN deltas \ {Head(port).id} |-> deltas[id]] /\ deltaSeq' = deltaSeq
  BY DEF HandlePost
<1> QED
  BY <1>2, <1>3, <1>4, <1>5, <1>6, <1>7

PromptType == [pc : {"idle", "begun", "streaming", "returned", "released", "done"},
               inThink : BOOLEAN, held : Text, response : Text,
               cancelled : BOOLEAN,
               outcome : {"none", "ok", "cancelled", "error"}]

ShownType == [text : Text, thought : Text, reply : Text, outcome : {"none", "ok", "cancelled", "error"}]

(* What the steps do to the record of a prompt.                            *)
Pcs == {"idle", "begun", "streaming", "returned", "released", "done"}
Outcomes == {"none", "ok", "cancelled", "error"}

LEMMA PromptEnters ==
  ASSUME NEW f \in [Prompts -> PromptType], NEW p \in Prompts, NEW pc \in Pcs
  PROVE  [f EXCEPT ![p].pc = pc] \in [Prompts -> PromptType]
<1>1. [f[p] EXCEPT !.pc = pc] \in PromptType
  BY DEF Pcs, PromptType
<1> QED
  BY <1>1

LEMMA PromptEnds ==
  ASSUME NEW f \in [Prompts -> PromptType], NEW p \in Prompts, NEW pc \in Pcs, NEW o \in Outcomes
  PROVE  [f EXCEPT ![p].pc = pc, ![p].outcome = o] \in [Prompts -> PromptType]
<1>1. [f[p] EXCEPT !.pc = pc, !.outcome = o] \in PromptType
  BY DEF Pcs, Outcomes, PromptType
<1>2. [f EXCEPT ![p].pc = pc, ![p].outcome = o] = [f EXCEPT ![p] = [f[p] EXCEPT !.pc = pc, !.outcome = o]]
  OBVIOUS
<1> QED
  BY <1>1, <1>2

LEMMA PromptCancelled ==
  ASSUME NEW f \in [Prompts -> PromptType], NEW p \in Prompts
  PROVE  [f EXCEPT ![p].cancelled = TRUE] \in [Prompts -> PromptType]
<1>1. [f[p] EXCEPT !.cancelled = TRUE] \in PromptType
  BY DEF PromptType
<1> QED
  BY <1>1

LEMMA PromptReleased ==
  ASSUME NEW f \in [Prompts -> PromptType], NEW p \in Prompts, NEW pc \in Pcs
  PROVE  [f EXCEPT ![p].pc = pc, ![p].cancelled = TRUE] \in [Prompts -> PromptType]
<1>1. [f[p] EXCEPT !.pc = pc, !.cancelled = TRUE] \in PromptType
  BY DEF Pcs, PromptType
<1>2. [f EXCEPT ![p].pc = pc, ![p].cancelled = TRUE] = [f EXCEPT ![p] = [f[p] EXCEPT !.pc = pc, !.cancelled = TRUE]]
  OBVIOUS
<1> QED
  BY <1>1, <1>2

(* What the callbacks do to what is shown.                                 *)
LEMMA ShownGrows ==
  ASSUME NEW f \in [Prompts -> ShownType], NEW p \in Prompts, NEW text \in Text, NEW o \in Outcomes
  PROVE  /\ [f EXCEPT ![p].text = text] \in [Prompts -> ShownType]
         /\ [f EXCEPT ![p].thought = text] \in [Prompts -> ShownType]
         /\ [f EXCEPT ![p].reply = text, ![p].outcome = o] \in [Prompts -> ShownType]
<1>1. /\ [f[p] EXCEPT !.text = text] \in ShownType
      /\ [f[p] EXCEPT !.thought = text] \in ShownType
  BY DEF ShownType
<1>2. [f[p] EXCEPT !.reply = text, !.outcome = o] \in ShownType
  BY DEF Outcomes, ShownType
<1>3. [f EXCEPT ![p].reply = text, ![p].outcome = o] = [f EXCEPT ![p] = [f[p] EXCEPT !.reply = text, !.outcome = o]]
  OBVIOUS
<1> QED
  BY <1>1, <1>2, <1>3

LEMMA TypeIs ==
  TypeOK <=> /\ prompt \in [Prompts -> PromptType]
             /\ sent \in [Prompts -> Seq(PieceType)]
             /\ active \in Prompts \cup {NoPrompt}
             /\ PortTyped
             /\ screen \in Prompts \cup {NoPrompt}
             /\ shown \in [Prompts -> ShownType]
             /\ stored \in [Prompts -> Seq(Text)]
  BY DEF TypeOK, PromptType, PieceType, PortTyped, PostType, Kinds, ShownType

LEMMA TextOfType ==
  ASSUME NEW pieces \in Seq(PieceType), NEW thinking
  PROVE  TextOf(pieces, thinking) \in Text
<1>1. /\ Len(pieces) \in Nat /\ DOMAIN pieces = 1..Len(pieces)
      /\ \A k \in 1..Len(pieces) : pieces[k].text \in Seq(Symbols)
  <2>1. \A k \in 1..Len(pieces) : pieces[k] \in PieceType
    BY ElementOfSeq
  <2> QED
    BY <2>1, LenProperties DEF PieceType, Text
<1>2. PICK s : s = [i \in 1..Len(pieces) |-> IF pieces[i].thinking = thinking THEN pieces[i].text ELSE <<>>]
  OBVIOUS
<1>3. s \in Seq(Seq(Symbols))
  <2>1. \A i \in 1..Len(pieces) :
           (IF pieces[i].thinking = thinking THEN pieces[i].text ELSE <<>>) \in Seq(Symbols)
    BY <1>1, EmptySeq
  <2>2. s \in [1..Len(pieces) -> Seq(Symbols)]
    BY <1>2, <2>1
  <2> QED
    BY <1>1, <1>2, <2>2
<1>4. TextOf(pieces, thinking) = FlattenSeq(s)
  BY <1>1, <1>2 DEF TextOf
<1> QED
  BY <1>3, <1>4, FlattenType DEF Text

(* What the callback hands on, as texts and kinds.                         *)
LEMMA SignalPosts ==
  ASSUME NEW p \in Prompts, NEW pieces \in Seq(PieceType), Signal(p, pieces)
  PROVE  \E texts, kinds :
            /\ texts \in Seq(Text)
            /\ \A k \in DOMAIN texts : kinds[k] \in Kinds
            /\ Len(texts) = Len(pieces)
            /\ \A k \in 1..Len(pieces) :
                  /\ texts[k] = pieces[k].text
                  /\ kinds[k] = IF pieces[k].thinking THEN "thinking" ELSE "answer"
            /\ Post(p, kinds, texts)
<1>1. /\ Len(pieces) \in Nat /\ DOMAIN pieces = 1..Len(pieces)
      /\ \A k \in 1..Len(pieces) : pieces[k] \in PieceType
  BY LenProperties, ElementOfSeq
<1>2. PICK texts : texts = [k \in 1..Len(pieces) |-> pieces[k].text]
  OBVIOUS
<1>3. PICK kinds : kinds = [k \in 1..Len(pieces) |-> IF pieces[k].thinking THEN "thinking" ELSE "answer"]
  OBVIOUS
<1>4. Post(p, kinds, texts)
  BY <1>1, <1>2, <1>3 DEF Signal
<1>5. texts \in Seq(Text) /\ Len(texts) = Len(pieces) /\ DOMAIN texts = 1..Len(pieces)
  <2>1. \A k \in 1..Len(pieces) : pieces[k].text \in Text
    BY <1>1 DEF PieceType
  <2>2. texts \in [1..Len(pieces) -> Text]
    BY <1>2, <2>1
  <2> QED
    BY <1>1, <1>2, <2>2
<1>6. \A k \in DOMAIN texts : kinds[k] \in Kinds
  BY <1>3, <1>5 DEF Kinds
<1> QED
  BY <1>2, <1>3, <1>4, <1>5, <1>6

(* The three callers of the signal.                                        *)
Posts(p) ==
    \E texts, kinds :
        texts \in Seq(Text) /\ (\A k \in DOMAIN texts : kinds[k] \in Kinds) /\ Post(p, kinds, texts)

LEMMA ScanTyped ==
  ASSUME TypeOK, NEW p \in Prompts, NEW text \in Text
  PROVE  Scan(prompt[p].inThink, prompt[p].held, text)
            \in [inThink : BOOLEAN, held : Text, out : Seq(PieceType)]
<1>1. prompt[p].inThink \in BOOLEAN /\ prompt[p].held \in Text
  BY TypeIs DEF PromptType
<1> QED
  BY <1>1, ScanType

LEMMA ProviderPieces ==
  ASSUME NEW p \in Prompts, NEW piece \in Provider[p]
  PROVE  piece.thinking \in BOOLEAN /\ piece.text \in Text
  BY StreamAssumption DEF Text

LEMMA StreamsPosts ==
  ASSUME TypeOK, NEW p \in Prompts, Streams(p)
  PROVE  Posts(p)
<1>1. PICK piece \in Provider[p] :
         IF piece.thinking THEN ReasoningChunk(p, piece.text) ELSE ContentChunk(p, piece.text)
  BY DEF Streams
<1>2. piece.text \in Text
  BY ProviderPieces
<1>3. CASE ReasoningChunk(p, piece.text)
  <2>1. Signal(p, <<Piece(TRUE, piece.text)>>)
    BY <1>3 DEF ReasoningChunk
  <2>2. <<Piece(TRUE, piece.text)>> \in Seq(PieceType)
    BY <1>2 DEF Piece, PieceType
  <2> QED
    BY <2>1, <2>2, SignalPosts DEF Posts
<1>4. CASE ContentChunk(p, piece.text)
  <2>1. Signal(p, Scan(prompt[p].inThink, prompt[p].held, piece.text).out)
    BY <1>4 DEF ContentChunk
  <2>2. Scan(prompt[p].inThink, prompt[p].held, piece.text).out \in Seq(PieceType)
    BY <1>2, ScanTyped
  <2> QED
    BY <2>1, <2>2, SignalPosts DEF Posts
<1> QED
  BY <1>1, <1>3, <1>4

LEMMA DonePosts ==
  ASSUME TypeOK, NEW p \in Prompts, PromptDone(p)
  PROVE  Posts(p)
<1>1. PICK text : text = IF prompt[p].outcome = "error" THEN <<>> ELSE prompt[p].response
  OBVIOUS
<1>2. text \in Text
  <2>1. prompt[p].response \in Text /\ <<>> \in Text
    BY TypeIs, EmptySeq DEF PromptType, Text
  <2> QED
    BY <1>1, <2>1
<1>3. <<text>> \in Seq(Text) /\ DOMAIN <<text>> = {1} /\ <<"done">>[1] = "done"
  BY <1>2
<1>4. Post(p, <<"done">>, <<text>>)
  BY <1>1 DEF PromptDone
<1> QED
  BY <1>3, <1>4 DEF Posts, Kinds

(* Every step leaves the port and the store alone, posts, or handles one   *)
(* post.                                                                   *)
LEMMA PortSteps ==
  ASSUME TypeOK, [Next]_streamVars
  PROVE  UNCHANGED portVars \/ HandlePost \/ \E p \in Prompts : Posts(p)
<1>1. CASE UNCHANGED streamVars
  BY <1>1 DEF streamVars, portVars
<1>2. CASE HandlePost \/ LeaveChat \/ CancelPrompt
  BY <1>2 DEF LeaveChat, CancelPrompt
<1>3. ASSUME NEW p \in Prompts, Streams(p) \/ PromptDone(p) PROVE Posts(p)
  BY <1>3, StreamsPosts, DonePosts
<1>4. ASSUME NEW p \in Prompts,
             \/ Send(p) \/ PromptRefused(p) \/ RegisterCancel(p)
             \/ PromptSucceeds(p) \/ PromptFails(p) \/ ReleaseCancel(p)
      PROVE  UNCHANGED portVars
  BY <1>4 DEF Send, PromptRefused, RegisterCancel, PromptSucceeds, PromptFails, ReleaseCancel
<1> QED
  BY <1>1, <1>2, <1>3, <1>4 DEF Next

LEMMA HandledTyped ==
  ASSUME PortTyped, HandlePost
  PROVE  /\ PortTyped'
         /\ Head(port) \in PostType
         /\ (IF Head(port).id \in DOMAIN deltas THEN deltas[Head(port).id] ELSE <<>>) \in Text
<1>1. port \in Seq(PostType)
  BY DEF PortTyped
<1>2. PortTyped'
  BY <1>1, PortShorter DEF PortTyped
<1>3. Head(port) \in PostType
  BY <1>1, PortShorter, ElementOfSeq
<1>4. <<>> \in Text
  BY EmptySeq DEF Text
<1> QED
  BY <1>2, <1>3, <1>4 DEF PortTyped

LEMMA TypedStep == TypeOK /\ [Next]_streamVars => TypeOK'
<1> SUFFICES ASSUME TypeOK, [Next]_streamVars PROVE TypeOK'
  OBVIOUS
<1>0. /\ prompt \in [Prompts -> PromptType] /\ sent \in [Prompts -> Seq(PieceType)]
      /\ active \in Prompts \cup {NoPrompt} /\ screen \in Prompts \cup {NoPrompt}
      /\ PortTyped
      /\ shown \in [Prompts -> ShownType] /\ stored \in [Prompts -> Seq(Text)]
  BY TypeIs
<1>a. ASSUME prompt' \in [Prompts -> PromptType], sent' \in [Prompts -> Seq(PieceType)],
             active' \in Prompts \cup {NoPrompt}, screen' \in Prompts \cup {NoPrompt},
             PortTyped', shown' \in [Prompts -> ShownType], stored' \in [Prompts -> Seq(Text)]
      PROVE  TypeOK'
  BY <1>a DEF TypeOK, PromptType, PieceType, PortTyped, PostType, Kinds, ShownType
<1>1. PortTyped'
  <2>1. CASE UNCHANGED portVars
    BY <1>0, <2>1 DEF portVars, PortTyped
  <2>2. CASE HandlePost
    BY <1>0, <2>2, HandledTyped
  <2>3. ASSUME NEW p \in Prompts, Posts(p) PROVE PortTyped'
    BY <1>0, <2>3, PostTyped DEF Posts
  <2> QED
    BY <2>1, <2>2, <2>3, PortSteps
<1>2. \A p \in Prompts : prompt[p] \in PromptType
  BY <1>0
<1>3. CASE UNCHANGED streamVars
  BY <1>0, <1>a, <1>1, <1>3 DEF streamVars, goVars, portVars, dartVars
<1>4. CASE LeaveChat
  BY <1>0, <1>a, <1>1, <1>4 DEF LeaveChat, goVars
<1>5. CASE CancelPrompt
  <2>1. prompt' \in [Prompts -> PromptType]
    BY <1>0, <1>5, PromptCancelled DEF CancelPrompt
  <2> QED
    BY <1>0, <1>a, <1>1, <1>5, <2>1 DEF CancelPrompt, dartVars
<1>6. ASSUME NEW p \in Prompts, Send(p) \/ PromptRefused(p) \/ RegisterCancel(p) \/ ReleaseCancel(p)
      PROVE  TypeOK'
  <2>1. prompt' \in [Prompts -> PromptType]
    <3>1. CASE Send(p)
      BY <1>0, <3>1, PromptEnters DEF Send, Pcs
    <3>2. CASE PromptRefused(p)
      BY <1>0, <3>2, PromptEnds DEF PromptRefused, Pcs, Outcomes
    <3>3. CASE RegisterCancel(p)
      BY <1>0, <3>3, PromptEnters DEF RegisterCancel, Pcs
    <3>4. CASE ReleaseCancel(p)
      BY <1>0, <3>4, PromptReleased DEF ReleaseCancel, Pcs
    <3> QED
      BY <1>6, <3>1, <3>2, <3>3, <3>4
  <2> QED
    BY <1>0, <1>a, <1>1, <1>6, <2>1 DEF Send, PromptRefused, RegisterCancel, ReleaseCancel, dartVars
<1>7. ASSUME NEW p \in Prompts, PromptSucceeds(p) \/ PromptFails(p) PROVE TypeOK'
  <2>1. <<prompt[p].response>> \in Seq(Text)
    BY <1>2 DEF PromptType
  <2>2. stored' \in [Prompts -> Seq(Text)]
    BY <1>0, <1>7, <2>1 DEF PromptSucceeds, PromptFails, SaveReply
  <2>3. prompt' \in [Prompts -> PromptType]
    <3>1. PICK o \in Outcomes : prompt' = [prompt EXCEPT ![p].pc = "returned", ![p].outcome = o]
      BY <1>7 DEF PromptSucceeds, PromptFails, Outcomes
    <3> QED
      BY <1>0, <3>1, PromptEnds DEF Pcs
  <2> QED
    BY <1>0, <1>a, <1>1, <1>7, <2>2, <2>3 DEF PromptSucceeds, PromptFails, dartVars
<1>8. ASSUME NEW p \in Prompts, PromptDone(p) PROVE TypeOK'
  <2>1. prompt' \in [Prompts -> PromptType]
    BY <1>0, <1>8, PromptEnters DEF PromptDone, Pcs
  <2> QED
    BY <1>0, <1>a, <1>1, <1>8, <2>1 DEF PromptDone, dartVars
<1>9. ASSUME NEW p \in Prompts, Streams(p) PROVE TypeOK'
  <2>1. PICK piece \in Provider[p] :
           IF piece.thinking THEN ReasoningChunk(p, piece.text) ELSE ContentChunk(p, piece.text)
    BY <1>9 DEF Streams
  <2>2. piece.text \in Text
    BY ProviderPieces
  <2>3. \A thinking \in BOOLEAN : Append(sent[p], Piece(thinking, piece.text)) \in Seq(PieceType)
    <3>1. \A thinking \in BOOLEAN : Piece(thinking, piece.text) \in PieceType
      BY <2>2 DEF Piece, PieceType
    <3>2. \A s \in Seq(PieceType) : \A x \in PieceType : Append(s, x) \in Seq(PieceType)
      OBVIOUS
    <3> QED
      BY <1>0, <3>1, <3>2
  <2>4. CASE ReasoningChunk(p, piece.text)
    BY <1>0, <1>a, <1>1, <2>3, <2>4 DEF ReasoningChunk, dartVars
  <2>5. CASE ContentChunk(p, piece.text)
    <3>1. PICK scan \in [inThink : BOOLEAN, held : Text, out : Seq(PieceType)] :
             scan = Scan(prompt[p].inThink, prompt[p].held, piece.text)
      BY <2>2, ScanTyped
    <3>2. prompt' = [prompt EXCEPT ![p].inThink = scan.inThink, ![p].held = scan.held,
                                   ![p].response = @ \o TextOf(scan.out, FALSE)]
      BY <2>5, <3>1 DEF ContentChunk
    <3>3. prompt[p].response \o TextOf(scan.out, FALSE) \in Text
      <4>1. TextOf(scan.out, FALSE) \in Text
        BY <3>1, TextOfType
      <4>2. prompt[p].response \in Text
        BY <1>2 DEF PromptType
      <4> QED
        BY <4>1, <4>2, ConcatProperties DEF Text
    <3>4. prompt' \in [Prompts -> PromptType]
      <4>1. \A q \in Prompts : q # p => prompt'[q] = prompt[q]
        BY <1>0, <3>2
      <4>2. prompt'[p] = [prompt[p] EXCEPT !.inThink = scan.inThink, !.held = scan.held,
                                           !.response = @ \o TextOf(scan.out, FALSE)]
        BY <1>0, <3>2
      <4>3. prompt'[p] = [pc |-> prompt[p].pc, inThink |-> scan.inThink, held |-> scan.held,
                          response |-> prompt[p].response \o TextOf(scan.out, FALSE),
                          cancelled |-> prompt[p].cancelled, outcome |-> prompt[p].outcome]
        BY <1>2, <4>2 DEF PromptType
      <4>4. prompt'[p] \in PromptType
        <5>1. PICK response \in Text : response = prompt[p].response \o TextOf(scan.out, FALSE)
          BY <3>3
        <5>2. /\ scan.inThink \in BOOLEAN /\ scan.held \in Text /\ prompt[p].cancelled \in BOOLEAN
              /\ prompt[p].pc \in {"idle", "begun", "streaming", "returned", "released", "done"}
              /\ prompt[p].outcome \in {"none", "ok", "cancelled", "error"}
          BY <1>2, <3>1 DEF PromptType
        <5>3. prompt'[p] = [pc |-> prompt[p].pc, inThink |-> scan.inThink, held |-> scan.held,
                            response |-> response,
                            cancelled |-> prompt[p].cancelled, outcome |-> prompt[p].outcome]
          BY <4>3, <5>1
        <5> QED
          BY <5>2, <5>3 DEF PromptType
      <4>5. prompt' = [q \in Prompts |-> prompt'[q]]
        BY <1>0, <3>2
      <4> QED
        BY <1>2, <4>1, <4>4, <4>5
    <3> QED
      BY <1>0, <1>a, <1>1, <2>3, <2>5, <3>4 DEF ContentChunk, dartVars
  <2> QED
    BY <2>1, <2>4, <2>5
<1>10. CASE HandlePost
  <2>1. PICK text \in Text : text = IF Head(port).id \in DOMAIN deltas THEN deltas[Head(port).id] ELSE <<>>
    BY <1>0, <1>10, HandledTyped
  <2>2. PICK post \in PostType : post = Head(port)
    BY <1>0, <1>10, HandledTyped
  <2>3. shown' = CASE post.kind = "answer" -> [shown EXCEPT ![post.prompt].text = @ \o text]
                   [] post.kind = "thinking" -> [shown EXCEPT ![post.prompt].thought = @ \o text]
                   [] post.kind = "done" ->
                        [shown EXCEPT ![post.prompt].reply = text,
                                      ![post.prompt].outcome = prompt[post.prompt].outcome]
    BY <1>10, <2>1, <2>2 DEF HandlePost
  <2>4. /\ post.prompt \in Prompts /\ post.kind \in Kinds
        /\ prompt[post.prompt].outcome \in {"none", "ok", "cancelled", "error"}
    BY <1>2, <2>2 DEF PostType, PromptType
  <2>5. shown[post.prompt].text \o text \in Text /\ shown[post.prompt].thought \o text \in Text
    <3>1. \A a, b \in Text : a \o b \in Text
      BY ConcatProperties DEF Text
    <3> QED
      BY <1>0, <2>1, <2>4, <3>1 DEF ShownType
  <2>6. shown' \in [Prompts -> ShownType]
    <3>1. CASE post.kind = "answer"
      <4>1. PICK all \in Text : all = shown[post.prompt].text \o text
        BY <2>5
      <4>2. shown' = [shown EXCEPT ![post.prompt].text = all]
        BY <2>3, <3>1, <4>1
      <4> QED
        BY <1>0, <2>4, <4>2, ShownGrows DEF Outcomes
    <3>2. CASE post.kind = "thinking"
      <4>1. PICK all \in Text : all = shown[post.prompt].thought \o text
        BY <2>5
      <4>2. shown' = [shown EXCEPT ![post.prompt].thought = all]
        BY <2>3, <3>2, <4>1
      <4> QED
        BY <1>0, <2>4, <4>2, ShownGrows DEF Outcomes
    <3>3. CASE post.kind = "done"
      <4>1. PICK o \in Outcomes : o = prompt[post.prompt].outcome
        BY <2>4 DEF Outcomes
      <4>2. shown' = [shown EXCEPT ![post.prompt].reply = text, ![post.prompt].outcome = o]
        BY <2>3, <3>3, <4>1
      <4> QED
        BY <1>0, <2>4, <4>2, ShownGrows
    <3> QED
      BY <2>4, <3>1, <3>2, <3>3 DEF Kinds
  <2> QED
    BY <1>0, <1>a, <1>1, <1>10, <2>6 DEF HandlePost, goVars
<1> QED
  BY <1>3, <1>4, <1>5, <1>6, <1>7, <1>8, <1>9, <1>10 DEF Next

LEMMA InitTyped == Init => TypeOK
<1> SUFFICES ASSUME Init PROVE TypeOK
  OBVIOUS
<1>1. <<>> \in Text /\ <<>> \in Seq(PieceType) /\ <<>> \in Seq(PostType) /\ <<>> \in Seq(Text)
  BY EmptySeq DEF Text
<1>2. PortTyped
  <2>1. DOMAIN deltas = {}
    BY DEF Init
  <2> QED
    BY <1>1, <2>1 DEF Init, PortTyped
<1> QED
  BY <1>1, <1>2, TypeIs DEF Init, PromptType, ShownType, Nothing

(* The variables keep to their types.                                      *)
THEOREM TypeCorrect == Spec => []TypeOK
  BY InitTyped, TypedStep, PTL DEF Spec

LEMMA HandledAwaited ==
  ASSUME PortTyped, DeltasAwaited, HandlePost
  PROVE  DeltasAwaited'
<1>1. PICK m : m = Len(port)
  OBVIOUS
<1>2. /\ m \in Nat /\ m # 0 /\ DOMAIN port = 1..m /\ DOMAIN port' = 1..m - 1
      /\ Head(port) = port[1]
      /\ \A i \in 1..m - 1 : port'[i] = port[i + 1]
      /\ \A i \in DOMAIN port : i = 1 \/ i - 1 \in DOMAIN port'
      /\ \A id : id \in DOMAIN deltas' <=> id \in DOMAIN deltas /\ id # port[1].id
  BY <1>1, PortShorter DEF PortTyped
<1>3. /\ 1 \in 1..m
      /\ \A i \in 1..m - 1 : i + 1 \in 1..m /\ i + 1 # 1
      /\ \A i, j \in 1..m - 1 : i + 1 = j + 1 => i = j
      /\ \A i \in 1..m : (i - 1) + 1 = i
  BY <1>2
<1>4. /\ DOMAIN deltas = {port[i].id : i \in 1..m}
      /\ \A i, j \in 1..m : port[i].id = port[j].id => i = j
  BY <1>2 DEF DeltasAwaited
<1>5. DOMAIN deltas' = {port'[i].id : i \in 1..m - 1}
  <2>1. \A i \in 1..m - 1 : port'[i].id \in DOMAIN deltas'
    BY <1>2, <1>3, <1>4
  <2>2. ASSUME NEW id \in DOMAIN deltas' PROVE \E i \in 1..m - 1 : port'[i].id = id
    <3>1. PICK i \in 1..m : port[i].id = id /\ i # 1
      BY <1>2, <1>4
    <3>2. i - 1 \in 1..m - 1 /\ port'[i - 1] = port[i]
      BY <1>2, <1>3, <3>1
    <3> QED
      BY <3>1, <3>2
  <2> QED
    BY <2>1, <2>2
<1>6. \A i, j \in 1..m - 1 : port'[i].id = port'[j].id => i = j
  BY <1>2, <1>3, <1>4
<1> QED
  BY <1>2, <1>5, <1>6 DEF DeltasAwaited

LEMMA AwaitedStep == TypeOK /\ DeltasAwaited /\ [Next]_streamVars => DeltasAwaited'
<1> SUFFICES ASSUME TypeOK, DeltasAwaited, [Next]_streamVars PROVE DeltasAwaited'
  OBVIOUS
<1>1. PortTyped
  BY TypeIs
<1>2. CASE UNCHANGED portVars
  BY <1>2 DEF portVars, DeltasAwaited
<1>3. CASE HandlePost
  BY <1>1, <1>3, HandledAwaited
<1>4. ASSUME NEW p \in Prompts, Posts(p) PROVE DeltasAwaited'
  BY <1>1, <1>4, PostAwaited DEF Posts
<1> QED
  BY <1>2, <1>3, <1>4, PortSteps

LEMMA InitAwaited == Init => DeltasAwaited
<1> SUFFICES ASSUME Init PROVE DeltasAwaited
  OBVIOUS
<1>1. DOMAIN deltas = {} /\ DOMAIN port = {}
  BY DEF Init
<1> QED
  BY <1>1 DEF DeltasAwaited

(* No text is leaked in the delta store and none is fetched twice, however *)
(* many prompts stream at once.                                            *)
THEOREM NoDeltaLost == Spec => []DeltasAwaited
  BY InitAwaited, AwaitedStep, TypeCorrect, PTL DEF Spec
-----------------------------------------------------------------------------
LEMMA FlattenNothing ==
  ASSUME NEW S, NEW s \in Seq(Seq(S)), \A i \in 1..Len(s) : s[i] = <<>>
  PROVE  FlattenSeq(s) = <<>>
<1>1. CASE s = <<>>
  BY <1>1, FlattenEmpty
<1>2. CASE s # <<>>
  <2>1. PICK N \in Nat : N = Len(s) /\ N # 0
    BY <1>2, EmptySeq, LenProperties
  <2>2. PICK f \in [1..N -> Seq(S)] :
           /\ FlattenSeq(s) = f[N]
           /\ \A i \in 1..N : f[i] = IF i = 1 THEN s[1] ELSE f[i - 1] \o s[i]
    <3>1. \E f \in [1..Len(s) -> Seq(S)] :
             /\ FlattenSeq(s) = f[Len(s)]
             /\ \A i \in 1..Len(s) : f[i] = IF i = 1 THEN s[1] ELSE f[i - 1] \o s[i]
      BY <1>2, FlattenIs
    <3> QED
      BY <2>1, <3>1
  <2> DEFINE P == {n \in 0..N : n = 0 \/ f[n] = <<>>}
  <2>3. 0 \in P
    BY <2>1
  <2>4. ASSUME NEW n \in 0..N, n # N, n \in P PROVE n + 1 \in P
    <3>1. n + 1 \in 1..N /\ (n + 1) - 1 = n /\ n + 1 \in 0..N /\ (n + 1 = 1 <=> n = 0)
      BY <2>1, <2>4
    <3>2. <<>> \o <<>> = <<>>
      OBVIOUS
    <3>3. f[n + 1] = IF n = 0 THEN s[1] ELSE f[n] \o s[n + 1]
      BY <2>2, <3>1
    <3>4. f[n + 1] = <<>>
      BY <2>1, <2>4, <3>1, <3>2, <3>3
    <3> QED
      BY <3>1, <3>4
  <2> HIDE DEF P
  <2>5. 0..N \subseteq P
    BY <2>1, <2>3, <2>4, Induction
  <2>6. N \in 0..N
    BY <2>1
  <2> QED
    BY <2>1, <2>2, <2>5, <2>6 DEF P
<1> QED
  BY <1>1, <1>2

(* The text of the answer that is still on its way to the callbacks.       *)
PartOf(p, post) ==
    IF post.prompt = p /\ post.kind = "answer" THEN deltas[post.id] ELSE <<>>
Arriving(p) == FlattenSeq([i \in DOMAIN port |-> PartOf(p, port[i])])

LEMMA PartType ==
  ASSUME PortTyped, DeltasAwaited, NEW p
  PROVE  /\ Len(port) \in Nat /\ DOMAIN port = 1..Len(port)
         /\ \A i \in 1..Len(port) : port[i] \in PostType /\ port[i].id \in DOMAIN deltas
         /\ \A i \in 1..Len(port) : PartOf(p, port[i]) \in Text
         /\ [i \in 1..Len(port) |-> PartOf(p, port[i])] \in Seq(Text)
<1>1. Len(port) \in Nat /\ DOMAIN port = 1..Len(port)
  BY LenProperties DEF PortTyped
<1>2. \A i \in 1..Len(port) : port[i] \in PostType /\ port[i].id \in DOMAIN deltas
  BY <1>1, ElementOfSeq DEF PortTyped, DeltasAwaited
<1>3. \A i \in 1..Len(port) : PartOf(p, port[i]) \in Text
  <2>1. <<>> \in Text
    BY EmptySeq DEF Text
  <2> QED
    BY <1>2, <2>1 DEF PartOf, PortTyped
<1>4. [i \in 1..Len(port) |-> PartOf(p, port[i])] \in [1..Len(port) -> Text]
  BY <1>3
<1> QED
  BY <1>1, <1>2, <1>3, <1>4

LEMMA ArrivingType ==
  ASSUME PortTyped, DeltasAwaited, NEW p
  PROVE  Arriving(p) \in Text
  BY PartType, FlattenType DEF Arriving, Text

(* Posted text of an answer comes after what is on its way.                *)
NewPart(p, q, kinds, texts) ==
    FlattenSeq([k \in 1..Len(texts) |-> IF p = q /\ kinds[k] = "answer" THEN texts[k] ELSE <<>>])

LEMMA PostArrives ==
  ASSUME PortTyped, DeltasAwaited, NEW p \in Prompts, NEW texts \in Seq(Text), NEW kinds,
         \A k \in DOMAIN texts : kinds[k] \in Kinds, Post(p, kinds, texts), NEW q \in Prompts
  PROVE  Arriving(q)' = Arriving(q) \o NewPart(p, q, kinds, texts)
<1>1. PICK n : n = Len(texts)
  OBVIOUS
<1>2. PICK d : d = deltaSeq
  OBVIOUS
<1>3. PICK m : m = Len(port)
  OBVIOUS
<1>4. PICK posts : Posted(p, kinds, texts, n, d, posts)
  BY <1>1, <1>2, PostFacts
<1>5. /\ m \in Nat /\ n \in Nat /\ d \in Nat
      /\ DOMAIN port = 1..m /\ DOMAIN port' = 1..m + n
      /\ \A i \in 1..m : port'[i] = port[i]
      /\ \A k \in 1..n : port'[m + k] = [prompt |-> p, kind |-> kinds[k], id |-> d + k]
  <2>1. /\ n \in Nat /\ d \in Nat /\ posts \in Seq(PostType) /\ Len(posts) = n /\ port' = port \o posts
        /\ \A k \in 1..n : posts[k] = [prompt |-> p, kind |-> kinds[k], id |-> d + k]
    BY <1>4 DEF Posted
  <2>2. port \in Seq(PostType)
    BY DEF PortTyped
  <2>3. \A k \in 1..n : port'[m + k] = posts[k]
    BY <1>3, <2>1, <2>2, PortLonger
  <2> QED
    BY <1>3, <2>1, <2>2, <2>3, PortLonger
<1>6. PICK s \in Seq(Text) : s = [i \in 1..m |-> PartOf(q, port[i])]
  BY <1>3, PartType
<1>7. PICK t \in Seq(Text) :
         t = [k \in 1..n |-> IF p = q /\ kinds[k] = "answer" THEN texts[k] ELSE <<>>]
  <2>1. \A k \in 1..n : texts[k] \in Text /\ <<>> \in Text
    BY <1>1, ElementOfSeq, EmptySeq DEF Text
  <2>2. PICK t : t = [k \in 1..n |-> IF p = q /\ kinds[k] = "answer" THEN texts[k] ELSE <<>>]
    OBVIOUS
  <2>3. t \in [1..n -> Text]
    BY <2>1, <2>2
  <2>4. t \in Seq(Text)
    BY <1>5, <2>3
  <2> QED
    BY <2>2, <2>4
<1>8. Len(s) = m /\ Len(t) = n
  BY <1>5, <1>6, <1>7
<1>9. PICK r : r = [i \in 1..m + n |-> PartOf(q, port[i])']
  OBVIOUS
<1>10. \A i \in 1..m : PartOf(q, port[i])' = s[i]
  <2>1. \A i \in 1..m : port[i].id \in DOMAIN deltas
    BY <1>5 DEF DeltasAwaited
  <2>2. \A i \in 1..m : deltas'[port[i].id] = deltas[port[i].id]
    BY <1>4, <2>1 DEF Posted
  <2> QED
    BY <1>5, <1>6, <2>2 DEF PartOf
<1>11. \A k \in 1..n : PartOf(q, port[m + k])' = t[k]
  <2>1. \A k \in 1..n : deltas'[d + k] = texts[k]
    BY <1>4 DEF Posted
  <2> TAKE k \in 1..n
  <2>2. port'[m + k].prompt = p /\ port'[m + k].kind = kinds[k] /\ port'[m + k].id = d + k
    <3>1. port'[m + k] = [prompt |-> p, kind |-> kinds[k], id |-> d + k]
      BY <1>5, Zenon
    <3> QED
      BY <3>1
  <2>3. t[k] = IF p = q /\ kinds[k] = "answer" THEN texts[k] ELSE <<>>
    BY <1>7
  <2>4. PICK x : x = port'[m + k]
    OBVIOUS
  <2>5. PartOf(q, port[m + k])' = IF x.prompt = q /\ x.kind = "answer" THEN deltas'[x.id] ELSE <<>>
    BY <2>4 DEF PartOf
  <2>6. deltas'[x.id] = texts[k]
    BY <2>1, <2>2, <2>4
  <2> QED
    BY <2>2, <2>3, <2>4, <2>5, <2>6
<1>12. r = s \o t
  <2>1. \A i \in 1..m + n : r[i] = IF i <= m THEN s[i] ELSE t[i - m]
    <3> TAKE i \in 1..m + n
    <3>1. i <= m => i \in 1..m
      BY <1>5
    <3>2. ~(i <= m) => i - m \in 1..n /\ m + (i - m) = i
      BY <1>5
    <3> QED
      BY <1>9, <1>10, <1>11, <3>1, <3>2
  <2>2. PICK c : c = s \o t
    OBVIOUS
  <2>3. /\ c \in Seq(Text) /\ Len(c) = m + n
        /\ \A i \in 1..m + n : c[i] = IF i <= m THEN s[i] ELSE t[i - m]
    BY <1>8, <2>2, ConcatProperties
  <2>4. c = [i \in 1..m + n |-> c[i]]
    BY <2>3
  <2>5. \A i \in 1..m + n : r[i] = c[i]
    BY <2>1, <2>3
  <2> QED
    BY <1>9, <2>2, <2>4, <2>5
<1>13. Arriving(q) = FlattenSeq(s) /\ NewPart(p, q, kinds, texts) = FlattenSeq(t)
  BY <1>1, <1>5, <1>6, <1>7 DEF Arriving, NewPart
<1>14. Arriving(q)' = FlattenSeq(r)
  BY <1>5, <1>9 DEF Arriving
<1>15. s \in Seq(Seq(Symbols)) /\ t \in Seq(Seq(Symbols))
  BY <1>6, <1>7 DEF Text
<1>16. FlattenSeq(s \o t) = FlattenSeq(s) \o FlattenSeq(t)
  BY <1>15, FlattenConcat
<1> QED
  BY <1>12, <1>13, <1>14, <1>16

LEMMA NothingNew ==
  ASSUME NEW p, NEW q, NEW texts \in Seq(Text), NEW kinds,
         \A k \in DOMAIN texts : p # q \/ kinds[k] # "answer"
  PROVE  NewPart(p, q, kinds, texts) = <<>>
<1>1. Len(texts) \in Nat /\ DOMAIN texts = 1..Len(texts)
  BY LenProperties
<1>2. PICK n \in Nat : n = Len(texts)
  BY <1>1
<1>3. PICK t : t = [k \in 1..n |-> IF p = q /\ kinds[k] = "answer" THEN texts[k] ELSE <<>>]
  OBVIOUS
<1>4. \A k \in 1..n : t[k] = <<>>
  BY <1>1, <1>2, <1>3
<1>5. t \in Seq(Seq(Symbols)) /\ Len(t) = n
  <2>1. <<>> \in Seq(Symbols)
    BY EmptySeq
  <2>2. t \in [1..n -> Seq(Symbols)]
    BY <1>3, <1>4, <2>1
  <2> QED
    BY <1>3, <2>2
<1> QED
  BY <1>2, <1>3, <1>4, <1>5, FlattenNothing DEF NewPart

(* The post that is handled is the first that was on its way.              *)
LEMMA HandledArrives ==
  ASSUME PortTyped, DeltasAwaited, HandlePost, NEW q \in Prompts
  PROVE  /\ Arriving(q) = PartOf(q, port[1]) \o Arriving(q)'
         /\ PartOf(q, port[1]) \in Text /\ Arriving(q)' \in Text
         /\ 1 \in DOMAIN port /\ port[1] = Head(port)
<1>1. PICK m : m = Len(port)
  OBVIOUS
<1>2. /\ m \in Nat /\ m # 0 /\ DOMAIN port = 1..m /\ DOMAIN port' = 1..m - 1
      /\ Head(port) = port[1]
      /\ \A i \in 1..m - 1 : port'[i] = port[i + 1]
      /\ \A id \in DOMAIN deltas' : deltas'[id] = deltas[id]
  BY <1>1, PortShorter DEF PortTyped
<1>3. 1 \in 1..m /\ m - 1 \in Nat /\ \A i \in 1..m - 1 : i + 1 \in 1..m
  BY <1>2
<1>4. PICK x \in Text : x = PartOf(q, port[1])
  BY <1>1, <1>3, PartType
<1>5. PICK s \in Seq(Text) : s = [i \in 1..m |-> PartOf(q, port[i])]
  BY <1>1, PartType
<1>6. PICK r : r = [i \in 1..m - 1 |-> PartOf(q, port[i])']
  OBVIOUS
<1>7. \A i \in 1..m - 1 : r[i] = s[i + 1]
  <2>1. DeltasAwaited'
    BY HandledAwaited
  <2>2. \A i \in 1..m - 1 : port'[i].id \in DOMAIN deltas'
    BY <1>2, <2>1 DEF DeltasAwaited
  <2>3. \A i \in 1..m - 1 : deltas'[port'[i].id] = deltas[port[i + 1].id]
    BY <1>2, <2>2
  <2> QED
    BY <1>2, <1>3, <1>5, <1>6, <2>3 DEF PartOf
<1>8. s[1] = x /\ \A i \in 1..m : s[i] \in Text
  BY <1>3, <1>4, <1>5, <1>1, PartType
<1>9. r \in Seq(Text) /\ Len(r) = m - 1
  <2>1. r \in [1..m - 1 -> Text]
    BY <1>3, <1>6, <1>7, <1>8
  <2> QED
    BY <1>3, <1>6, <2>1, SMTT(20)
<1>10. s = <<x>> \o r
  <2>1. \A i \in 1..m : s[i] = IF i <= 1 THEN <<x>>[i] ELSE r[i - 1]
    <3> TAKE i \in 1..m
    <3>1. i # 1 => i - 1 \in 1..m - 1 /\ (i - 1) + 1 = i /\ ~(i <= 1)
      BY <1>2
    <3> QED
      BY <1>7, <1>8, <3>1
  <2>2. Len(<<x>>) = 1 /\ 1 + (m - 1) = m
    BY <1>2
  <2> QED
    BY <1>2, <1>5, <1>9, <2>1, <2>2
<1>11. FlattenSeq(s) = x \o FlattenSeq(r)
  <2>1. <<x>> \in Seq(Text)
    OBVIOUS
  <2>2. FlattenSeq(<<x>>) = x
    BY FlattenOne DEF Text
  <2> QED
    BY <1>9, <1>10, <2>1, <2>2, FlattenConcat DEF Text
<1>12. Arriving(q) = FlattenSeq(s) /\ Arriving(q)' = FlattenSeq(r)
  BY <1>2, <1>5, <1>6 DEF Arriving
<1>13. FlattenSeq(r) \in Text
  BY <1>9, FlattenType DEF Text
<1> QED
  BY <1>2, <1>3, <1>4, <1>11, <1>12, <1>13
-----------------------------------------------------------------------------
(* A step leaves the answers alone, or the isolate handles a post, or a    *)
(* stream hands text on, or a goroutine ends.                              *)
Still ==
    /\ UNCHANGED portVars /\ shown' = shown
    /\ \A q \in Prompts : prompt'[q].response = prompt[q].response

Streamed(p) ==
    /\ prompt[p].pc = "streaming"
    /\ shown' = shown
    /\ \A q \in Prompts : q # p => prompt'[q] = prompt[q]
    /\ \E texts, kinds :
          /\ texts \in Seq(Text)
          /\ \A k \in DOMAIN texts : kinds[k] \in {"answer", "thinking"}
          /\ Post(p, kinds, texts)
          /\ prompt'[p].response = prompt[p].response \o NewPart(p, p, kinds, texts)

LEMMA ReasoningStreamed ==
  ASSUME TypeOK, NEW p \in Prompts, NEW text \in Text, ReasoningChunk(p, text)
  PROVE  Streamed(p)
<1>1. PICK pieces : pieces = <<Piece(TRUE, text)>>
  OBVIOUS
<1>2. pieces \in Seq(PieceType) /\ Len(pieces) = 1 /\ pieces[1].thinking = TRUE
  BY <1>1 DEF Piece, PieceType
<1>3. Signal(p, pieces)
  BY <1>1 DEF ReasoningChunk
<1>4. PICK texts, kinds :
         /\ texts \in Seq(Text)
         /\ \A k \in DOMAIN texts : kinds[k] \in Kinds
         /\ Len(texts) = Len(pieces)
         /\ \A k \in 1..Len(pieces) :
               /\ texts[k] = pieces[k].text
               /\ kinds[k] = IF pieces[k].thinking THEN "thinking" ELSE "answer"
         /\ Post(p, kinds, texts)
  BY <1>2, <1>3, SignalPosts
<1>5. \A k \in DOMAIN texts : kinds[k] = "thinking"
  <2>1. DOMAIN texts = 1..1
    BY <1>2, <1>4, LenProperties
  <2> QED
    BY <1>2, <1>4, <2>1
<1>6. NewPart(p, p, kinds, texts) = <<>>
  BY <1>4, <1>5, NothingNew
<1>7. prompt[p].response \o <<>> = prompt[p].response
  <2>1. prompt[p].response \in Seq(Symbols)
    BY TypeIs DEF PromptType, Text
  <2> QED
    BY <2>1, ConcatEmptySeq
<1>8. prompt' = prompt /\ shown' = shown /\ prompt[p].pc = "streaming"
  BY DEF ReasoningChunk, dartVars
<1> QED
  BY <1>4, <1>5, <1>6, <1>7, <1>8 DEF Streamed

LEMMA ContentStreamed ==
  ASSUME TypeOK, NEW p \in Prompts, NEW text \in Text, ContentChunk(p, text)
  PROVE  Streamed(p)
<1>1. PICK scan \in [inThink : BOOLEAN, held : Text, out : Seq(PieceType)] :
         scan = Scan(prompt[p].inThink, prompt[p].held, text)
  BY ScanTyped
<1>2. PICK out \in Seq(PieceType) : out = scan.out
  BY <1>1
<1>3. /\ Signal(p, out) /\ shown' = shown /\ prompt[p].pc = "streaming"
      /\ prompt' = [prompt EXCEPT ![p].inThink = scan.inThink, ![p].held = scan.held,
                                  ![p].response = @ \o TextOf(out, FALSE)]
  BY <1>1, <1>2 DEF ContentChunk, dartVars
<1>4. PICK texts, kinds :
         /\ texts \in Seq(Text)
         /\ \A k \in DOMAIN texts : kinds[k] \in Kinds
         /\ Len(texts) = Len(out)
         /\ \A k \in 1..Len(out) :
               /\ texts[k] = out[k].text
               /\ kinds[k] = IF out[k].thinking THEN "thinking" ELSE "answer"
         /\ Post(p, kinds, texts)
  BY <1>3, SignalPosts
<1>5. PICK n \in Nat : n = Len(out)
  BY LenProperties
<1>6. DOMAIN texts = 1..n /\ DOMAIN out = 1..n /\ \A k \in 1..n : out[k].thinking \in BOOLEAN
  <2>1. \A k \in 1..n : out[k] \in PieceType
    BY <1>5, ElementOfSeq
  <2> QED
    BY <1>4, <1>5, <2>1, LenProperties DEF PieceType
<1>7. \A k \in DOMAIN texts : kinds[k] \in {"answer", "thinking"}
  BY <1>4, <1>5, <1>6
<1>8. NewPart(p, p, kinds, texts) = TextOf(out, FALSE)
  <2>1. \A k \in 1..n : (kinds[k] = "answer") <=> (out[k].thinking = FALSE)
    BY <1>4, <1>5, <1>6
  <2>2. \A k \in 1..n : (IF p = p /\ kinds[k] = "answer" THEN texts[k] ELSE <<>>)
                          = (IF out[k].thinking = FALSE THEN out[k].text ELSE <<>>)
    BY <1>4, <1>5, <2>1
  <2>3. [k \in 1..n |-> IF p = p /\ kinds[k] = "answer" THEN texts[k] ELSE <<>>]
           = [k \in 1..n |-> IF out[k].thinking = FALSE THEN out[k].text ELSE <<>>]
    BY <2>2
  <2>4. n = Len(texts)
    BY <1>4, <1>5
  <2> QED
    BY <1>6, <2>3, <2>4 DEF NewPart, TextOf
<1>9. prompt'[p].response = prompt[p].response \o TextOf(out, FALSE)
  <2>1. prompt \in [Prompts -> PromptType]
    BY TypeIs
  <2>2. PICK new : new = prompt[p].response \o TextOf(out, FALSE)
    OBVIOUS
  <2>3. prompt' = [prompt EXCEPT ![p].inThink = scan.inThink, ![p].held = scan.held,
                                 ![p].response = new]
    BY <1>3, <2>1, <2>2 DEF PromptType
  <2> QED
    BY <2>1, <2>2, <2>3 DEF PromptType
<1>10. \A q \in Prompts : q # p => prompt'[q] = prompt[q]
  <2>1. prompt \in [Prompts -> PromptType]
    BY TypeIs
  <2> QED
    BY <1>3, <2>1
<1>11. prompt'[p].response = prompt[p].response \o NewPart(p, p, kinds, texts)
  BY <1>8, <1>9
<1> QED
  BY <1>3, <1>4, <1>7, <1>10, <1>11 DEF Streamed

LEMMA ReplySteps ==
  ASSUME TypeOK, [Next]_streamVars
  PROVE  Still \/ HandlePost \/ \E p \in Prompts : Streamed(p) \/ PromptDone(p)
<1>1. prompt \in [Prompts -> PromptType]
  BY TypeIs
<1>2. CASE UNCHANGED streamVars
  BY <1>2 DEF streamVars, portVars, Still
<1>3. CASE LeaveChat
  BY <1>3 DEF LeaveChat, goVars, portVars, Still
<1>4. CASE CancelPrompt
  BY <1>1, <1>4 DEF CancelPrompt, dartVars, portVars, Still, PromptType
<1>5. ASSUME NEW p \in Prompts,
             \/ Send(p) \/ PromptRefused(p) \/ RegisterCancel(p)
             \/ PromptSucceeds(p) \/ PromptFails(p) \/ ReleaseCancel(p)
      PROVE  Still
  <2>1. UNCHANGED portVars /\ shown' = shown
    BY <1>5 DEF Send, PromptRefused, RegisterCancel, PromptSucceeds, PromptFails, ReleaseCancel, dartVars
  <2>2. CASE Send(p)
    BY <1>1, <2>1, <2>2 DEF Send, Still, PromptType
  <2>3. CASE PromptRefused(p)
    BY <1>1, <2>1, <2>3 DEF PromptRefused, Still, PromptType
  <2>4. CASE RegisterCancel(p)
    BY <1>1, <2>1, <2>4 DEF RegisterCancel, Still, PromptType
  <2>5. CASE PromptSucceeds(p) \/ PromptFails(p)
    <3>1. PICK o : prompt' = [prompt EXCEPT ![p].pc = "returned", ![p].outcome = o]
      BY <2>5 DEF PromptSucceeds, PromptFails
    <3> QED
      BY <1>1, <2>1, <3>1 DEF Still, PromptType
  <2>6. CASE ReleaseCancel(p)
    BY <1>1, <2>1, <2>6 DEF ReleaseCancel, Still, PromptType
  <2> QED
    BY <1>5, <2>2, <2>3, <2>4, <2>5, <2>6
<1>6. ASSUME NEW p \in Prompts, Streams(p) PROVE Streamed(p)
  <2>1. PICK piece \in Provider[p] :
           IF piece.thinking THEN ReasoningChunk(p, piece.text) ELSE ContentChunk(p, piece.text)
    BY <1>6 DEF Streams
  <2> QED
    BY <2>1, ProviderPieces, ReasoningStreamed, ContentStreamed
<1> QED
  BY <1>2, <1>3, <1>4, <1>5, <1>6 DEF Next

(* The end of the goroutine posts one text, and no part of the answer.     *)
LEMMA DonePost ==
  ASSUME TypeOK, NEW p \in Prompts, PromptDone(p)
  PROVE  /\ prompt[p].pc = "released" /\ prompt'[p].pc = "done"
         /\ prompt'[p].outcome = prompt[p].outcome /\ prompt'[p].response = prompt[p].response
         /\ \A q \in Prompts : q # p => prompt'[q] = prompt[q]
         /\ shown' = shown
         /\ \E texts, kinds :
               /\ texts \in Seq(Text)
               /\ Len(texts) = 1 /\ DOMAIN texts = {1} /\ kinds[1] = "done"
               /\ texts[1] = IF prompt[p].outcome = "error" THEN <<>> ELSE prompt[p].response
               /\ Post(p, kinds, texts)
<1>1. PICK text : text = IF prompt[p].outcome = "error" THEN <<>> ELSE prompt[p].response
  OBVIOUS
<1>2. text \in Text /\ prompt \in [Prompts -> PromptType]
  <2>1. prompt[p].response \in Text /\ <<>> \in Text
    BY TypeIs, EmptySeq DEF PromptType, Text
  <2> QED
    BY <1>1, <2>1, TypeIs
<1>3. <<text>> \in Seq(Text) /\ Len(<<text>>) = 1 /\ DOMAIN <<text>> = {1} /\ <<"done">>[1] = "done"
  BY <1>2
<1>4. Post(p, <<"done">>, <<text>>)
  BY <1>1 DEF PromptDone
<1>5. \E texts, kinds :
         /\ texts \in Seq(Text)
         /\ Len(texts) = 1 /\ DOMAIN texts = {1} /\ kinds[1] = "done"
         /\ texts[1] = IF prompt[p].outcome = "error" THEN <<>> ELSE prompt[p].response
         /\ Post(p, kinds, texts)
  <2>1. <<text>>[1] = text
    OBVIOUS
  <2> QED
    BY <1>1, <1>3, <1>4, <2>1
<1>6. /\ prompt[p].pc = "released" /\ prompt' = [prompt EXCEPT ![p].pc = "done"] /\ shown' = shown
  BY DEF PromptDone, dartVars
<1>7. /\ prompt'[p].pc = "done"
      /\ prompt'[p].outcome = prompt[p].outcome /\ prompt'[p].response = prompt[p].response
      /\ \A q \in Prompts : q # p => prompt'[q] = prompt[q]
  BY <1>2, <1>6 DEF PromptType
<1> QED
  BY <1>5, <1>6, <1>7
-----------------------------------------------------------------------------
(* What the callbacks have gathered and what is on its way is the response *)
(* so far.                                                                 *)
Gathered(p) == shown[p].text \o Arriving(p) = prompt[p].response

LEMMA GatheredStep ==
  ASSUME TypeOK, DeltasAwaited, \A q \in Prompts : Gathered(q), [Next]_streamVars, NEW q \in Prompts
  PROVE  Gathered(q)'
<1>0. PortTyped /\ Arriving(q) \in Seq(Symbols) /\ shown[q].text \in Seq(Symbols)
  BY TypeIs, ArrivingType DEF ShownType, Text
<1>1. shown[q].text \o Arriving(q) = prompt[q].response
  BY DEF Gathered
<1>2. PICK a \in Seq(Symbols) : a = shown[q].text
  BY <1>0
<1>3. PICK b \in Seq(Symbols) : b = Arriving(q)
  BY <1>0
<1>4. CASE Still
  <2>1. Arriving(q)' = Arriving(q)
    BY <1>4 DEF Still, portVars, Arriving, PartOf
  <2> QED
    BY <1>1, <1>4, <2>1 DEF Still, Gathered
<1>5. ASSUME NEW p \in Prompts, Streamed(p) PROVE Gathered(q)'
  <2>1. PICK texts, kinds :
           /\ texts \in Seq(Text)
           /\ \A k \in DOMAIN texts : kinds[k] \in {"answer", "thinking"}
           /\ Post(p, kinds, texts)
           /\ prompt'[p].response = prompt[p].response \o NewPart(p, p, kinds, texts)
    BY <1>5 DEF Streamed
  <2>2. \A k \in DOMAIN texts : kinds[k] \in Kinds
    BY <2>1 DEF Kinds
  <2>3. PICK c : c = NewPart(p, q, kinds, texts)
    OBVIOUS
  <2>4. Arriving(q)' = b \o c
    BY <1>0, <1>3, <2>1, <2>2, <2>3, PostArrives
  <2>5. shown'[q].text = a
    BY <1>2, <1>5 DEF Streamed
  <2>6. CASE q = p
    <3>1. c \in Seq(Symbols)
      <4>1. PICK n \in Nat : n = Len(texts)
        BY LenProperties
      <4>2. PICK t : t = [k \in 1..n |-> IF p = q /\ kinds[k] = "answer" THEN texts[k] ELSE <<>>]
        OBVIOUS
      <4>3. \A k \in 1..n : texts[k] \in Seq(Symbols) /\ <<>> \in Seq(Symbols)
        BY <2>1, <4>1, ElementOfSeq, EmptySeq DEF Text
      <4>4. t \in [1..n -> Seq(Symbols)]
        BY <4>2, <4>3
      <4>5. t \in Seq(Seq(Symbols))
        BY <4>4
      <4>6. c = FlattenSeq(t)
        BY <2>3, <4>1, <4>2 DEF NewPart
      <4> QED
        BY <4>5, <4>6, FlattenType
    <3>2. prompt'[q].response = (a \o b) \o c
      BY <1>1, <1>2, <1>3, <2>1, <2>3, <2>6
    <3>3. (a \o b) \o c = a \o (b \o c)
      BY <3>1, TextAssoc, Zenon
    <3> QED
      BY <2>4, <2>5, <3>2, <3>3 DEF Gathered
  <2>7. CASE q # p
    <3>1. c = <<>>
      BY <2>1, <2>3, <2>7, NothingNew
    <3>2. b \o c = b
      BY <3>1, ConcatEmptySeq
    <3>3. prompt'[q].response = a \o b
      BY <1>1, <1>2, <1>3, <1>5, <2>7 DEF Streamed
    <3> QED
      BY <2>4, <2>5, <3>2, <3>3 DEF Gathered
  <2> QED
    BY <2>6, <2>7
<1>6. ASSUME NEW p \in Prompts, PromptDone(p) PROVE Gathered(q)'
  <2>1. PICK texts, kinds :
           /\ texts \in Seq(Text) /\ Len(texts) = 1 /\ DOMAIN texts = {1} /\ kinds[1] = "done"
           /\ Post(p, kinds, texts)
    BY <1>6, DonePost
  <2>2. \A k \in DOMAIN texts : kinds[k] \in Kinds /\ kinds[k] # "answer"
    BY <2>1 DEF Kinds
  <2>3. NewPart(p, q, kinds, texts) = <<>>
    BY <2>1, <2>2, NothingNew
  <2>4. Arriving(q)' = Arriving(q) \o NewPart(p, q, kinds, texts)
    BY <1>0, <2>1, <2>2, PostArrives
  <2>5. Arriving(q)' = Arriving(q)
    <3>1. b \o <<>> = b
      BY ConcatEmptySeq
    <3> QED
      BY <1>3, <2>3, <2>4, <3>1
  <2>6. shown' = shown /\ prompt'[q].response = prompt[q].response
    BY <1>6, DonePost
  <2> QED
    BY <1>1, <2>5, <2>6 DEF Gathered
<1>7. CASE HandlePost
  <2>1. PICK post \in PostType : post = Head(port) /\ post = port[1]
    BY <1>0, <1>7, HandledTyped, HandledArrives
  <2>2. PICK x \in Seq(Symbols) : x = PartOf(q, post)
    BY <1>0, <1>7, <2>1, HandledArrives DEF Text
  <2>3. PICK c : c = Arriving(q)'
    OBVIOUS
  <2>4. b = x \o c
    <3>1. Arriving(q) = PartOf(q, port[1]) \o Arriving(q)'
      BY <1>0, <1>7, HandledArrives
    <3> QED
      BY <1>3, <2>1, <2>2, <2>3, <3>1, Zenon
  <2>5. c \in Seq(Symbols)
    BY <1>0, <1>7, <2>3, HandledArrives DEF Text
  <2>6. post.id \in DOMAIN deltas
    BY <1>0, <1>7, <2>1, HandledArrives DEF DeltasAwaited
  <2>7. PICK text : text = deltas[post.id]
    BY Zenon
  <2>8. shown' = CASE post.kind = "answer" -> [shown EXCEPT ![post.prompt].text = @ \o text]
                   [] post.kind = "thinking" -> [shown EXCEPT ![post.prompt].thought = @ \o text]
                   [] post.kind = "done" ->
                        [shown EXCEPT ![post.prompt].reply = text,
                                      ![post.prompt].outcome = prompt[post.prompt].outcome]
    BY <1>7, <2>1, <2>6, <2>7 DEF HandlePost
  <2>9. shown \in [Prompts -> ShownType] /\ post.prompt \in Prompts /\ post.kind \in Kinds
    BY <2>1, TypeIs DEF PostType
  <2>10. shown'[q].text = a \o x
    <3>1. a \o <<>> = a
      BY ConcatEmptySeq
    <3>2. CASE post.kind = "answer" /\ post.prompt = q
      <4>1. x = text
        BY <2>2, <2>7, <3>2 DEF PartOf
      <4>2. PICK new : new = shown[q].text \o text
        OBVIOUS
      <4>3. shown' = [shown EXCEPT ![q].text = new]
        BY <2>8, <2>9, <3>2, <4>2 DEF ShownType
      <4> QED
        BY <1>2, <2>9, <4>1, <4>2, <4>3 DEF ShownType
    <3>3. CASE ~(post.kind = "answer" /\ post.prompt = q)
      <4>1. x = <<>>
        BY <2>2, <3>3 DEF PartOf
      <4>2. shown'[q].text = shown[q].text
        <5>1. CASE post.kind = "answer"
          <6>1. shown' = [shown EXCEPT ![post.prompt].text = @ \o text]
            BY <2>8, <5>1
          <6> QED
            BY <2>9, <3>3, <5>1, <6>1
        <5>2. CASE post.kind = "thinking"
          <6>1. PICK new : new = shown[post.prompt].thought \o text
            OBVIOUS
          <6>2. shown' = [shown EXCEPT ![post.prompt].thought = new]
            BY <2>8, <2>9, <5>2, <6>1 DEF ShownType
          <6> QED
            BY <2>9, <6>2 DEF ShownType
        <5>3. CASE post.kind = "done"
          <6>1. PICK o : o = prompt[post.prompt].outcome
            OBVIOUS
          <6>2. shown' = [shown EXCEPT ![post.prompt].reply = text, ![post.prompt].outcome = o]
            BY <2>8, <5>3, <6>1
          <6> QED
            BY <2>9, <6>2 DEF ShownType
        <5> QED
          BY <2>9, <5>1, <5>2, <5>3 DEF Kinds
      <4> QED
        BY <1>2, <3>1, <4>1, <4>2
    <3> QED
      BY <3>2, <3>3
  <2>11. (a \o x) \o c = a \o (x \o c)
    BY <2>5, TextAssoc, Zenon
  <2>12. prompt'[q].response = a \o b
    BY <1>1, <1>2, <1>3, <1>7 DEF HandlePost, goVars
  <2> QED
    BY <2>3, <2>4, <2>10, <2>11, <2>12 DEF Gathered
<1> QED
  BY <1>4, <1>5, <1>6, <1>7, ReplySteps
-----------------------------------------------------------------------------
(* Where the posts are after a call of the signal, and their texts.        *)
LEMMA PostPlaces ==
  ASSUME PortTyped, DeltasAwaited, NEW p \in Prompts, NEW texts \in Seq(Text), NEW kinds,
         \A k \in DOMAIN texts : kinds[k] \in Kinds, Post(p, kinds, texts)
  PROVE  \E m, n \in Nat :
            /\ n = Len(texts) /\ DOMAIN port = 1..m
            /\ \A i \in DOMAIN port' : i \notin DOMAIN port => i - m \in 1..n /\ ~(i <= m)
            /\ DOMAIN port \subseteq DOMAIN port' /\ DOMAIN port' = 1..m + n
            /\ \A i \in DOMAIN port : port'[i] = port[i] /\ deltas'[port[i].id] = deltas[port[i].id]
            /\ \A i \in DOMAIN port' : i \notin DOMAIN port =>
                  /\ port'[i].prompt = p /\ port'[i].kind = kinds[i - m]
                  /\ deltas'[port'[i].id] = texts[i - m]
<1>1. PICK n : n = Len(texts)
  OBVIOUS
<1>2. PICK d : d = deltaSeq
  OBVIOUS
<1>3. PICK m : m = Len(port)
  OBVIOUS
<1>4. PICK posts : Posted(p, kinds, texts, n, d, posts)
  BY <1>1, <1>2, PostFacts
<1>5. /\ m \in Nat /\ n \in Nat /\ d \in Nat
      /\ DOMAIN port = 1..m /\ DOMAIN port' = 1..m + n
      /\ \A i \in 1..m : port'[i] = port[i]
      /\ \A k \in 1..n : port'[m + k] = [prompt |-> p, kind |-> kinds[k], id |-> d + k]
  <2>1. /\ n \in Nat /\ d \in Nat /\ posts \in Seq(PostType) /\ Len(posts) = n /\ port' = port \o posts
        /\ \A k \in 1..n : posts[k] = [prompt |-> p, kind |-> kinds[k], id |-> d + k]
    BY <1>4 DEF Posted
  <2>2. port \in Seq(PostType)
    BY DEF PortTyped
  <2>3. /\ Len(port) \in Nat /\ DOMAIN port = 1..Len(port) /\ DOMAIN port' = 1..Len(port) + Len(posts)
        /\ \A i \in 1..Len(port) : port'[i] = port[i]
        /\ \A k \in 1..Len(posts) : port'[Len(port) + k] = posts[k]
    BY <2>1, <2>2, PortLonger
  <2> QED
    BY <1>3, <2>1, <2>3
<1>6. \A i \in 1..m + n : i \notin 1..m => i - m \in 1..n /\ m + (i - m) = i /\ ~(i <= m)
  BY <1>5
<1>7. \A i \in 1..m : deltas'[port[i].id] = deltas[port[i].id]
  <2>1. \A i \in 1..m : port[i].id \in DOMAIN deltas
    BY <1>5 DEF DeltasAwaited
  <2> QED
    BY <1>4, <2>1 DEF Posted
<1>8. ASSUME NEW i \in 1..m + n, i \notin 1..m
      PROVE  /\ port'[i].prompt = p /\ port'[i].kind = kinds[i - m]
             /\ deltas'[port'[i].id] = texts[i - m]
  <2>1. PICK k \in 1..n : k = i - m /\ m + k = i
    BY <1>6, <1>8
  <2>2. port'[i] = [prompt |-> p, kind |-> kinds[k], id |-> d + k]
    <3>1. port'[m + k] = [prompt |-> p, kind |-> kinds[k], id |-> d + k]
      BY <1>5, Zenon
    <3> QED
      BY <2>1, <3>1
  <2>3. deltas'[d + k] = texts[k]
    BY <1>4 DEF Posted
  <2> QED
    BY <2>1, <2>2, <2>3
<1>9. 1..m \subseteq 1..m + n
  BY <1>5
<1> QED
  BY <1>1, <1>5, <1>6, <1>7, <1>8, <1>9

(* A completion without an error brings the reply, any other an empty text. *)
FinalText(p) == IF prompt[p].outcome = "error" THEN <<>> ELSE prompt[p].response

(* The completion is the last post of its prompt, and is there or handled  *)
(* only once the goroutine has ended.                                      *)
CompletesLast(p) ==
    /\ \A i \in DOMAIN port : port[i].prompt = p /\ port[i].kind = "done" =>
          /\ prompt[p].pc = "done" /\ shown[p].outcome = "none"
          /\ deltas[port[i].id] = FinalText(p)
          /\ \A j \in DOMAIN port : port[j].prompt = p => j <= i
    /\ shown[p].outcome # "none" =>
          /\ prompt[p].pc = "done"
          /\ shown[p].outcome = prompt[p].outcome
          /\ shown[p].reply = FinalText(p)
          /\ \A j \in DOMAIN port : port[j].prompt # p

(* A goroutine that has ended does nothing more.                           *)
LEMMA EndedStays ==
  ASSUME TypeOK, [Next]_streamVars, NEW q \in Prompts, prompt[q].pc = "done"
  PROVE  /\ prompt'[q].pc = "done" /\ prompt'[q].outcome = prompt[q].outcome
         /\ prompt'[q].response = prompt[q].response
<1>1. prompt \in [Prompts -> PromptType]
  BY TypeIs
<1>2. CASE UNCHANGED streamVars
  BY <1>2, Zenon DEF streamVars
<1>3. CASE LeaveChat \/ HandlePost
  BY <1>3 DEF LeaveChat, HandlePost, goVars
<1>4. CASE CancelPrompt
  BY <1>1, <1>4 DEF CancelPrompt, PromptType
<1>5. ASSUME NEW p \in Prompts,
             \/ Send(p) \/ PromptRefused(p) \/ RegisterCancel(p) \/ Streams(p)
             \/ PromptSucceeds(p) \/ PromptFails(p) \/ ReleaseCancel(p) \/ PromptDone(p)
      PROVE  prompt'[q] = prompt[q]
  <2>1. prompt[p].pc # "done"
    BY <1>5 DEF Send, PromptRefused, RegisterCancel, Streams, ReasoningChunk, ContentChunk,
                PromptSucceeds, PromptFails, ReleaseCancel, PromptDone
  <2>2. \E new : prompt' = [prompt EXCEPT ![p] = new] \/ prompt' = prompt
    <3>1. CASE Streams(p)
      <4>1. PICK piece \in Provider[p] :
               IF piece.thinking THEN ReasoningChunk(p, piece.text) ELSE ContentChunk(p, piece.text)
        BY <3>1 DEF Streams
      <4> QED
        BY <4>1 DEF ReasoningChunk, ContentChunk
    <3>2. CASE Send(p) \/ PromptRefused(p) \/ RegisterCancel(p)
      BY <3>2 DEF Send, PromptRefused, RegisterCancel
    <3>3. CASE PromptSucceeds(p) \/ PromptFails(p) \/ ReleaseCancel(p) \/ PromptDone(p)
      BY <3>3 DEF PromptSucceeds, PromptFails, ReleaseCancel, PromptDone
    <3> QED
      BY <1>5, <3>1, <3>2, <3>3
  <2>3. p # q
    BY <2>1
  <2>4. CASE prompt' = prompt
    BY <2>4
  <2>5. ASSUME NEW new, prompt' = [prompt EXCEPT ![p] = new] PROVE prompt'[q] = prompt[q]
    BY <1>1, <2>3, <2>5
  <2> QED
    BY <2>2, <2>4, <2>5, Zenon
<1> QED
  BY <1>2, <1>3, <1>4, <1>5 DEF Next

LEMMA CompletesLastStep ==
  ASSUME TypeOK, DeltasAwaited, [Next]_streamVars, NEW q \in Prompts, CompletesLast(q)
  PROVE  CompletesLast(q)'
<1>0. PortTyped /\ prompt \in [Prompts -> PromptType] /\ shown \in [Prompts -> ShownType]
  BY TypeIs
<1>1. prompt[q].pc = "done" => prompt'[q].pc = "done" /\ prompt'[q].outcome = prompt[q].outcome
                               /\ FinalText(q)' = FinalText(q)
  BY EndedStays DEF FinalText
<1>2. CASE Still
  BY <1>1, <1>2 DEF Still, portVars, CompletesLast
<1>3. ASSUME NEW p \in Prompts, NEW texts \in Seq(Text), NEW kinds, prompt[p].pc # "done",
             \A k \in DOMAIN texts : kinds[k] \in Kinds, Post(p, kinds, texts), shown' = shown,
             p = q => \/ \A k \in 1..Len(texts) : kinds[k] # "done"
                      \/ Len(texts) = 1 /\ prompt'[q].pc = "done" /\ texts[1] = FinalText(q)'
      PROVE  CompletesLast(q)'
  <2>1. PICK m, n \in Nat :
            /\ n = Len(texts) /\ DOMAIN port = 1..m
            /\ \A i \in DOMAIN port' : i \notin DOMAIN port => i - m \in 1..n /\ ~(i <= m)
            /\ DOMAIN port \subseteq DOMAIN port' /\ DOMAIN port' = 1..m + n
            /\ \A i \in DOMAIN port : port'[i] = port[i] /\ deltas'[port[i].id] = deltas[port[i].id]
            /\ \A i \in DOMAIN port' : i \notin DOMAIN port =>
                  /\ port'[i].prompt = p /\ port'[i].kind = kinds[i - m]
                  /\ deltas'[port'[i].id] = texts[i - m]
    BY <1>0, <1>3, PostPlaces
  <2>2. q # p => \A i \in DOMAIN port' : port'[i].prompt = q => i \in DOMAIN port
    BY <2>1
  <2>3. ASSUME NEW i \in DOMAIN port', port'[i].prompt = q, port'[i].kind = "done"
        PROVE  /\ prompt'[q].pc = "done" /\ shown'[q].outcome = "none"
               /\ deltas'[port'[i].id] = FinalText(q)'
               /\ \A j \in DOMAIN port' : port'[j].prompt = q => j <= i
    <3>1. CASE i \in DOMAIN port
      <4>1. /\ prompt[q].pc = "done" /\ shown[q].outcome = "none"
            /\ deltas[port[i].id] = FinalText(q)
            /\ \A j \in DOMAIN port : port[j].prompt = q => j <= i
        BY <2>1, <2>3, <3>1 DEF CompletesLast
      <4>2. q # p
        BY <1>3, <4>1
      <4> QED
        BY <1>1, <1>3, <2>1, <2>2, <3>1, <4>1, <4>2
    <3>2. CASE i \notin DOMAIN port
      <4>1. p = q /\ kinds[i - m] = "done" /\ i - m \in 1..n
        BY <2>1, <2>3, <3>2
      <4>2. Len(texts) = 1 /\ prompt'[q].pc = "done" /\ texts[1] = FinalText(q)'
        BY <1>3, <2>1, <4>1
      <4>3. i - m = 1 /\ i = m + 1 /\ n = 1
        BY <2>1, <4>1, <4>2
      <4>4. deltas'[port'[i].id] = FinalText(q)'
        BY <2>1, <3>2, <4>2, <4>3
      <4>5. shown'[q].outcome = "none"
        BY <1>3, <4>1 DEF CompletesLast
      <4>6. \A j \in DOMAIN port' : j <= i
        BY <2>1, <4>3
      <4> QED
        BY <4>2, <4>4, <4>5, <4>6
    <3> QED
      BY <3>1, <3>2
  <2>4. ASSUME shown'[q].outcome # "none"
        PROVE  /\ prompt'[q].pc = "done"
               /\ shown'[q].outcome = prompt'[q].outcome
               /\ shown'[q].reply = FinalText(q)'
               /\ \A j \in DOMAIN port' : port'[j].prompt # q
    <3>1. /\ prompt[q].pc = "done" /\ shown[q].outcome = prompt[q].outcome
          /\ shown[q].reply = FinalText(q)
          /\ \A j \in DOMAIN port : port[j].prompt # q
      BY <1>3, <2>4 DEF CompletesLast
    <3>2. q # p
      BY <1>3, <3>1
    <3> QED
      BY <1>1, <1>3, <2>1, <2>2, <3>1, <3>2
  <2> QED
    BY <2>3, <2>4 DEF CompletesLast
<1>4. ASSUME NEW p \in Prompts, Streamed(p) PROVE CompletesLast(q)'
  <2>1. PICK texts, kinds :
           texts \in Seq(Text) /\ (\A k \in DOMAIN texts : kinds[k] \in {"answer", "thinking"}) /\ Post(p, kinds, texts)
    BY <1>4 DEF Streamed
  <2>2. DOMAIN texts = 1..Len(texts)
    BY LenProperties
  <2> QED
    BY <1>3, <1>4, <2>1, <2>2 DEF Streamed, Kinds
<1>5. ASSUME NEW p \in Prompts, PromptDone(p) PROVE CompletesLast(q)'
  <2>1. PICK texts, kinds :
            /\ texts \in Seq(Text)
            /\ Len(texts) = 1 /\ DOMAIN texts = {1} /\ kinds[1] = "done"
            /\ texts[1] = IF prompt[p].outcome = "error" THEN <<>> ELSE prompt[p].response
            /\ Post(p, kinds, texts)
    BY <1>5, DonePost
  <2>2. /\ prompt[p].pc = "released" /\ prompt'[p].pc = "done" /\ shown' = shown
        /\ prompt'[p].outcome = prompt[p].outcome /\ prompt'[p].response = prompt[p].response
    BY <1>5, DonePost
  <2>3. p = q => texts[1] = FinalText(q)'
    BY <2>1, <2>2 DEF FinalText
  <2>4. (\A k \in DOMAIN texts : kinds[k] \in Kinds) /\ prompt[p].pc # "done"
    BY <2>1, <2>2 DEF Kinds
  <2>5. p = q => Len(texts) = 1 /\ prompt'[q].pc = "done" /\ texts[1] = FinalText(q)'
    BY <2>1, <2>2, <2>3
  <2> QED
    BY <1>3, <2>1, <2>2, <2>4, <2>5
<1>6. CASE HandlePost
  <2>1. PICK post \in PostType : post = Head(port) /\ post = port[1] /\ 1 \in DOMAIN port
    BY <1>0, <1>6, HandledTyped, HandledArrives
  <2>2. PICK m \in Nat :
           /\ DOMAIN port = 1..m /\ DOMAIN port' = 1..m - 1
           /\ \A i \in 1..m - 1 : port'[i] = port[i + 1]
           /\ \A id \in DOMAIN deltas' : deltas'[id] = deltas[id]
    BY <1>0, <1>6, PortShorter DEF PortTyped
  <2>3. \A i \in DOMAIN port' : i + 1 \in DOMAIN port /\ ~(i + 1 <= 1) /\ port'[i] = port[i + 1]
    BY <2>2
  <2>4. \A i \in DOMAIN port' : deltas'[port'[i].id] = deltas[port[i + 1].id]
    <3>1. DeltasAwaited'
      BY <1>0, <1>6, HandledAwaited
    <3> QED
      BY <2>2, <2>3, <3>1 DEF DeltasAwaited
  <2>5. post.id \in DOMAIN deltas /\ prompt' = prompt
    BY <1>6, <2>1 DEF DeltasAwaited, HandlePost, goVars
  <2>6. PICK text : text = deltas[post.id]
    BY Zenon
  <2>7. shown' = CASE post.kind = "answer" -> [shown EXCEPT ![post.prompt].text = @ \o text]
                   [] post.kind = "thinking" -> [shown EXCEPT ![post.prompt].thought = @ \o text]
                   [] post.kind = "done" ->
                        [shown EXCEPT ![post.prompt].reply = text,
                                      ![post.prompt].outcome = prompt[post.prompt].outcome]
    BY <1>6, <2>1, <2>5, <2>6 DEF HandlePost
  <2>8. post.prompt \in Prompts /\ post.kind \in Kinds
    BY <2>1 DEF PostType
  <2>9. FinalText(q)' = FinalText(q)
    BY <2>5 DEF FinalText
  <2>10. CASE post.kind = "done" /\ post.prompt = q
    <3>1. /\ prompt[q].pc = "done" /\ deltas[post.id] = FinalText(q)
          /\ \A j \in DOMAIN port : port[j].prompt = q => j <= 1
      BY <2>1, <2>10 DEF CompletesLast
    <3>2. PICK o : o = prompt[q].outcome
      OBVIOUS
    <3>3. shown' = [shown EXCEPT ![q].reply = text, ![q].outcome = o]
      BY <2>7, <2>10, <3>2
    <3>4. shown'[q].reply = text /\ shown'[q].outcome = o
      BY <1>0, <3>3 DEF ShownType
    <3>5. \A j \in DOMAIN port' : port'[j].prompt # q
      BY <2>3, <3>1
    <3> QED
      BY <2>5, <2>6, <2>9, <3>1, <3>2, <3>4, <3>5 DEF CompletesLast
  <2>11. CASE ~(post.kind = "done" /\ post.prompt = q)
    <3>1. shown'[q].reply = shown[q].reply /\ shown'[q].outcome = shown[q].outcome
      <4>1. CASE post.kind = "answer"
        <5>1. PICK new : new = shown[post.prompt].text \o text
          OBVIOUS
        <5>2. shown' = [shown EXCEPT ![post.prompt].text = new]
          BY <1>0, <2>7, <2>8, <4>1, <5>1 DEF ShownType
        <5> QED
          BY <1>0, <2>8, <5>2 DEF ShownType
      <4>2. CASE post.kind = "thinking"
        <5>1. PICK new : new = shown[post.prompt].thought \o text
          OBVIOUS
        <5>2. shown' = [shown EXCEPT ![post.prompt].thought = new]
          BY <1>0, <2>7, <2>8, <4>2, <5>1 DEF ShownType
        <5> QED
          BY <1>0, <2>8, <5>2 DEF ShownType
      <4>3. CASE post.kind = "done"
        <5>1. PICK o : o = prompt[post.prompt].outcome
          OBVIOUS
        <5>2. shown' = [shown EXCEPT ![post.prompt].reply = text, ![post.prompt].outcome = o]
          BY <2>7, <4>3, <5>1
        <5> QED
          BY <1>0, <2>8, <2>11, <4>3, <5>2
      <4> QED
        BY <2>8, <4>1, <4>2, <4>3 DEF Kinds
    <3>2. ASSUME NEW i \in DOMAIN port', port'[i].prompt = q, port'[i].kind = "done"
          PROVE  /\ prompt'[q].pc = "done" /\ shown'[q].outcome = "none"
                 /\ deltas'[port'[i].id] = FinalText(q)'
                 /\ \A j \in DOMAIN port' : port'[j].prompt = q => j <= i
      <4>1. PICK k \in DOMAIN port : k = i + 1 /\ port[k] = port'[i]
        BY <2>3
      <4>2. /\ prompt[q].pc = "done" /\ shown[q].outcome = "none"
            /\ deltas[port[k].id] = FinalText(q)
            /\ \A j \in DOMAIN port : port[j].prompt = q => j <= k
        BY <3>2, <4>1 DEF CompletesLast
      <4>3. \A j \in DOMAIN port' : port'[j].prompt = q => j + 1 <= i + 1
        BY <2>3, <4>1, <4>2
      <4>4. \A j \in DOMAIN port' : port'[j].prompt = q => j <= i
        BY <2>2, <4>3
      <4> QED
        BY <2>4, <2>5, <2>9, <3>1, <4>1, <4>2, <4>4
    <3> QED
      BY <2>3, <2>5, <2>9, <3>1, <3>2 DEF CompletesLast
  <2> QED
    BY <2>10, <2>11
<1> QED
  BY <1>2, <1>4, <1>5, <1>6, ReplySteps
-----------------------------------------------------------------------------
(* The answer is stored before the goroutine reports how the prompt ended. *)
StoredFirst(p) ==
    /\ prompt[p].outcome = "none" <=> prompt[p].pc \in {"idle", "begun", "streaming"}
    /\ prompt[p].outcome = "ok" => stored[p] = <<prompt[p].response>>
    /\ prompt[p].outcome = "cancelled" =>
          stored[p] = <<prompt[p].response>> \/ prompt[p].response = <<>>

LEMMA StoredFirstStep ==
  ASSUME TypeOK, [Next]_streamVars, NEW q \in Prompts, StoredFirst(q)
  PROVE  StoredFirst(q)'
<1>0. /\ prompt \in [Prompts -> PromptType] /\ stored \in [Prompts -> Seq(Text)]
      /\ \A p \in Prompts : prompt[p] \in PromptType
  BY TypeIs
<1>1. ASSUME stored' = stored, prompt'[q].pc = prompt[q].pc,
             prompt'[q].outcome = prompt[q].outcome, prompt'[q].response = prompt[q].response
      PROVE  StoredFirst(q)'
  BY <1>1 DEF StoredFirst
<1>2. ASSUME NEW p \in Prompts, q # p, \E new : prompt' = [prompt EXCEPT ![p] = new],
             stored' = stored \/ SaveReply(p)
      PROVE  StoredFirst(q)'
  <2>1. prompt'[q] = prompt[q] /\ stored'[q] = stored[q]
    BY <1>0, <1>2 DEF SaveReply
  <2> QED
    BY <2>1 DEF StoredFirst
<1>3. CASE UNCHANGED streamVars
  <2>1. stored' = stored /\ prompt' = prompt
    BY <1>3, Zenon DEF streamVars
  <2> QED
    BY <1>1, <2>1, Zenon
<1>4. CASE LeaveChat \/ HandlePost
  BY <1>1, <1>4 DEF LeaveChat, HandlePost, goVars
<1>5. CASE CancelPrompt
  BY <1>0, <1>1, <1>5 DEF CancelPrompt, PromptType
<1>6. ASSUME NEW p \in Prompts, Send(p) PROVE StoredFirst(q)'
  <2>1. CASE q = p
    BY <1>0, <1>6, <2>1 DEF Send, StoredFirst, PromptType
  <2> QED
    BY <1>2, <1>6, <2>1 DEF Send
<1>7. ASSUME NEW p \in Prompts, PromptRefused(p) PROVE StoredFirst(q)'
  <2>1. CASE q = p
    <3>1. prompt'[q].pc = "released" /\ prompt'[q].outcome = "error"
      BY <1>0, <1>7, <2>1 DEF PromptRefused, PromptType
    <3> QED
      BY <3>1 DEF StoredFirst
  <2> QED
    <3>1. (\E new : prompt' = [prompt EXCEPT ![p] = new]) /\ stored' = stored
      BY <1>7 DEF PromptRefused
    <3> QED
      BY <1>2, <2>1, <3>1
<1>8. ASSUME NEW p \in Prompts, RegisterCancel(p) PROVE StoredFirst(q)'
  <2>1. CASE q = p
    BY <1>0, <1>8, <2>1 DEF RegisterCancel, StoredFirst, PromptType
  <2> QED
    BY <1>2, <1>8, <2>1 DEF RegisterCancel
<1>9. ASSUME NEW p \in Prompts, PromptSucceeds(p) PROVE StoredFirst(q)'
  <2>1. CASE q = p
    BY <1>0, <1>9, <2>1 DEF PromptSucceeds, SaveReply, StoredFirst, PromptType
  <2> QED
    BY <1>2, <1>9, <2>1 DEF PromptSucceeds
<1>10. ASSUME NEW p \in Prompts, PromptFails(p) PROVE StoredFirst(q)'
  <2>1. CASE q = p
    <3>1. PICK o \in {"cancelled", "error"} :
             /\ prompt' = [prompt EXCEPT ![p].pc = "returned", ![p].outcome = o]
             /\ o = "cancelled" <=> prompt[p].cancelled
      BY <1>10 DEF PromptFails
    <3>2. /\ prompt'[q].pc = "returned" /\ prompt'[q].outcome = o
          /\ prompt'[q].response = prompt[q].response
      BY <1>0, <2>1, <3>1 DEF PromptType
    <3>3. o = "cancelled" => stored'[q] = <<prompt[q].response>> \/ prompt[q].response = <<>>
      BY <1>0, <1>10, <2>1, <3>1 DEF PromptFails, SaveReply
    <3> QED
      BY <3>2, <3>3 DEF StoredFirst
  <2>2. stored' = stored \/ SaveReply(p)
    BY <1>10 DEF PromptFails
  <2>3. \E new : prompt' = [prompt EXCEPT ![p] = new]
    BY <1>10 DEF PromptFails
  <2> QED
    BY <1>2, <2>1, <2>2, <2>3
<1>11. ASSUME NEW p \in Prompts, ReleaseCancel(p) \/ PromptDone(p) PROVE StoredFirst(q)'
  <2>1. prompt[p].pc \in {"returned", "released"} /\ stored' = stored
    BY <1>11 DEF ReleaseCancel, PromptDone
  <2>2. \E new : prompt' = [prompt EXCEPT ![p] = new]
    BY <1>11 DEF ReleaseCancel, PromptDone
  <2>3. CASE q = p
    <3>1. /\ prompt'[q].pc \in {"released", "done"} /\ prompt'[q].outcome = prompt[q].outcome
          /\ prompt'[q].response = prompt[q].response
      BY <1>0, <1>11, <2>3 DEF ReleaseCancel, PromptDone, PromptType
    <3> QED
      BY <2>1, <2>3, <3>1 DEF StoredFirst
  <2> QED
    BY <1>2, <2>1, <2>2, <2>3
<1>12. ASSUME NEW p \in Prompts, Streams(p) PROVE StoredFirst(q)'
  <2>1. PICK piece \in Provider[p] :
           IF piece.thinking THEN ReasoningChunk(p, piece.text) ELSE ContentChunk(p, piece.text)
    BY <1>12 DEF Streams
  <2>2. prompt[p].pc = "streaming" /\ stored' = stored
    BY <2>1 DEF ReasoningChunk, ContentChunk
  <2>3. \/ prompt' = prompt
        \/ \E inThink, held, new : prompt' = [prompt EXCEPT ![p].inThink = inThink, ![p].held = held,
                                                           ![p].response = new]
    <3>1. CASE ReasoningChunk(p, piece.text)
      BY <3>1 DEF ReasoningChunk
    <3>2. CASE ContentChunk(p, piece.text)
      <4>1. PICK scan : scan = Scan(prompt[p].inThink, prompt[p].held, piece.text)
        OBVIOUS
      <4>2. PICK new : new = prompt[p].response \o TextOf(scan.out, FALSE)
        OBVIOUS
      <4>3. prompt' = [prompt EXCEPT ![p].inThink = scan.inThink, ![p].held = scan.held,
                                     ![p].response = new]
        BY <1>0, <3>2, <4>1, <4>2 DEF ContentChunk, PromptType
      <4> QED
        BY <4>3
    <3> QED
      BY <2>1, <3>1, <3>2
  <2>4. /\ prompt'[q].pc = prompt[q].pc /\ prompt'[q].outcome = prompt[q].outcome
        /\ q # p => prompt'[q].response = prompt[q].response
    <3>1. CASE prompt' = prompt
      BY <3>1
    <3>2. ASSUME NEW inThink, NEW held, NEW new,
                 prompt' = [prompt EXCEPT ![p].inThink = inThink, ![p].held = held, ![p].response = new]
          PROVE  /\ prompt'[q].pc = prompt[q].pc /\ prompt'[q].outcome = prompt[q].outcome
                 /\ q # p => prompt'[q].response = prompt[q].response
      <4>1. q # p => prompt'[q] = prompt[q]
        BY <1>0, <3>2
      <4>2. q = p => prompt'[q] = [prompt[q] EXCEPT !.inThink = inThink, !.held = held, !.response = new]
        BY <1>0, <3>2
      <4> QED
        BY <1>0, <4>1, <4>2 DEF PromptType
    <3> QED
      BY <2>3, <3>1, <3>2
  <2>5. CASE q = p
    <3>1. prompt[q].outcome = "none" /\ prompt[q].pc = "streaming"
      BY <2>2, <2>5 DEF StoredFirst
    <3> QED
      BY <2>4, <3>1 DEF StoredFirst
  <2> QED
    BY <1>1, <2>2, <2>4, <2>5
<1> QED
  BY <1>3, <1>4, <1>5, <1>6, <1>7, <1>8, <1>9, <1>10, <1>11, <1>12 DEF Next

Replying == \A p \in Prompts : Gathered(p) /\ CompletesLast(p) /\ StoredFirst(p)

LEMMA ReplyingStep == TypeOK /\ DeltasAwaited /\ Replying /\ [Next]_streamVars => Replying'
<1> SUFFICES ASSUME TypeOK, DeltasAwaited, Replying, [Next]_streamVars, NEW q \in Prompts
             PROVE  Gathered(q)' /\ CompletesLast(q)' /\ StoredFirst(q)'
  BY DEF Replying
<1>1. Gathered(q)'
  BY GatheredStep DEF Replying
<1>2. CompletesLast(q)'
  BY CompletesLastStep DEF Replying
<1>3. StoredFirst(q)'
  BY StoredFirstStep DEF Replying
<1> QED
  BY <1>1, <1>2, <1>3

LEMMA InitReplying == Init => Replying
<1> SUFFICES ASSUME Init, NEW p \in Prompts PROVE Gathered(p) /\ CompletesLast(p) /\ StoredFirst(p)
  BY DEF Replying
<1>1. DOMAIN port = {} /\ shown[p] = Nothing
  BY DEF Init
<1>2. /\ prompt[p].pc = "idle" /\ prompt[p].outcome = "none" /\ prompt[p].response = <<>>
  BY DEF Init
<1>3. Gathered(p)
  <2>1. [i \in DOMAIN port |-> PartOf(p, port[i])] = <<>>
    BY <1>1
  <2>2. Arriving(p) = <<>>
    BY <2>1, FlattenEmpty DEF Arriving
  <2>3. shown[p].text = <<>> /\ <<>> \o <<>> = <<>>
    BY <1>1 DEF Nothing
  <2> QED
    BY <1>2, <2>2, <2>3 DEF Gathered
<1> QED
  BY <1>1, <1>2, <1>3 DEF CompletesLast, StoredFirst, Nothing

LEMMA RepliesShown == TypeOK /\ Replying => ShownIsReply
<1> SUFFICES ASSUME TypeOK, Replying, NEW p \in Prompts, shown[p].outcome \in {"ok", "cancelled"}
             PROVE  /\ shown[p].text = shown[p].reply
                    /\ \/ stored[p] = <<shown[p].reply>>
                       \/ shown[p].outcome = "cancelled" /\ shown[p].reply = <<>>
  BY DEF ShownIsReply
<1>1. Gathered(p) /\ CompletesLast(p) /\ StoredFirst(p)
  BY DEF Replying
<1>2. /\ shown[p].outcome = prompt[p].outcome /\ shown[p].reply = prompt[p].response
      /\ \A j \in DOMAIN port : port[j].prompt # p
  BY <1>1 DEF CompletesLast, FinalText
<1>3. Arriving(p) = <<>>
  <2>1. PICK n \in Nat : n = Len(port) /\ DOMAIN port = 1..n
    BY TypeIs, LenProperties DEF PortTyped
  <2>2. PICK s : s = [i \in 1..n |-> PartOf(p, port[i])]
    OBVIOUS
  <2>3. \A i \in 1..n : s[i] = <<>>
    BY <1>2, <2>1, <2>2 DEF PartOf
  <2>4. s \in Seq(Seq(Symbols)) /\ Len(s) = n
    <3>1. <<>> \in Seq(Symbols)
      BY EmptySeq
    <3>2. s \in [1..n -> Seq(Symbols)]
      BY <2>2, <2>3, <3>1
    <3> QED
      BY <2>2, <3>2
  <2> QED
    BY <2>1, <2>2, <2>3, <2>4, FlattenNothing DEF Arriving
<1>4. shown[p].text = prompt[p].response
  <2>1. PICK a \in Seq(Symbols) : a = shown[p].text
    BY TypeIs DEF ShownType, Text
  <2>2. a \o <<>> = a
    BY ConcatEmptySeq
  <2> QED
    BY <1>1, <1>3, <2>1, <2>2 DEF Gathered
<1> QED
  BY <1>1, <1>2, <1>4 DEF StoredFirst

(* When a prompt completes without an error, what its callbacks have       *)
(* gathered piece by piece is the reply of the result and the answer that  *)
(* was stored.                                                             *)
THEOREM RepliesAgree == Spec => []ShownIsReply
  BY InitReplying, ReplyingStep, RepliesShown, TypeCorrect, NoDeltaLost, PTL DEF Spec
-----------------------------------------------------------------------------
(* The parser and the text read as a whole.  A tag is looked at symbol by  *)
(* symbol.                                                                 *)
TagName(inThink) == IF inThink THEN "/think>" ELSE "think>"

TagEnds(text, n, inThink) == n > 1 /\ text[n - 1] = "<" /\ text[n] = TagName(inThink)

LEMMA TagHere ==
  ASSUME NEW text \in Text, NEW n \in 1..Len(text), n + 1 <= Len(text), NEW inThink \in BOOLEAN
  PROVE  SubSeq(text, n, n + 1) = Tag(inThink) <=> text[n] = "<" /\ text[n + 1] = TagName(inThink)
<1>1. Len(text) \in Nat /\ n \in Nat /\ n + 1 \in 1..Len(text) /\ (n + 1) - n + 1 = 2
  BY LenProperties DEF Text
<1>2. PICK s : s = SubSeq(text, n, n + 1)
  OBVIOUS
<1>3. s \in Seq(Symbols) /\ Len(s) = 2 /\ s[1] = text[n] /\ s[2] = text[n + 1]
  <2>1. \A i \in n..n + 1 : text[i] \in Symbols
    <3>1. \A i \in n..n + 1 : i \in 1..Len(text)
      BY <1>1
    <3> QED
      BY <3>1, ElementOfSeq DEF Text
  <2>2. /\ s \in Seq(Symbols) /\ Len(s) = 2
        /\ \A i \in 1..2 : s[i] = text[n + i - 1]
    <3>1. n \in Int /\ n + 1 \in Int /\ n <= n + 1
      BY <1>1
    <3>2. /\ s \in Seq(Symbols)
          /\ Len(s) = IF n <= n + 1 THEN (n + 1) - n + 1 ELSE 0
          /\ \A i \in 1..(n + 1) - n + 1 : s[i] = text[n + i - 1]
      BY <1>2, <2>1, <3>1, SubSeqProperties
    <3> QED
      BY <1>1, <3>1, <3>2
  <2>3. n + 1 - 1 = n /\ n + 2 - 1 = n + 1
    BY <1>1
  <2> QED
    BY <2>2, <2>3
<1>4. PICK a, b : a = "<" /\ b = TagName(inThink) /\ Tag(inThink) = <<a, b>>
  BY DEF Tag, TagName, OpenTag, CloseTag
<1>5. s = <<a, b>> <=> s[1] = a /\ s[2] = b
  <2>1. s = <<s[1], s[2]>>
    BY <1>3
  <2> QED
    BY <2>1
<1> QED
  BY <1>2, <1>3, <1>4, <1>5

LEMMA InsideIs ==
  ASSUME NEW text \in Text
  PROVE  /\ Inside(text) \in [0..Len(text) -> BOOLEAN]
         /\ Inside(text)[0] = FALSE
         /\ \A n \in 1..Len(text) :
               Inside(text)[n] = IF TagEnds(text, n, Inside(text)[n - 1])
                                 THEN ~Inside(text)[n - 1] ELSE Inside(text)[n - 1]
<1> DEFINE At(n, b) == n > 1 /\ SubSeq(text, n - 1, n) = Tag(b)
           N == Len(text)
           inside == CHOOSE f : f = [n \in 0..N |-> IF n = 0 THEN FALSE
                                                     ELSE IF At(n, f[n - 1]) THEN ~f[n - 1]
                                                     ELSE f[n - 1]]
<1>1. N \in Nat
  BY LenProperties DEF Text
<1>2. Inside(text) = inside
  BY DEF Inside
<1>3. ASSUME NEW n \in 1..N, NEW b \in BOOLEAN PROVE At(n, b) <=> TagEnds(text, n, b)
  <2>1. CASE n > 1
    <3>1. n - 1 \in 1..N /\ (n - 1) + 1 = n /\ (n - 1) + 1 <= N
      BY <1>1, <2>1
    <3>2. SubSeq(text, n - 1, (n - 1) + 1) = Tag(b) <=> text[n - 1] = "<" /\ text[(n - 1) + 1] = TagName(b)
      BY <3>1, TagHere
    <3> QED
      BY <2>1, <3>1, <3>2 DEF TagEnds
  <2> QED
    BY <2>1 DEF TagEnds
<1> HIDE DEF At, N
<1>4. \E f : f = [n \in 0..N |-> IF n = 0 THEN FALSE
                                  ELSE IF At(n, f[n - 1]) THEN ~f[n - 1] ELSE f[n - 1]]
  <2>1. PICK step \in [1..N -> [BOOLEAN -> BOOLEAN]] :
           \A n \in 1..N : \A b \in BOOLEAN : step[n][b] = IF At(n, b) THEN ~b ELSE b
    <3> DEFINE st == [n \in 1..N |-> [b \in BOOLEAN |-> IF At(n, b) THEN ~b ELSE b]]
    <3>1. st \in [1..N -> [BOOLEAN -> BOOLEAN]]
      OBVIOUS
    <3>2. \A n \in 1..N : \A b \in BOOLEAN : st[n][b] = IF At(n, b) THEN ~b ELSE b
      OBVIOUS
    <3> HIDE DEF st
    <3> QED
      BY <3>1, <3>2
  <2>2. PICK g \in [0..N -> BOOLEAN] : Follows(g, N, FALSE, step)
    BY <1>1, RecursionExists
  <2>3. ASSUME NEW n \in 0..N
        PROVE  g[n] = IF n = 0 THEN FALSE ELSE IF At(n, g[n - 1]) THEN ~g[n - 1] ELSE g[n - 1]
    <3>1. n # 0 => n \in 1..N /\ n - 1 \in 0..N
      BY <1>1
    <3>2. g[n] = IF n = 0 THEN FALSE ELSE step[n][g[n - 1]]
      BY <2>2 DEF Follows
    <3> QED
      BY <2>1, <3>1, <3>2
  <2>4. g = [n \in 0..N |-> IF n = 0 THEN FALSE ELSE IF At(n, g[n - 1]) THEN ~g[n - 1] ELSE g[n - 1]]
    BY <2>3
  <2> QED
    BY <2>4
<1>5. inside = [n \in 0..N |-> IF n = 0 THEN FALSE
                               ELSE IF At(n, inside[n - 1]) THEN ~inside[n - 1] ELSE inside[n - 1]]
  BY <1>4
<1> HIDE DEF inside
<1>6. \A n \in 0..N : inside[n] = IF n = 0 THEN FALSE
                                  ELSE IF At(n, inside[n - 1]) THEN ~inside[n - 1] ELSE inside[n - 1]
  BY <1>5
<1>7. 0..N \subseteq {n \in 0..N : inside[n] \in BOOLEAN}
  <2> DEFINE P == {n \in 0..N : inside[n] \in BOOLEAN}
  <2>1. 0 \in P
    <3>1. 0 \in 0..N
      BY <1>1
    <3>2. inside[0] = FALSE
      BY <1>6, <3>1, Zenon
    <3> QED
      BY <3>1, <3>2, Zenon
  <2>2. ASSUME NEW n \in 0..N, n # N, n \in P PROVE n + 1 \in P
    <3>1. PICK m : m = n + 1 /\ m \in 0..N /\ m # 0 /\ m - 1 = n
      <4>1. n + 1 \in 0..N /\ n + 1 # 0 /\ (n + 1) - 1 = n
        BY <1>1, <2>2
      <4> QED
        BY <4>1
    <3>2. inside[m] = IF At(m, inside[m - 1]) THEN ~inside[m - 1] ELSE inside[m - 1]
      BY <1>6, <3>1, Zenon
    <3>3. inside[m - 1] \in BOOLEAN
      BY <2>2, <3>1, Zenon
    <3>4. inside[m] \in BOOLEAN
      BY <3>2, <3>3, Zenon
    <3> QED
      BY <3>1, <3>4, Zenon
  <2> HIDE DEF P
  <2>3. 0..N \subseteq P
    BY <1>1, <2>1, <2>2, Induction
  <2> QED
    BY <2>3, Zenon DEF P
<1>8. inside \in [0..N -> BOOLEAN] /\ inside[0] = FALSE
  <2>1. 0 \in 0..N
    BY <1>1
  <2>2. inside[0] = FALSE
    BY <1>6, <2>1, Zenon
  <2>3. \A n \in 0..N : inside[n] \in BOOLEAN
    BY <1>7, Zenon
  <2>4. inside = [n \in 0..N |-> inside[n]]
    BY <1>5, <1>6, Zenon
  <2> QED
    BY <2>2, <2>3, <2>4, Zenon
<1>9. ASSUME NEW n \in 1..N
      PROVE  inside[n] = IF TagEnds(text, n, inside[n - 1]) THEN ~inside[n - 1] ELSE inside[n - 1]
  <2>1. n \in 0..N /\ n # 0 /\ n - 1 \in 0..N
    BY <1>1
  <2>2. inside[n - 1] \in BOOLEAN
    BY <1>8, <2>1
  <2>3. inside[n] = IF At(n, inside[n - 1]) THEN ~inside[n - 1] ELSE inside[n - 1]
    BY <1>6, <2>1
  <2> QED
    BY <1>3, <2>2, <2>3
<1>10. N = Len(text)
  BY DEF N
<1> QED
  BY <1>2, <1>8, <1>9, <1>10
(* While no tag ends, the parser stays inside or outside.                  *)
StaysInside(text, j, m, b) == \A n \in j..m : Inside(text)[n] = b

LEMMA NoTagEnds ==
  ASSUME NEW text \in Text, NEW j \in 0..Len(text), NEW m \in j..Len(text), NEW b \in BOOLEAN,
         Inside(text)[j] = b, \A n \in j + 1..m : ~TagEnds(text, n, b)
  PROVE  StaysInside(text, j, m, b)
<1>1. PICK N \in Nat : N = Len(text)
  BY LenProperties DEF Text
<1>2. PICK inside : inside = Inside(text)
  OBVIOUS
<1> DEFINE P == {n \in 0..N : n \in j..m => inside[n] = b}
<1>3. 0 \in P
  <2>1. 0 \in 0..N /\ (0 \in j..m => j = 0)
    BY <1>1
  <2> QED
    BY <1>2, <2>1, Zenon
<1>4. ASSUME NEW n \in 0..N, n # N, n \in P PROVE n + 1 \in P
  <2>1. PICK k : k = n + 1 /\ k \in 1..N /\ k \in 0..N /\ k - 1 = n
    <3>1. n + 1 \in 1..N /\ n + 1 \in 0..N /\ (n + 1) - 1 = n
      BY <1>1, <1>4
    <3> QED
      BY <3>1
  <2>2. k \in j..m => k = j \/ (k \in j + 1..m /\ n \in j..m)
    BY <1>1, <2>1
  <2>3. inside[k] = IF TagEnds(text, k, inside[k - 1]) THEN ~inside[k - 1] ELSE inside[k - 1]
    BY <1>1, <1>2, <2>1, InsideIs, Zenon
  <2>4. k \in j + 1..m /\ n \in j..m => inside[k] = b
    <3>1. n \in j..m => inside[n] = b
      BY <1>4, Zenon
    <3> QED
      BY <2>1, <2>3, <3>1, Zenon
  <2>5. k \in j..m => inside[k] = b
    BY <1>2, <2>2, <2>4, Zenon
  <2>6. k \in P
    BY <2>1, <2>5, Zenon
  <2> QED
    BY <2>1, <2>6, Zenon
<1>5. 0..N \subseteq P
  <2> HIDE DEF P
  <2> QED
    BY <1>1, <1>3, <1>4, Induction
<1>6. \A n \in j..m : n \in 0..N
  BY <1>1
<1> QED
  BY <1>2, <1>5, <1>6, Zenon DEF StaysInside

(* What comes later does not change where the tags before it are.          *)
LEMMA InsidePrefix ==
  ASSUME NEW old \in Text, NEW x \in Text
  PROVE  \A n \in 0..Len(old) : Inside(old \o x)[n] = Inside(old)[n]
<1>1. PICK N \in Nat : N = Len(old)
  BY LenProperties DEF Text
<1>2. PICK text \in Text : /\ text = old \o x /\ Len(text) = N + Len(x)
                           /\ \A n \in 1..N : text[n] = old[n]
  <2>1. /\ old \o x \in Text /\ Len(old \o x) = N + Len(x) /\ Len(x) \in Nat
        /\ \A n \in 1..N + Len(x) : (old \o x)[n] = IF n <= N THEN old[n] ELSE x[n - N]
    BY <1>1, ConcatProperties, LenProperties DEF Text
  <2>2. \A n \in 1..N : n \in 1..N + Len(x) /\ n <= N
    BY <1>1, <2>1
  <2> QED
    BY <2>1, <2>2
<1>3. \A n \in 1..N : n \in 1..Len(text)
  BY <1>1, <1>2, LenProperties DEF Text
<1>4. PICK f, g : f = Inside(text) /\ g = Inside(old)
  OBVIOUS
<1> DEFINE P == {n \in 0..N : f[n] = g[n]}
<1>5. 0 \in P
  <2>1. f[0] = FALSE /\ g[0] = FALSE
    BY <1>4, InsideIs, Zenon
  <2>2. 0 \in 0..N
    BY <1>1
  <2> QED
    BY <2>1, <2>2, Zenon
<1>6. ASSUME NEW n \in 0..N, n # N, n \in P PROVE n + 1 \in P
  <2>1. PICK k : k = n + 1 /\ k \in 1..N /\ k \in 0..N /\ k - 1 = n /\ (k > 1 => k - 1 \in 1..N)
    <3>1. n + 1 \in 1..N /\ n + 1 \in 0..N /\ (n + 1) - 1 = n /\ (n + 1 > 1 => (n + 1) - 1 \in 1..N)
      BY <1>1, <1>6
    <3> QED
      BY <3>1
  <2>2. f[k] = IF TagEnds(text, k, f[k - 1]) THEN ~f[k - 1] ELSE f[k - 1]
    BY <1>3, <1>4, <2>1, InsideIs, Zenon
  <2>3. g[k] = IF TagEnds(old, k, g[k - 1]) THEN ~g[k - 1] ELSE g[k - 1]
    BY <1>1, <1>4, <2>1, InsideIs, Zenon
  <2>4. f[k - 1] = g[k - 1]
    BY <1>6, <2>1, Zenon
  <2>5. \A b : TagEnds(text, k, b) <=> TagEnds(old, k, b)
    BY <1>2, <2>1, Zenon DEF TagEnds
  <2>6. f[k] = g[k]
    BY <2>2, <2>3, <2>4, <2>5, Zenon
  <2> QED
    BY <2>1, <2>6, Zenon
<1>7. 0..N \subseteq P
  <2> HIDE DEF P
  <2> QED
    BY <1>1, <1>5, <1>6, Induction
<1> QED
  BY <1>1, <1>2, <1>4, <1>7, Zenon

(* The symbols of the answer, and the answer so far.                       *)
LEMMA AnswerIs ==
  ASSUME NEW text \in Text, NEW n \in 1..Len(text)
  PROVE  AnswerAt(text, n) <=>
            /\ ~Inside(text)[n - 1] /\ ~Inside(text)[n]
            /\ n < Len(text) => ~(text[n] = "<" /\ text[n + 1] = "think>")
<1>1. n < Len(text) => n + 1 <= Len(text)
  BY LenProperties DEF Text
<1>2. n < Len(text) => (SubSeq(text, n, n + 1) = Tag(FALSE) <=> text[n] = "<" /\ text[n + 1] = TagName(FALSE))
  BY <1>1, TagHere
<1>3. Tag(FALSE) = OpenTag /\ TagName(FALSE) = "think>"
  BY DEF Tag, TagName
<1> QED
  BY <1>2, <1>3, Zenon DEF AnswerAt

Before(text, n) == FlattenSeq([i \in 1..n |-> PartAt(text, i)])

LEMMA BeforeIs ==
  ASSUME NEW text \in Text
  PROVE  /\ Answer(text) = Before(text, Len(text))
         /\ Before(text, 0) = <<>>
         /\ \A n \in 0..Len(text) : Before(text, n) \in Seq(Symbols)
         /\ \A n \in 1..Len(text) : /\ PartAt(text, n) \in Seq(Symbols)
                                    /\ Before(text, n) = Before(text, n - 1) \o PartAt(text, n)
<1>1. PICK N \in Nat : N = Len(text) /\ DOMAIN text = 1..N
  BY LenProperties DEF Text
<1>2. \A n \in 1..N : PartAt(text, n) \in Seq(Symbols)
  <2> TAKE n \in 1..N
  <2>1. text[n] \in Symbols
    BY <1>1, ElementOfSeq DEF Text
  <2>2. <<text[n]>> \in Seq(Symbols) /\ <<>> \in Seq(Symbols)
    BY <2>1, EmptySeq
  <2> QED
    BY <2>2 DEF PartAt
<1> DEFINE parts(n) == [i \in 1..n |-> PartAt(text, i)]
<1>3. \A n \in 0..N : parts(n) \in Seq(Seq(Symbols)) /\ Len(parts(n)) = n
  <2> TAKE n \in 0..N
  <2>1. n \in Nat /\ \A i \in 1..n : i \in 1..N
    BY <1>1
  <2>2. parts(n) \in [1..n -> Seq(Symbols)]
    BY <1>2, <2>1
  <2> QED
    BY <2>1, <2>2
<1>4. \A n \in 0..N : Before(text, n) \in Seq(Symbols)
  <2> TAKE n \in 0..N
  <2>1. PICK s \in Seq(Seq(Symbols)) : s = parts(n)
    BY <1>3
  <2> QED
    BY <2>1, FlattenType DEF Before
<1>5. Before(text, 0) = <<>>
  <2>1. parts(0) = <<>>
    OBVIOUS
  <2> QED
    BY <2>1, FlattenEmpty DEF Before
<1>6. ASSUME NEW n \in 1..N PROVE Before(text, n) = Before(text, n - 1) \o PartAt(text, n)
  <2>1. n - 1 \in 0..N /\ n \in 0..N /\ (n - 1) + 1 = n
    BY <1>1
  <2>2. PICK s \in Seq(Seq(Symbols)) : s = parts(n - 1) /\ Len(s) = n - 1
    BY <1>3, <2>1
  <2>3. PICK t \in Seq(Seq(Symbols)) : t = parts(n) /\ Len(t) = n
    BY <1>3, <2>1
  <2>4. PICK x \in Seq(Symbols) : x = PartAt(text, n)
    BY <1>2
  <2>5. t = Append(s, x)
    <3>1. /\ Append(s, x) \in Seq(Seq(Symbols)) /\ Len(Append(s, x)) = n
          /\ \A i \in 1..n - 1 : Append(s, x)[i] = s[i]
          /\ Append(s, x)[n] = x
      BY <2>1, <2>2
    <3>2. \A i \in 1..n : i \in 1..n - 1 \/ i = n
      BY <2>1
    <3>3. \A i \in 1..n - 1 : s[i] = PartAt(text, i)
      BY <2>2
    <3>4. \A i \in 1..n : t[i] = PartAt(text, i)
      BY <2>3
    <3>5. \A i \in 1..n : t[i] = Append(s, x)[i]
      BY <2>4, <3>1, <3>2, <3>3, <3>4
    <3> QED
      BY <2>3, <3>1, <3>5, SeqEqual
  <2>6. FlattenSeq(Append(s, x)) = FlattenSeq(s) \o x
    BY FlattenAppend
  <2> QED
    BY <2>2, <2>3, <2>4, <2>5, <2>6 DEF Before
<1>7. Answer(text) = Before(text, N)
  BY <1>1 DEF Answer, Before
<1> QED
  BY <1>1, <1>2, <1>4, <1>5, <1>6, <1>7

(* The answer over a stretch of thought, or of a tag, and of plain text.   *)
LEMMA BeforeQuiet ==
  ASSUME NEW text \in Text, NEW j \in 0..Len(text), NEW m \in j..Len(text),
         \A n \in j + 1..m : ~AnswerAt(text, n)
  PROVE  Before(text, m) = Before(text, j)
<1>1. PICK N \in Nat : N = Len(text)
  BY LenProperties DEF Text
<1> DEFINE P == {n \in 0..N : n \in j..m => Before(text, n) = Before(text, j)}
<1>2. 0 \in P
  BY <1>1
<1>3. ASSUME NEW n \in 0..N, n # N, n \in P PROVE n + 1 \in P
  <2>1. PICK k : k = n + 1 /\ k \in 1..N /\ k \in 0..N /\ k - 1 = n
    <3>1. n + 1 \in 1..N /\ n + 1 \in 0..N /\ (n + 1) - 1 = n
      BY <1>1, <1>3
    <3> QED
      BY <3>1
  <2>2. k \in j..m => k = j \/ (k \in j + 1..m /\ n \in j..m)
    BY <1>1, <2>1
  <2>3. Before(text, k) = Before(text, n) \o PartAt(text, k) /\ Before(text, n) \in Seq(Symbols)
    BY <1>1, <2>1, BeforeIs
  <2>4. k \in j + 1..m => PartAt(text, k) = <<>>
    BY DEF PartAt
  <2>5. k \in j + 1..m => Before(text, k) = Before(text, n)
    <3>1. PICK a \in Seq(Symbols) : a = Before(text, n)
      BY <2>3
    <3>2. a \o <<>> = a
      BY ConcatEmptySeq
    <3> QED
      BY <2>3, <2>4, <3>1, <3>2
  <2> QED
    BY <1>3, <2>1, <2>2, <2>5
<1>4. 0..N \subseteq P
  <2> HIDE DEF P
  <2> QED
    BY <1>1, <1>2, <1>3, Induction
<1>5. m \in 0..N /\ m \in j..m
  BY <1>1
<1> QED
  BY <1>4, <1>5

LEMMA BeforeTaken ==
  ASSUME NEW text \in Text, NEW j \in 0..Len(text), NEW m \in j..Len(text),
         \A n \in j + 1..m : AnswerAt(text, n)
  PROVE  Before(text, m) = Before(text, j) \o SubSeq(text, j + 1, m)
<1>1. PICK N \in Nat : N = Len(text)
  BY LenProperties DEF Text
<1>2. PICK a \in Seq(Symbols) : a = Before(text, j)
  BY BeforeIs
<1>3. \A n \in 1..N : text[n] \in Symbols
  BY <1>1, ElementOfSeq DEF Text
<1> DEFINE P == {n \in 0..N : n \in j..m => Before(text, n) = a \o SubSeq(text, j + 1, n)}
<1>4. a \o SubSeq(text, j + 1, j) = a
  <2>1. SubSeq(text, j + 1, j) = <<>>
    BY <1>1, SubSeqEmpty
  <2> QED
    BY <2>1, ConcatEmptySeq
<1>5. 0 \in P
  <2>1. 0 \in 0..N /\ (0 \in j..m => j = 0)
    BY <1>1
  <2> QED
    BY <1>2, <1>4, <2>1
<1>6. ASSUME NEW n \in 0..N, n # N, n \in P PROVE n + 1 \in P
  <2>1. PICK k : k = n + 1 /\ k \in 1..N /\ k \in 0..N /\ k - 1 = n
    <3>1. n + 1 \in 1..N /\ n + 1 \in 0..N /\ (n + 1) - 1 = n
      BY <1>1, <1>6
    <3> QED
      BY <3>1
  <2>2. k \in j..m => k = j \/ (k \in j + 1..m /\ n \in j..m)
    BY <1>1, <2>1
  <2>3. Before(text, k) = Before(text, n) \o PartAt(text, k)
    BY <1>1, <2>1, BeforeIs
  <2>4. k \in j + 1..m => PartAt(text, k) = <<text[k]>>
    BY DEF PartAt
  <2>5. ASSUME k \in j + 1..m, n \in j..m PROVE Before(text, k) = a \o SubSeq(text, j + 1, k)
    <3>1. PICK x \in Symbols : x = text[k]
      BY <1>3, <2>1
    <3>2. PICK s : s = SubSeq(text, j + 1, n)
      OBVIOUS
    <3>3. j + 1 \in 1..N /\ k \in j + 1..N /\ n \in Int /\ \A i \in j + 1..n : i \in 1..N
      BY <1>1, <2>1, <2>5
    <3>4. s \in Seq(Symbols)
      <4>1. \A i \in j + 1..n : text[i] \in Symbols
        BY <1>3, <3>3
      <4> QED
        BY <3>2, <3>3, <4>1, SubSeqProperties
    <3>5. SubSeq(text, j + 1, k) = s \o <<x>>
      BY <1>1, <2>1, <3>1, <3>2, <3>3, SubSeqRecursiveSecond DEF Text
    <3>6. Before(text, n) = a \o s
      BY <1>6, <2>5, <3>2
    <3>7. (a \o s) \o <<x>> = a \o (s \o <<x>>)
      <4>1. <<x>> \in Seq(Symbols)
        BY <3>1
      <4> QED
        BY <3>4, <4>1, TextAssoc, Zenon
    <3> QED
      BY <2>3, <2>4, <2>5, <3>1, <3>5, <3>6, <3>7
  <2>6. k = j => Before(text, k) = a \o SubSeq(text, j + 1, k)
    BY <1>2, <1>4
  <2> QED
    BY <2>1, <2>2, <2>5, <2>6
<1>7. 0..N \subseteq P
  <2> HIDE DEF P
  <2> QED
    BY <1>1, <1>5, <1>6, Induction
<1>8. m \in 0..N /\ m \in j..m
  BY <1>1
<1> QED
  BY <1>2, <1>7, <1>8

(* Parts of a text.                                                        *)
LEMMA PartOfText ==
  ASSUME NEW text \in Text, NEW i \in 1..Len(text) + 1, NEW m \in i - 1..Len(text)
  PROVE  /\ SubSeq(text, i, m) \in Text /\ Len(SubSeq(text, i, m)) = m - i + 1
         /\ \A k \in 1..m - i + 1 : SubSeq(text, i, m)[k] = text[i + k - 1]
<1>1. Len(text) \in Nat /\ i \in Int /\ m \in Int /\ \A k \in i..m : k \in 1..Len(text)
  BY LenProperties DEF Text
<1>2. \A k \in i..m : text[k] \in Symbols
  BY <1>1, ElementOfSeq DEF Text
<1>3. /\ SubSeq(text, i, m) \in Seq(Symbols)
      /\ Len(SubSeq(text, i, m)) = IF i <= m THEN m - i + 1 ELSE 0
      /\ \A k \in 1..m - i + 1 : SubSeq(text, i, m)[k] = text[i + k - 1]
  BY <1>1, <1>2, SubSeqProperties
<1>4. ~(i <= m) => m - i + 1 = 0
  BY <1>1
<1> QED
  BY <1>3, <1>4 DEF Text

LEMMA PartOfPart ==
  ASSUME NEW text \in Text, NEW j \in 0..Len(text), NEW rest, rest = SubSeq(text, j + 1, Len(text)),
         NEW i \in 1..Len(text) - j + 1, NEW m \in i - 1..Len(text) - j
  PROVE  SubSeq(rest, i, m) = SubSeq(text, j + i, j + m)
<1>1. PICK N \in Nat : N = Len(text)
  BY LenProperties DEF Text
<1>2. j + 1 \in 1..N + 1 /\ N \in (j + 1) - 1..N /\ N - (j + 1) + 1 = N - j
  BY <1>1
<1>3. rest \in Text /\ Len(rest) = N - j /\ \A k \in 1..N - j : rest[k] = text[(j + 1) + k - 1]
  BY <1>1, <1>2, PartOfText
<1>4. PICK a : a = SubSeq(rest, i, m)
  OBVIOUS
<1>5. PICK b : b = SubSeq(text, j + i, j + m)
  OBVIOUS
<1>6. a \in Text /\ Len(a) = m - i + 1 /\ \A k \in 1..m - i + 1 : a[k] = rest[i + k - 1]
  <2>1. i \in 1..Len(rest) + 1 /\ m \in i - 1..Len(rest)
    BY <1>1, <1>3
  <2> QED
    BY <1>3, <1>4, <2>1, PartOfText
<1>7. b \in Text /\ Len(b) = m - i + 1 /\ \A k \in 1..m - i + 1 : b[k] = text[(j + i) + k - 1]
  <2>1. j + i \in 1..N + 1 /\ j + m \in (j + i) - 1..N /\ (j + m) - (j + i) + 1 = m - i + 1
    BY <1>1
  <2> QED
    BY <1>1, <1>5, <2>1, PartOfText
<1>8. ASSUME NEW k \in 1..m - i + 1 PROVE a[k] = b[k]
  <2>1. i + k - 1 \in 1..N - j /\ (j + 1) + (i + k - 1) - 1 = (j + i) + k - 1
    BY <1>1
  <2>2. a[k] = rest[i + k - 1]
    BY <1>6
  <2>3. rest[i + k - 1] = text[(j + i) + k - 1]
    BY <1>3, <2>1
  <2> QED
    BY <1>7, <2>2, <2>3
<1>9. a = b
  <2>1. Len(a) = Len(b) /\ \A k \in 1..Len(a) : a[k] = b[k]
    BY <1>6, <1>7, <1>8
  <2> QED
    BY <1>6, <1>7, <2>1, SeqEqual DEF Text
<1> QED
  BY <1>4, <1>5, <1>9

(* A stretch without a tag, and without one that begins in it.             *)
PlainUpTo(text, j, m, b) ==
    /\ \A n \in j..m : Inside(text)[n] = b
    /\ Before(text, m) = Before(text, j) \o (IF b THEN <<>> ELSE SubSeq(text, j + 1, m))

LEMMA Stretch ==
  ASSUME NEW text \in Text, NEW j \in 0..Len(text), NEW m \in j..Len(text), NEW b \in BOOLEAN,
         Inside(text)[j] = b,
         \A n \in j + 1..m + 1 : n <= Len(text) => ~TagEnds(text, n, b)
  PROVE  PlainUpTo(text, j, m, b)
<1>1. PICK N \in Nat : N = Len(text)
  BY LenProperties DEF Text
<1>2. \A n \in j..m : Inside(text)[n] = b
  <2>1. \A n \in j + 1..m : n \in j + 1..m + 1 /\ n <= Len(text)
    BY <1>1
  <2>2. StaysInside(text, j, m, b)
    BY <2>1, NoTagEnds, Zenon
  <2> QED
    BY <2>2, Zenon DEF StaysInside
<1>3. ASSUME NEW n \in j + 1..m PROVE Inside(text)[n - 1] = b /\ Inside(text)[n] = b
  <2>1. n \in j..m /\ n - 1 \in j..m
    BY <1>1
  <2> QED
    BY <1>2, <2>1, Zenon
<1>4. CASE b
  <2>1. ASSUME NEW n \in j + 1..m PROVE ~AnswerAt(text, n)
    BY <1>3, <1>4, Zenon DEF AnswerAt
  <2>2. Before(text, m) = Before(text, j)
    BY <2>1, BeforeQuiet
  <2>3. PICK a \in Seq(Symbols) : a = Before(text, j)
    BY BeforeIs
  <2>4. a \o <<>> = a
    BY ConcatEmptySeq
  <2> QED
    BY <1>2, <1>4, <2>2, <2>3, <2>4, Zenon DEF PlainUpTo
<1>5. CASE ~b
  <2>1. ASSUME NEW n \in j + 1..m PROVE AnswerAt(text, n)
    <3>1. n \in 1..Len(text)
      BY <1>1
    <3>2. n < Len(text) => n + 1 \in j + 1..m + 1 /\ n + 1 <= Len(text) /\ n + 1 > 1 /\ (n + 1) - 1 = n
      BY <1>1
    <3>3. n < Len(text) => ~TagEnds(text, n + 1, FALSE)
      <4>1. b = FALSE
        BY <1>5, Zenon
      <4> QED
        BY <3>2, <4>1, Zenon
    <3>4. n < Len(text) => ~(text[n] = "<" /\ text[n + 1] = "think>")
      <4>1. TagName(FALSE) = "think>"
        BY DEF TagName
      <4>2. TagEnds(text, n + 1, FALSE) <=> n + 1 > 1 /\ text[(n + 1) - 1] = "<" /\ text[n + 1] = TagName(FALSE)
        BY Zenon DEF TagEnds
      <4>3. n < Len(text) => text[(n + 1) - 1] = text[n]
        BY <3>2
      <4> QED
        BY <3>2, <3>3, <4>1, <4>2, <4>3, Zenon
    <3> QED
      BY <1>3, <1>5, <3>1, <3>4, AnswerIs, Zenon
  <2>2. Before(text, m) = Before(text, j) \o SubSeq(text, j + 1, m)
    BY <2>1, BeforeTaken
  <2> QED
    BY <1>2, <1>5, <2>2, Zenon DEF PlainUpTo
<1> QED
  BY <1>4, <1>5, Zenon

(* The text of a list of pieces that grows.                                *)
LEMMA PieceIs ==
  ASSUME NEW b \in BOOLEAN, NEW text \in Text
  PROVE  /\ Piece(b, text) \in PieceType
         /\ Piece(b, text).thinking = b /\ Piece(b, text).text = text
<1>1. Piece(b, text) = [thinking |-> b, text |-> text]
  BY DEF Piece
<1>2. Piece(b, text) \in PieceType
  BY <1>1 DEF PieceType
<1> QED
  BY <1>1, <1>2

LEMMA TextOfAppend ==
  ASSUME NEW pieces \in Seq(PieceType), NEW piece \in PieceType, NEW b \in BOOLEAN
  PROVE  TextOf(Append(pieces, piece), b) =
            TextOf(pieces, b) \o (IF piece.thinking = b THEN piece.text ELSE <<>>)
<1>1. PICK n \in Nat : n = Len(pieces) /\ DOMAIN pieces = 1..n
  BY LenProperties
<1>2. PICK all \in Seq(PieceType) :
         /\ all = Append(pieces, piece) /\ DOMAIN all = 1..n + 1
         /\ \A i \in 1..n : all[i] = pieces[i]
         /\ all[n + 1] = piece
  <2>1. /\ Append(pieces, piece) \in Seq(PieceType) /\ DOMAIN Append(pieces, piece) = 1..n + 1
        /\ \A i \in 1..n : Append(pieces, piece)[i] = pieces[i]
        /\ Append(pieces, piece)[n + 1] = piece
    BY <1>1, AppendProperties, LenProperties
  <2> QED
    BY <2>1
<1> DEFINE T(x) == IF x.thinking = b THEN x.text ELSE <<>>
<1>3. \A x \in PieceType : T(x) \in Seq(Symbols)
  BY EmptySeq DEF PieceType, Text
<1> HIDE DEF T
<1>4. PICK s : s = [i \in 1..n |-> T(pieces[i])]
  OBVIOUS
<1>5. PICK t : t = [i \in 1..n + 1 |-> T(all[i])]
  OBVIOUS
<1>6. PICK x \in Seq(Symbols) : x = T(piece)
  BY <1>3
<1>7. s \in Seq(Seq(Symbols)) /\ Len(s) = n
  <2>1. \A i \in 1..n : T(pieces[i]) \in Seq(Symbols)
    BY <1>1, <1>3, ElementOfSeq
  <2>2. s \in [1..n -> Seq(Symbols)]
    BY <1>4, <2>1
  <2> QED
    BY <1>4, <2>2
<1>8. t = Append(s, x)
  <2>1. /\ Append(s, x) \in Seq(Seq(Symbols)) /\ Len(Append(s, x)) = n + 1
        /\ \A i \in 1..n : Append(s, x)[i] = s[i]
        /\ Append(s, x)[n + 1] = x
    BY <1>7
  <2>2. \A i \in 1..n + 1 : i \in 1..n \/ i = n + 1
    BY <1>1
  <2>3. \A i \in 1..n + 1 : t[i] = Append(s, x)[i]
    BY <1>2, <1>4, <1>5, <1>6, <2>1, <2>2
  <2>4. t \in Seq(Seq(Symbols)) /\ Len(t) = n + 1
    <3>1. \A i \in 1..n + 1 : T(all[i]) \in Seq(Symbols)
      BY <1>2, <1>3, ElementOfSeq
    <3>2. t \in [1..n + 1 -> Seq(Symbols)]
      BY <1>5, <3>1
    <3> QED
      BY <1>5, <3>2
  <2> QED
    BY <2>1, <2>3, <2>4, SeqEqual
<1>9. FlattenSeq(t) = FlattenSeq(s) \o x
  BY <1>7, <1>8, FlattenAppend
<1>10. TextOf(pieces, b) = FlattenSeq(s) /\ TextOf(all, b) = FlattenSeq(t)
  BY <1>1, <1>2, <1>4, <1>5 DEF TextOf, T
<1> QED
  BY <1>2, <1>6, <1>9, <1>10 DEF T

LEMMA TextOfHandOn ==
  ASSUME NEW pieces \in Seq(PieceType), NEW b \in BOOLEAN, NEW text \in Text
  PROVE  TextOf(HandOn(pieces, b, text), FALSE) =
            TextOf(pieces, FALSE) \o (IF b THEN <<>> ELSE text)
<1>1. PICK a \in Seq(Symbols) : a = TextOf(pieces, FALSE) /\ a \o <<>> = a
  BY TextOfType, ConcatEmptySeq DEF Text
<1>2. CASE text = <<>>
  BY <1>1, <1>2 DEF HandOn
<1>3. CASE text # <<>>
  <2>1. PICK piece \in PieceType : piece = Piece(b, text) /\ piece.thinking = b /\ piece.text = text
    BY PieceIs
  <2>2. TextOf(Append(pieces, piece), FALSE) = a \o (IF piece.thinking = FALSE THEN piece.text ELSE <<>>)
    BY <1>1, TextOfAppend
  <2> QED
    BY <1>1, <1>3, <2>1, <2>2 DEF HandOn
<1> QED
  BY <1>2, <1>3
-----------------------------------------------------------------------------
(* The parser in the middle of a chunk: what is left of the chunk is what  *)
(* is left of the text after symbol j, which is not the first of a tag.    *)
HeldOf(text) == IF EndsCut(text) THEN <<"<">> ELSE <<>>

BetweenTags(text, j) ==
    /\ j > 0 => text[j] # "<"
    /\ EndsCut(text) => j = Len(text) - 1

Reading(s, text, base, j) ==
    /\ j \in 0..Len(text)
    /\ s.rest = SubSeq(text, j + 1, Len(text))
    /\ s.inThink = Inside(text)[j]
    /\ base \o TextOf(s.out, FALSE) = Before(text, j - Len(s.held))
    /\ IF s.rest = <<>> THEN s.held = HeldOf(text) ELSE s.held = <<>> /\ BetweenTags(text, j)

Ahead(text, j, b, at) ==
    /\ \A i \in 1..Len(text) - j - 1 : i \in at <=> TagEnds(text, j + i + 1, b)
    /\ at \subseteq 1..Len(text) - j - 1
    /\ j + 1 <= Len(text) => ~TagEnds(text, j + 1, b)

LEMMA TagsAhead ==
  ASSUME NEW text \in Text, NEW j \in 0..Len(text), NEW b \in BOOLEAN,
         NEW rest, rest = SubSeq(text, j + 1, Len(text)), j > 0 => text[j] # "<"
  PROVE  Ahead(text, j, b, TagAt(Tag(b), rest))
<1>1. PICK N \in Nat : N = Len(text)
  BY LenProperties DEF Text
<1>2. rest \in Text /\ Len(rest) = N - j /\ \A k \in 1..N - j : rest[k] = text[j + k]
  <2>1. j + 1 \in 1..N + 1 /\ N \in (j + 1) - 1..N /\ N - (j + 1) + 1 = N - j
    BY <1>1
  <2>2. rest \in Text /\ Len(rest) = N - j /\ \A k \in 1..N - j : rest[k] = text[(j + 1) + k - 1]
    BY <1>1, <2>1, PartOfText
  <2>3. \A k \in 1..N - j : (j + 1) + k - 1 = j + k
    BY <1>1
  <2> QED
    BY <2>2, <2>3
<1>3. TagAt(Tag(b), rest) = {i \in 1..N - j - 1 : SubSeq(rest, i, i + 1) = Tag(b)}
  BY <1>2 DEF TagAt
<1>4. ASSUME NEW i \in 1..N - j - 1
      PROVE  SubSeq(rest, i, i + 1) = Tag(b) <=> TagEnds(text, j + i + 1, b)
  <2>1. /\ i \in 1..Len(rest) /\ i + 1 <= Len(rest) /\ i \in 1..N - j /\ i + 1 \in 1..N - j
        /\ j + (i + 1) = j + i + 1 /\ (j + i + 1) - 1 = j + i /\ j + i + 1 > 1
    BY <1>1, <1>2
  <2>2. SubSeq(rest, i, i + 1) = Tag(b) <=> rest[i] = "<" /\ rest[i + 1] = TagName(b)
    BY <1>2, <2>1, TagHere
  <2>3. rest[i] = text[j + i] /\ rest[i + 1] = text[j + i + 1]
    BY <1>2, <2>1
  <2>4. PICK m : m = j + i + 1 /\ m > 1 /\ m - 1 = j + i
    BY <2>1
  <2> QED
    BY <2>2, <2>3, <2>4, Zenon DEF TagEnds
<1>5. j + 1 <= N => ~TagEnds(text, j + 1, b)
  <2>1. j + 1 > 1 => j > 0 /\ (j + 1) - 1 = j
    BY <1>1
  <2>2. PICK m : m = j + 1
    OBVIOUS
  <2> QED
    BY <2>1, <2>2, Zenon DEF TagEnds
<1>6. TagAt(Tag(b), rest) \subseteq 1..N - j - 1
  BY <1>3
<1>7. \A i \in 1..N - j - 1 : i \in TagAt(Tag(b), rest) <=> TagEnds(text, j + i + 1, b)
  BY <1>3, <1>4, Zenon
<1> QED
  BY <1>1, <1>5, <1>6, <1>7, Zenon DEF Ahead

LEMMA TagPlace ==
  ASSUME NEW N \in Nat, NEW j \in 0..N, NEW i \in 1..N - j - 1
  PROVE  /\ j + i - 1 \in j..N /\ j + i + 1 \in 1..N /\ j + i - 1 \in 0..N
         /\ j + i + 1 \in j + i - 1..N /\ (j + i - 1) + 1 = j + i /\ (j + i - 1) + 2 = j + i + 1
         /\ (j + i + 1) - 1 = j + i /\ j < j + i + 1 /\ (j + i + 1) - 0 = j + i + 1
  OBVIOUS

(* A round that finds a tag.                                               *)
LEMMA TagReads ==
  ASSUME NEW text \in Text, NEW base \in Seq(Symbols), NEW s \in ScanState, NEW j,
         Reading(s, text, base, j), s.rest # <<>>, TagAt(Tag(s.inThink), s.rest) # {}
  PROVE  \E k \in Nat : Reading(ScanRound(s), text, base, k) /\ j < k
<1>1. PICK N \in Nat : N = Len(text)
  BY LenProperties DEF Text
<1>2. PICK b \in BOOLEAN : b = s.inThink
  BY DEF ScanState
<1>3. PICK rest \in Text : rest = s.rest
  BY DEF ScanState
<1>4. PICK out \in Seq(PieceType) : out = s.out
  BY DEF ScanState
<1>5. /\ j \in 0..N /\ rest = SubSeq(text, j + 1, N) /\ b = Inside(text)[j]
      /\ s.held = <<>> /\ BetweenTags(text, j)
  BY <1>1, <1>2, <1>3 DEF Reading
<1>6. base \o TextOf(out, FALSE) = Before(text, j)
  <2>1. Len(s.held) = 0 /\ j - 0 = j
    BY <1>1, <1>5
  <2> QED
    BY <1>4, <2>1 DEF Reading
<1>7. PICK at : at = TagAt(Tag(b), rest)
  OBVIOUS
<1>8. /\ \A i \in 1..N - j - 1 : i \in at <=> TagEnds(text, j + i + 1, b)
      /\ at \subseteq 1..N - j - 1
      /\ j + 1 <= N => ~TagEnds(text, j + 1, b)
  <2>1. j \in 0..Len(text) /\ rest = SubSeq(text, j + 1, Len(text)) /\ (j > 0 => text[j] # "<")
    BY <1>1, <1>5 DEF BetweenTags
  <2>2. Ahead(text, j, b, at)
    BY <1>7, <2>1, TagsAhead, Zenon
  <2> QED
    BY <1>1, <2>2, Zenon DEF Ahead
<1>9. PICK i \in at : i = Min(at) /\ \A m \in at : i <= m
  <2>1. at \in SUBSET Nat /\ at # {}
    BY <1>2, <1>3, <1>7, <1>8
  <2>2. \E n \in at : \A m \in at : n <= m
    BY <2>1, LeastExists
  <2> QED
    BY <2>2 DEF Min
<1>10. i \in 1..N - j - 1 /\ TagEnds(text, j + i + 1, b)
  BY <1>8, <1>9
<1>11. PICK m, k : /\ m = j + i - 1 /\ k = j + i + 1 /\ m \in j..N /\ k \in 1..N /\ m \in 0..N
                   /\ k \in m..N /\ m + 1 = j + i /\ m + 2 = k /\ k - 1 = j + i /\ j < k /\ k - 0 = k
  <2>1. /\ j + i - 1 \in j..N /\ j + i + 1 \in 1..N /\ j + i - 1 \in 0..N
        /\ j + i + 1 \in j + i - 1..N /\ (j + i - 1) + 1 = j + i /\ (j + i - 1) + 2 = j + i + 1
        /\ (j + i + 1) - 1 = j + i /\ j < j + i + 1 /\ (j + i + 1) - 0 = j + i + 1
    BY <1>1, <1>5, <1>10, TagPlace
  <2> QED
    BY <2>1
<1>12. \A n \in j + 1..j + i : ~TagEnds(text, n, b)
  <2> TAKE n \in j + 1..j + i
  <2>1. CASE n = j + 1
    BY <1>5, <1>8, <1>10, <2>1
  <2>2. CASE n # j + 1
    <3>1. n - j - 1 \in 1..N - j - 1 /\ ~(i <= n - j - 1) /\ j + (n - j - 1) + 1 = n
      BY <1>1, <1>5, <1>10, <2>2
    <3> QED
      BY <1>8, <1>9, <3>1
  <2> QED
    BY <2>1, <2>2
<1>13. /\ Inside(text)[m] = b
       /\ Before(text, m) = Before(text, j) \o (IF b THEN <<>> ELSE SubSeq(text, j + 1, m))
  <2>1. m \in j..m /\ m \in j..Len(text) /\ j \in 0..Len(text)
    BY <1>1, <1>5, <1>11
  <2>2. \A n \in j + 1..m + 1 : n <= Len(text) => ~TagEnds(text, n, b)
    BY <1>11, <1>12
  <2>3. Inside(text)[j] = b
    BY <1>5, Zenon
  <2>4. PlainUpTo(text, j, m, b)
    BY <2>1, <2>2, <2>3, Stretch, Zenon
  <2> QED
    BY <2>1, <2>4, Zenon DEF PlainUpTo
<1>14. Inside(text)[k - 1] = b
  <2>1. PICK e : e = j + i /\ e \in j..e /\ e \in j..Len(text) /\ j \in 0..Len(text)
    <3>1. j + i \in j..j + i /\ j + i \in j..Len(text) /\ j \in 0..Len(text)
      BY <1>1, <1>5, <1>10
    <3> QED
      BY <3>1
  <2>2. Inside(text)[j] = b
    BY <1>5, Zenon
  <2>3. \A n \in j + 1..e : ~TagEnds(text, n, b)
    BY <1>12, <2>1, Zenon
  <2>4. StaysInside(text, j, e, b)
    BY <2>1, <2>2, <2>3, NoTagEnds, Zenon
  <2> QED
    BY <1>11, <2>1, <2>4, Zenon DEF StaysInside
<1>15. Inside(text)[k] = ~b
  <2>1. k \in 1..Len(text)
    BY <1>1, <1>11
  <2>2. Inside(text)[k] = IF TagEnds(text, k, Inside(text)[k - 1])
                          THEN ~Inside(text)[k - 1] ELSE Inside(text)[k - 1]
    BY <2>1, InsideIs, Zenon
  <2> QED
    BY <1>10, <1>11, <1>14, <2>2, Zenon
<1>16. text[k - 1] = "<" /\ text[k] = TagName(b) /\ text[k] # "<"
  <2>1. text[k - 1] = "<" /\ text[k] = TagName(b)
    BY <1>10, <1>11, Zenon DEF TagEnds
  <2>2. TagName(b) # "<"
    BY DEF TagName
  <2> QED
    BY <2>1, <2>2
<1>17. Before(text, k) = Before(text, m)
  <2>1. ~AnswerAt(text, k)
    BY <1>14, <1>15, Zenon DEF AnswerAt
  <2>2. ~AnswerAt(text, k - 1)
    <3>1. k - 1 \in 1..Len(text) /\ k - 1 < Len(text) /\ (k - 1) + 1 = k
      BY <1>1, <1>5, <1>10, <1>11
    <3>2. CASE b
      BY <1>14, <3>2, Zenon DEF AnswerAt
    <3>3. CASE ~b
      <4>1. TagName(b) = "think>"
        BY <3>3 DEF TagName
      <4>2. AnswerAt(text, k - 1) => ~(text[k - 1] = "<" /\ text[(k - 1) + 1] = "think>")
        BY <3>1, AnswerIs, Zenon
      <4> QED
        BY <1>16, <3>1, <4>1, <4>2, Zenon
    <3> QED
      BY <3>2, <3>3, Zenon
  <2>3. \A n \in m + 1..k : n = k - 1 \/ n = k
    BY <1>1, <1>5, <1>10, <1>11
  <2>4. m \in 0..Len(text) /\ k \in m..Len(text)
    BY <1>1, <1>11
  <2>5. \A n \in m + 1..k : ~AnswerAt(text, n)
    BY <2>1, <2>2, <2>3, Zenon
  <2> QED
    BY <2>4, <2>5, BeforeQuiet
<1>18. PICK t : t = ScanRound(s)
  OBVIOUS
<1>19. /\ t.inThink = ~b /\ t.rest = SubSeq(rest, i + 2, Len(rest)) /\ t.held = <<>>
       /\ t.out = HandOn(out, b, SubSeq(rest, 1, i - 1))
  <2>1. ScanRound(s) = [inThink |-> ~s.inThink, rest |-> SubSeq(s.rest, i + 2, Len(s.rest)), held |-> <<>>,
                        out |-> HandOn(s.out, s.inThink, SubSeq(s.rest, 1, i - 1))]
    BY <1>2, <1>3, <1>7, <1>9 DEF ScanRound
  <2>2. t = [inThink |-> ~b, rest |-> SubSeq(rest, i + 2, Len(rest)), held |-> <<>>,
             out |-> HandOn(out, b, SubSeq(rest, 1, i - 1))]
    BY <1>2, <1>3, <1>4, <1>18, <2>1, Zenon
  <2> QED
    BY <2>2
<1>20. Len(rest) = N - j
  <2>1. j + 1 \in 1..N + 1 /\ N \in (j + 1) - 1..N /\ N - (j + 1) + 1 = N - j
    BY <1>1, <1>5
  <2> QED
    BY <1>1, <1>5, <2>1, PartOfText
<1>21. SubSeq(rest, 1, i - 1) = SubSeq(text, j + 1, m) /\ SubSeq(rest, 1, i - 1) \in Text
  <2>1. 1 \in 1..N - j + 1 /\ i - 1 \in 1 - 1..N - j /\ j + (i - 1) = m
    <3>1. j \in 0..N /\ i \in 1..N - j - 1 /\ m = j + i - 1
      BY <1>5, <1>10, <1>11
    <3> QED
      BY <1>1, <3>1
  <2>2. SubSeq(rest, 1, i - 1) = SubSeq(text, j + 1, j + (i - 1))
    <3>1. /\ j \in 0..Len(text) /\ rest = SubSeq(text, j + 1, Len(text))
          /\ 1 \in 1..Len(text) - j + 1 /\ i - 1 \in 1 - 1..Len(text) - j
      BY <1>1, <1>5, <2>1
    <3> QED
      BY <3>1, PartOfPart
  <2>3. SubSeq(rest, 1, i - 1) \in Text
    <3>1. 1 \in 1..Len(rest) + 1 /\ i - 1 \in 1 - 1..Len(rest)
      BY <1>1, <1>5, <1>20, <2>1
    <3> QED
      BY <1>3, <3>1, PartOfText
  <2> QED
    BY <2>1, <2>2, <2>3
<1>22. t.rest = SubSeq(text, k + 1, N)
  <2>1. i + 2 \in 1..N - j + 1 /\ N - j \in (i + 2) - 1..N - j /\ j + (i + 2) = k + 1 /\ j + (N - j) = N
    BY <1>1, <1>5, <1>10, <1>11
  <2>2. SubSeq(rest, i + 2, N - j) = SubSeq(text, j + (i + 2), j + (N - j))
    <3>1. /\ j \in 0..Len(text) /\ rest = SubSeq(text, j + 1, Len(text))
          /\ i + 2 \in 1..Len(text) - j + 1 /\ N - j \in (i + 2) - 1..Len(text) - j
      BY <1>1, <1>5, <2>1
    <3> QED
      BY <3>1, PartOfPart
  <2> QED
    BY <1>19, <1>20, <2>1, <2>2
<1>23. base \o TextOf(t.out, FALSE) = Before(text, k)
  <2>1. PICK part \in Seq(Symbols) : part = IF b THEN <<>> ELSE SubSeq(rest, 1, i - 1)
    <3>1. (IF b THEN <<>> ELSE SubSeq(rest, 1, i - 1)) \in Seq(Symbols)
      BY <1>21, EmptySeq DEF Text
    <3> QED
      BY <3>1
  <2>2. PICK said \in Seq(Symbols) : said = TextOf(out, FALSE)
    BY TextOfType DEF Text
  <2>3. TextOf(t.out, FALSE) = said \o part
    <3>1. PICK q \in Text : q = SubSeq(rest, 1, i - 1)
      BY <1>21
    <3>2. TextOf(HandOn(out, b, q), FALSE) = TextOf(out, FALSE) \o (IF b THEN <<>> ELSE q)
      BY TextOfHandOn
    <3> QED
      BY <1>19, <2>1, <2>2, <3>1, <3>2, Zenon
  <2>4. base \o (said \o part) = (base \o said) \o part
    BY TextAssoc, Zenon
  <2>5. Before(text, m) = Before(text, j) \o part
    BY <1>13, <1>21, <2>1
  <2> QED
    BY <1>6, <1>17, <2>2, <2>3, <2>4, <2>5
<1>24. ~EndsCut(text)
  <2>1. j # N - 1
    BY <1>1, <1>5, <1>10
  <2> QED
    BY <1>1, <1>5, <2>1 DEF BetweenTags
<1>25. BetweenTags(text, k)
  BY <1>16, <1>24 DEF BetweenTags
<1>26. k \in 0..Len(text) /\ k \in Nat /\ Len(t.held) = 0
  BY <1>1, <1>11, <1>19
<1>27. Reading(t, text, base, k)
  <2>1. t.held = HeldOf(text)
    BY <1>19, <1>24 DEF HeldOf
  <2>2. t.inThink = Inside(text)[k]
    BY <1>15, <1>19, Zenon
  <2>3. base \o TextOf(t.out, FALSE) = Before(text, k - Len(t.held))
    BY <1>11, <1>23, <1>26
  <2> QED
    BY <1>1, <1>19, <1>22, <1>25, <1>26, <2>1, <2>2, <2>3 DEF Reading
<1> QED
  BY <1>11, <1>18, <1>26, <1>27

(* A round that finds none takes all that is left, or holds it back.       *)
LEMMA QuietReads ==
  ASSUME NEW text \in Text, NEW base \in Seq(Symbols), NEW s \in ScanState, NEW j,
         Reading(s, text, base, j), s.rest # <<>>, TagAt(Tag(s.inThink), s.rest) = {}
  PROVE  Reading(ScanRound(s), text, base, Len(text)) /\ ScanRound(s).rest = <<>>
<1>1. PICK N \in Nat : N = Len(text)
  BY LenProperties DEF Text
<1>2. PICK b \in BOOLEAN : b = s.inThink
  BY DEF ScanState
<1>3. PICK rest \in Text : rest = s.rest
  BY DEF ScanState
<1>4. PICK out \in Seq(PieceType) : out = s.out
  BY DEF ScanState
<1>5. /\ j \in 0..N /\ rest = SubSeq(text, j + 1, N) /\ b = Inside(text)[j]
      /\ s.held = <<>> /\ BetweenTags(text, j)
  BY <1>1, <1>2, <1>3 DEF Reading
<1>6. base \o TextOf(out, FALSE) = Before(text, j)
  <2>1. Len(s.held) = 0 /\ j - 0 = j
    BY <1>1, <1>5
  <2> QED
    BY <1>4, <2>1 DEF Reading
<1>7. Ahead(text, j, b, {})
  <2>1. j \in 0..Len(text) /\ rest = SubSeq(text, j + 1, Len(text)) /\ (j > 0 => text[j] # "<")
    BY <1>1, <1>5 DEF BetweenTags
  <2>2. {} = TagAt(Tag(b), rest)
    BY <1>2, <1>3, Zenon
  <2> QED
    BY <2>1, <2>2, TagsAhead, Zenon
<1>8. Len(rest) = N - j /\ \A k \in 1..N - j : rest[k] = text[(j + 1) + k - 1]
  <2>1. j + 1 \in 1..N + 1 /\ N \in (j + 1) - 1..N /\ N - (j + 1) + 1 = N - j
    BY <1>1, <1>5
  <2> QED
    BY <1>1, <1>5, <2>1, PartOfText
<1>9. N - j # 0
  <2>1. Len(rest) # 0
    BY <1>3, EmptySeq DEF Text
  <2> QED
    BY <1>8, <2>1
<1>10. PlainUpTo(text, j, N, b)
  <2>1. ASSUME NEW n \in j + 1..N + 1, n <= N PROVE ~TagEnds(text, n, b)
    <3>1. j + 1 <= N
      BY <1>1, <1>5, <1>9
    <3>2. CASE n = j + 1
      BY <1>1, <1>7, <3>1, <3>2, Zenon DEF Ahead
    <3>3. CASE n # j + 1
      <4>1. PICK i : i \in 1..N - j - 1 /\ j + i + 1 = n
        <5>1. n - j - 1 \in 1..N - j - 1 /\ j + (n - j - 1) + 1 = n
          BY <1>1, <1>5, <2>1, <3>3
        <5> QED
          BY <5>1
      <4>2. i \in {} <=> TagEnds(text, j + i + 1, b)
        BY <1>1, <1>7, <4>1, Zenon DEF Ahead
      <4> QED
        BY <4>1, <4>2, Zenon
    <3> QED
      BY <3>2, <3>3
  <2>2. j \in 0..Len(text) /\ N \in j..Len(text)
    BY <1>1, <1>5
  <2>3. Inside(text)[j] = b
    BY <1>5, Zenon
  <2> QED
    BY <1>1, <2>1, <2>2, <2>3, Stretch, Zenon
<1>11. Inside(text)[N] = b /\ Before(text, N) = Before(text, j) \o (IF b THEN <<>> ELSE rest)
  <2>1. N \in j..N
    BY <1>1, <1>5
  <2> QED
    BY <1>5, <1>10, <2>1, Zenon DEF PlainUpTo
<1>12. SubSeq(text, N + 1, N) = <<>> /\ N \in 0..N
  BY <1>1, SubSeqEmpty
<1>13. EndsCut(text) <=> text[N] = "<"
  <2>1. text # <<>>
    <3>1. Len(text) # 0
      BY <1>1, <1>5, <1>9
    <3> QED
      BY <3>1, EmptySeq
  <2> QED
    BY <1>1, <2>1 DEF EndsCut, Last
<1>14. j = N - 1 => rest = <<text[N]>>
  <2>1. ASSUME j = N - 1 PROVE rest = <<text[N]>>
    <3>1. Len(rest) = 1 /\ rest[1] = text[N]
      <4>1. 1 \in 1..N - j /\ (j + 1) + 1 - 1 = N /\ N - j = 1
        BY <1>1, <2>1
      <4> QED
        BY <1>8, <4>1
    <3>2. rest = <<rest[1]>>
      BY <1>3, <3>1 DEF Text
    <3> QED
      BY <3>1, <3>2
  <2> QED
    BY <2>1
<1>15. Head(Tag(b)) = "<"
  BY DEF Tag, OpenTag, CloseTag
<1>16. PICK t : t = ScanRound(s)
  OBVIOUS
<1>17. TagAt(Tag(b), rest) = {} /\ s.rest # <<>>
  BY <1>2, <1>3, Zenon
<1>18. CASE Held(Tag(b), rest)
  <2>1. t = [s EXCEPT !.rest = <<>>, !.held = s.rest]
    BY <1>2, <1>3, <1>16, <1>17, <1>18 DEF ScanRound
  <2>2. t.inThink = s.inThink /\ t.rest = <<>> /\ t.held = rest /\ t.out = s.out
    BY <1>3, <2>1 DEF ScanState
  <2>3. rest = <<"<">> /\ Len(rest) = 1
    BY <1>15, <1>18 DEF Held
  <2>4. N - j = 1 /\ N - 1 = j /\ j = N - 1
    BY <1>1, <1>5, <1>8, <2>3
  <2>5. EndsCut(text)
    BY <1>13, <1>14, <2>3, <2>4
  <2>6. t.held = HeldOf(text)
    BY <2>2, <2>3, <2>5 DEF HeldOf
  <2>7. base \o TextOf(t.out, FALSE) = Before(text, N - Len(t.held))
    BY <1>4, <1>6, <2>2, <2>3, <2>4
  <2>8. t.inThink = Inside(text)[N]
    BY <1>2, <1>11, <2>2, Zenon
  <2> QED
    BY <1>1, <1>12, <1>16, <2>2, <2>6, <2>7, <2>8 DEF Reading
<1>19. CASE ~Held(Tag(b), rest)
  <2>1. PICK piece \in PieceType : piece = Piece(b, rest) /\ piece.thinking = b /\ piece.text = rest
    BY PieceIs
  <2>2. t = [s EXCEPT !.rest = <<>>, !.out = Append(@, Piece(s.inThink, s.rest))]
    BY <1>2, <1>3, <1>16, <1>17, <1>19 DEF ScanRound
  <2>3. t.inThink = s.inThink /\ t.rest = <<>> /\ t.held = <<>> /\ t.out = Append(out, piece)
    <3>1. Piece(s.inThink, s.rest) = piece
      BY <1>2, <1>3, <2>1, Zenon
    <3>2. t = [s EXCEPT !.rest = <<>>, !.out = Append(@, piece)]
      BY <2>2, <3>1, Zenon
    <3> QED
      BY <1>4, <1>5, <3>2 DEF ScanState
  <2>4. ~EndsCut(text)
    <3>1. SUFFICES ASSUME EndsCut(text) PROVE FALSE
      OBVIOUS
    <3>2. j = N - 1
      BY <1>1, <1>5, <3>1 DEF BetweenTags
    <3>3. rest = <<"<">>
      BY <1>13, <1>14, <3>1, <3>2
    <3> QED
      BY <1>15, <1>19, <3>3 DEF Held
  <2>5. t.held = HeldOf(text)
    BY <2>3, <2>4 DEF HeldOf
  <2>6. base \o TextOf(t.out, FALSE) = Before(text, N)
    <3>1. PICK part \in Seq(Symbols) : part = IF b THEN <<>> ELSE rest
      <4>1. (IF b THEN <<>> ELSE rest) \in Seq(Symbols)
        BY EmptySeq DEF Text
      <4> QED
        BY <4>1
    <3>2. PICK said \in Seq(Symbols) : said = TextOf(out, FALSE)
      BY TextOfType DEF Text
    <3>3. TextOf(t.out, FALSE) = said \o part
      <4>1. TextOf(Append(out, piece), FALSE) =
              TextOf(out, FALSE) \o (IF piece.thinking = FALSE THEN piece.text ELSE <<>>)
        BY TextOfAppend
      <4>2. (IF piece.thinking = FALSE THEN piece.text ELSE <<>>) = part
        BY <2>1, <3>1, Zenon
      <4> QED
        BY <2>3, <3>2, <4>1, <4>2, Zenon
    <3>4. base \o (said \o part) = (base \o said) \o part
      BY TextAssoc, Zenon
    <3>5. Before(text, N) = Before(text, j) \o part
      BY <1>11, <3>1, Zenon
    <3> QED
      BY <1>6, <3>2, <3>3, <3>4, <3>5
  <2>7. N - Len(t.held) = N
    BY <1>1, <2>3
  <2>8. t.inThink = Inside(text)[N]
    BY <1>2, <1>11, <2>3, Zenon
  <2> QED
    BY <1>1, <1>12, <1>16, <2>3, <2>5, <2>6, <2>7, <2>8 DEF Reading
<1> QED
  BY <1>18, <1>19

LEMMA RoundReads ==
  ASSUME NEW text \in Text, NEW base \in Seq(Symbols), NEW s \in ScanState, NEW j \in Nat,
         Reading(s, text, base, j)
  PROVE  \E k \in Nat : /\ Reading(ScanRound(s), text, base, k)
                        /\ ScanRound(s).rest = <<>> \/ (j < k /\ s.rest # <<>>)
<1>1. CASE s.rest = <<>>
  <2>1. TagAt(Tag(s.inThink), s.rest) = {}
    <3>1. 1..Len(s.rest) - 1 = {}
      BY <1>1
    <3> QED
      BY <3>1 DEF TagAt
  <2>2. ScanRound(s) = s
    BY <1>1, <2>1 DEF ScanRound
  <2> QED
    BY <1>1, <2>2
<1>2. CASE s.rest # <<>> /\ TagAt(Tag(s.inThink), s.rest) # {}
  BY <1>2, TagReads
<1>3. CASE s.rest # <<>> /\ TagAt(Tag(s.inThink), s.rest) = {}
  <2>1. Len(text) \in Nat
    BY LenProperties DEF Text
  <2> QED
    BY <1>3, <2>1, QuietReads
<1> QED
  BY <1>1, <1>2, <1>3

(* A chunk is read to its end: every round takes at least one symbol.      *)
LEMMA ChunkRead ==
  ASSUME NEW inThink \in BOOLEAN, NEW held \in Text, NEW x \in Text, NEW text \in Text,
         NEW base \in Seq(Symbols), NEW j \in Nat,
         Reading(FirstRound(inThink, held \o x), text, base, j)
  PROVE  \E s \in ScanState :
            /\ Scan(inThink, held, x) = [inThink |-> s.inThink, held |-> s.held, out |-> s.out]
            /\ Reading(s, text, base, Len(text)) /\ s.rest = <<>>
<1>1. PICK N \in Nat : N = Len(text)
  BY LenProperties DEF Text
<1>2. PICK all : all = held \o x
  OBVIOUS
<1>3. PICK R \in Nat : \E rounds :
         /\ R = Len(held \o x) /\ held \o x \in Text
         /\ Rounds(rounds, R, FirstRound(inThink, held \o x))
         /\ Scan(inThink, held, x) =
               [inThink |-> rounds[R].inThink, held |-> rounds[R].held, out |-> rounds[R].out]
  BY ScanRounds
<1>4. PICK rounds :
         /\ R = Len(all) /\ all \in Text
         /\ Rounds(rounds, R, FirstRound(inThink, all))
         /\ Scan(inThink, held, x) =
               [inThink |-> rounds[R].inThink, held |-> rounds[R].held, out |-> rounds[R].out]
  BY <1>2, <1>3
<1>5. /\ \A n \in 0..R : rounds[n] \in ScanState
      /\ rounds[0] = FirstRound(inThink, all)
      /\ \A n \in 0..R : n # 0 => rounds[n] = ScanRound(rounds[n - 1])
  BY <1>4 DEF Rounds
<1>6. Reading(rounds[0], text, base, j) /\ rounds[0].rest = all
  BY <1>2, <1>5 DEF FirstRound
<1>7. j \in 0..N /\ all = SubSeq(text, j + 1, N) /\ R = N - j
  <2>1. j \in 0..N /\ all = SubSeq(text, j + 1, N)
    BY <1>1, <1>6 DEF Reading
  <2>2. j + 1 \in 1..N + 1 /\ N \in (j + 1) - 1..N /\ N - (j + 1) + 1 = N - j
    BY <1>1, <2>1
  <2> QED
    BY <1>1, <1>4, <2>1, <2>2, PartOfText
<1> DEFINE Read(n) == \E k \in Nat : /\ Reading(rounds[n], text, base, k)
                                     /\ rounds[n].rest = <<>> \/ j + n <= k
           P == {n \in 0..R : Read(n)}
<1>8. 0 \in P
  <2>1. Read(0)
    BY <1>6
  <2> QED
    BY <2>1
<1>9. ASSUME NEW n \in 0..R, n # R, n \in P PROVE n + 1 \in P
  <2>1. PICK k \in Nat : Reading(rounds[n], text, base, k) /\ (rounds[n].rest = <<>> \/ j + n <= k)
    BY <1>9
  <2>2. n + 1 \in 0..R /\ n + 1 # 0 /\ (n + 1) - 1 = n
    BY <1>9
  <2>3. rounds[n + 1] = ScanRound(rounds[n]) /\ rounds[n] \in ScanState
    BY <1>5, <2>2
  <2>4. PICK m \in Nat : /\ Reading(ScanRound(rounds[n]), text, base, m)
                         /\ ScanRound(rounds[n]).rest = <<>> \/ (k < m /\ rounds[n].rest # <<>>)
    BY <2>1, <2>3, RoundReads
  <2>5. k < m /\ j + n <= k => j + (n + 1) <= m
    BY <1>9
  <2>6. Read(n + 1)
    BY <2>1, <2>3, <2>4, <2>5
  <2> HIDE DEF Read
  <2> QED
    BY <2>2, <2>6
<1>10. Read(R)
  <2> HIDE DEF P
  <2>1. 0..R \subseteq P
    BY <1>3, <1>8, <1>9, Induction
  <2>2. R \in P
    BY <1>3, <2>1
  <2> HIDE DEF Read
  <2> QED
    BY <2>2 DEF P
<1>11. PICK k \in Nat : Reading(rounds[R], text, base, k) /\ (rounds[R].rest = <<>> \/ j + R <= k)
  BY <1>10
<1>12. k \in 0..N /\ rounds[R].rest = SubSeq(text, k + 1, N)
  BY <1>1, <1>11 DEF Reading
<1>13. Len(rounds[R].rest) = N - k
  <2>1. k + 1 \in 1..N + 1 /\ N \in (k + 1) - 1..N /\ N - (k + 1) + 1 = N - k
    BY <1>1, <1>12
  <2> QED
    BY <1>1, <1>12, <2>1, PartOfText
<1>14. k = N
  <2>1. CASE rounds[R].rest = <<>>
    BY <1>1, <1>12, <1>13, <2>1
  <2>2. CASE j + R <= k
    BY <1>1, <1>7, <1>12, <2>2
  <2> QED
    BY <1>11, <2>1, <2>2
<1>15. rounds[R].rest = <<>>
  BY <1>1, <1>12, <1>14, SubSeqEmpty
<1>16. rounds[R] \in ScanState
  BY <1>3, <1>5
<1> QED
  BY <1>1, <1>4, <1>11, <1>14, <1>15, <1>16

(* The parser between two chunks: all that came before is parsed, but for  *)
(* a "<" at its end.                                                       *)
ParsedUpTo(inThink, held, response, text) ==
    /\ inThink = Inside(text)[Len(text)]
    /\ held = HeldOf(text)
    /\ response = Before(text, Len(text) - Len(held))
    /\ EndsCut(text) /\ Len(text) > 1 => text[Len(text) - 1] # "<"

LEMMA CutIs ==
  ASSUME NEW text \in Text
  PROVE  /\ EndsCut(text) <=> Len(text) > 0 /\ text[Len(text)] = "<"
         /\ HeldOf(text) \in Text /\ Len(HeldOf(text)) \in {0, 1}
         /\ EndsCut(text) => HeldOf(text) = <<"<">> /\ Len(HeldOf(text)) = 1
         /\ ~EndsCut(text) => HeldOf(text) = <<>> /\ Len(HeldOf(text)) = 0
<1>1. Len(text) \in Nat /\ (text = <<>> <=> Len(text) = 0)
  BY EmptySeq, LenProperties DEF Text
<1>2. EndsCut(text) <=> Len(text) > 0 /\ text[Len(text)] = "<"
  BY <1>1 DEF EndsCut, Last
<1>3. <<"<">> \in Text /\ Len(<<"<">>) = 1 /\ <<>> \in Text /\ Len(<<>>) = 0
  BY EmptySeq DEF Text, Symbols
<1> QED
  BY <1>2, <1>3 DEF HeldOf

(* A "<" at the end begins a tag at most: it does not end one.             *)
LEMMA CutInside ==
  ASSUME NEW text \in Text, EndsCut(text)
  PROVE  Inside(text)[Len(text) - 1] = Inside(text)[Len(text)]
<1>1. PICK N \in Nat : N = Len(text) /\ N > 0 /\ text[N] = "<" /\ N \in 1..N
  BY CutIs, LenProperties DEF Text
<1>2. \A b : ~TagEnds(text, N, b)
  <2>1. \A b : TagName(b) # "<"
    BY DEF TagName
  <2> QED
    BY <1>1, <2>1, Zenon DEF TagEnds
<1>3. Inside(text)[N] = IF TagEnds(text, N, Inside(text)[N - 1])
                        THEN ~Inside(text)[N - 1] ELSE Inside(text)[N - 1]
  BY <1>1, InsideIs, Zenon
<1> QED
  BY <1>1, <1>2, <1>3, Zenon

LEMMA BeforePrefix ==
  ASSUME NEW old \in Text, NEW x \in Text
  PROVE  Before(old \o x, Len(old) - Len(HeldOf(old))) = Before(old, Len(old) - Len(HeldOf(old)))
<1>1. PICK L \in Nat : L = Len(old)
  BY LenProperties DEF Text
<1>2. PICK text \in Text : /\ text = old \o x /\ Len(text) = L + Len(x) /\ Len(x) \in Nat
                           /\ \A n \in 1..L : text[n] = old[n]
  <2>1. /\ old \o x \in Text /\ Len(old \o x) = L + Len(x) /\ Len(x) \in Nat
        /\ \A n \in 1..L + Len(x) : (old \o x)[n] = IF n <= L THEN old[n] ELSE x[n - L]
    BY <1>1, ConcatProperties, LenProperties DEF Text
  <2>2. \A n \in 1..L : n \in 1..L + Len(x) /\ n <= L
    BY <1>1, <2>1
  <2> QED
    BY <2>1, <2>2
<1>3. PICK j : j = L - Len(HeldOf(old)) /\ j \in Int /\ j <= L
  <2>1. L - Len(HeldOf(old)) \in Int /\ L - Len(HeldOf(old)) <= L
    BY <1>1, CutIs
  <2> QED
    BY <2>1
<1>4. ASSUME NEW i \in 1..j PROVE PartAt(text, i) = PartAt(old, i)
  <2>1. /\ i \in 1..L /\ i \in 1..Len(text) /\ i \in 1..Len(old) /\ i \in 0..L /\ i - 1 \in 0..L
        /\ i < L => i + 1 \in 1..L /\ i < Len(text)
    BY <1>1, <1>2, <1>3
  <2>2. Inside(text)[i - 1] = Inside(old)[i - 1] /\ Inside(text)[i] = Inside(old)[i]
    BY <1>1, <1>2, <2>1, InsidePrefix, Zenon
  <2>3. text[i] = old[i] /\ (i < L => text[i + 1] = old[i + 1])
    BY <1>2, <2>1
  <2>4. ~(i < L) => text[i] # "<"
    <3>1. ~(i < L) => i = L /\ Len(HeldOf(old)) = 0 /\ L > 0
      BY <1>1, <1>3, CutIs
    <3>2. ~(i < L) => ~EndsCut(old)
      <4>1. EndsCut(old) => Len(HeldOf(old)) = 1
        BY CutIs, Zenon
      <4> QED
        BY <3>1, <4>1
    <3> QED
      BY <1>1, <2>3, <3>1, <3>2, CutIs
  <2>5. AnswerAt(text, i) <=> AnswerAt(old, i)
    <3>1. AnswerAt(text, i) <=>
            /\ ~Inside(text)[i - 1] /\ ~Inside(text)[i]
            /\ i < Len(text) => ~(text[i] = "<" /\ text[i + 1] = "think>")
      BY <2>1, AnswerIs, Zenon
    <3>2. AnswerAt(old, i) <=>
            /\ ~Inside(old)[i - 1] /\ ~Inside(old)[i]
            /\ i < L => ~(old[i] = "<" /\ old[i + 1] = "think>")
      BY <1>1, <2>1, AnswerIs, Zenon
    <3>3. (i < Len(text) => ~(text[i] = "<" /\ text[i + 1] = "think>"))
            <=> (i < L => ~(old[i] = "<" /\ old[i + 1] = "think>"))
      BY <2>1, <2>3, <2>4, Zenon
    <3> QED
      BY <2>2, <3>1, <3>2, <3>3, Zenon
  <2> QED
    BY <2>3, <2>5, Zenon DEF PartAt
<1>5. [i \in 1..j |-> PartAt(text, i)] = [i \in 1..j |-> PartAt(old, i)]
  BY <1>4
<1> QED
  BY <1>1, <1>2, <1>3, <1>5 DEF Before

(* A chunk that is fed to the parser between two chunks.                   *)
Fed(inThink, held, response, old, x) ==
    /\ \E j \in Nat : Reading(FirstRound(inThink, held \o x), old \o x, response, j)
    /\ EndsCut(old \o x) <=> EndsCut(x)
    /\ EndsCut(old \o x) /\ Len(old \o x) > 1 => (old \o x)[Len(old \o x) - 1] # "<"

LEMMA ChunkFed ==
  ASSUME NEW inThink \in BOOLEAN, NEW held \in Text, NEW response \in Seq(Symbols),
         NEW old \in Text, NEW x \in Text, x # <<>>,
         ParsedUpTo(inThink, held, response, old),
         EndsCut(x) => x = <<"<">> /\ ~EndsCut(old)
  PROVE  Fed(inThink, held, response, old, x)
<1>1. PICK L \in Nat : L = Len(old) /\ \A n \in 1..L : old[n] \in Symbols
  BY ElementOfSeq, LenProperties DEF Text
<1>2. PICK M \in Nat : M = Len(x) /\ M > 0
  BY EmptySeq, LenProperties DEF Text
<1>3. PICK text \in Text : /\ text = old \o x /\ Len(text) = L + M
                           /\ \A n \in 1..L : text[n] = old[n]
                           /\ \A n \in 1..M : text[L + n] = x[n]
  <2>1. /\ old \o x \in Text /\ Len(old \o x) = L + M
        /\ \A n \in 1..L + M : (old \o x)[n] = IF n <= L THEN old[n] ELSE x[n - L]
    BY <1>1, <1>2, ConcatProperties DEF Text
  <2>2. \A n \in 1..L : n \in 1..L + M /\ n <= L
    BY <1>1, <1>2
  <2>3. \A n \in 1..M : L + n \in 1..L + M /\ ~(L + n <= L) /\ (L + n) - L = n
    BY <1>1, <1>2
  <2>4. \A n \in 1..M : (old \o x)[L + n] = x[n]
    BY <2>1, <2>3
  <2>5. \A n \in 1..L : (old \o x)[n] = old[n]
    BY <2>1, <2>2
  <2> QED
    BY <2>1, <2>4, <2>5
<1>4. PICK h \in {0, 1} : /\ h = Len(held) /\ held = HeldOf(old)
                          /\ EndsCut(old) => h = 1 /\ held = <<"<">>
                          /\ ~EndsCut(old) => h = 0 /\ held = <<>>
  <2>1. held = HeldOf(old)
    BY DEF ParsedUpTo
  <2>2. EndsCut(old) => Len(held) = 1 /\ held = <<"<">>
    BY <2>1, CutIs, Zenon
  <2>3. ~EndsCut(old) => Len(held) = 0 /\ held = <<>>
    BY <2>1, CutIs, Zenon
  <2>4. Len(held) \in {0, 1}
    BY <2>2, <2>3
  <2> QED
    BY <2>1, <2>2, <2>3, <2>4
<1>5. /\ EndsCut(old) => L > 0 /\ old[L] = "<" /\ (L > 1 => old[L - 1] # "<")
      /\ ~EndsCut(old) /\ L > 0 => old[L] # "<"
  <2>1. EndsCut(old) <=> L > 0 /\ old[L] = "<"
    BY <1>1, CutIs, Zenon
  <2>2. EndsCut(old) /\ L > 1 => old[L - 1] # "<"
    BY <1>1, Zenon DEF ParsedUpTo
  <2> QED
    BY <2>1, <2>2, Zenon
<1>6. EndsCut(text) <=> EndsCut(x)
  <2>1. EndsCut(text) <=> L + M > 0 /\ text[L + M] = "<"
    BY <1>3, CutIs, Zenon
  <2>2. EndsCut(x) <=> M > 0 /\ x[M] = "<"
    BY <1>2, CutIs, Zenon
  <2>3. L + M > 0 /\ text[L + M] = x[M]
    BY <1>1, <1>2, <1>3
  <2> QED
    BY <1>2, <2>1, <2>2, <2>3, Zenon
<1>7. EndsCut(x) => M = 1 /\ h = 0 /\ x = <<"<">>
  <2>1. x = <<"<">> => M = 1
    BY <1>2
  <2> QED
    BY <1>4, <2>1, Zenon
<1>8. EndsCut(text) /\ L + M > 1 => text[(L + M) - 1] # "<"
  <2>1. M = 1 /\ L + M > 1 => L > 0 /\ (L + M) - 1 = L /\ text[L] = old[L]
    BY <1>1, <1>2, <1>3
  <2>2. EndsCut(x) => ~EndsCut(old)
    OBVIOUS
  <2>3. EndsCut(text) /\ L + M > 1 => L > 0 /\ (L + M) - 1 = L /\ text[L] = old[L] /\ ~EndsCut(old)
    BY <1>6, <1>7, <2>1, <2>2, Zenon
  <2> QED
    BY <1>5, <2>3, Zenon
<1>9. PICK j \in 0..L : j = L - h
  <2>1. EndsCut(old) \/ ~EndsCut(old)
    OBVIOUS
  <2>2. h = 0 \/ L > 0
    BY <1>4, <1>5, <2>1, Zenon
  <2>3. L - h \in 0..L
    BY <1>1, <2>2
  <2> QED
    BY <2>3
<1>10. held \o x = SubSeq(text, j + 1, L + M)
  <2>1. PICK a : a = held \o x
    OBVIOUS
  <2>2. PICK b : b = SubSeq(text, j + 1, L + M)
    OBVIOUS
  <2>3. /\ a \in Seq(Symbols) /\ Len(a) = h + M
        /\ \A n \in 1..h + M : a[n] = IF n <= h THEN held[n] ELSE x[n - h]
    BY <1>2, <1>4, <2>1, ConcatProperties DEF Text
  <2>4. /\ b \in Seq(Symbols) /\ Len(b) = h + M
        /\ \A n \in 1..h + M : b[n] = text[j + n]
    <3>1. /\ j + 1 \in 1..Len(text) + 1 /\ L + M \in (j + 1) - 1..Len(text)
          /\ (L + M) - (j + 1) + 1 = h + M
      BY <1>1, <1>2, <1>3, <1>9
    <3>2. /\ b \in Text /\ Len(b) = h + M
          /\ \A n \in 1..h + M : b[n] = text[(j + 1) + n - 1]
      BY <2>2, <3>1, PartOfText
    <3>3. \A n \in 1..h + M : (j + 1) + n - 1 = j + n
      BY <1>4, <1>2, <1>9
    <3> QED
      BY <3>2, <3>3 DEF Text
  <2>5. ASSUME NEW n \in 1..h + M PROVE a[n] = b[n]
    <3>1. CASE n <= h
      <4>1. h = 1 /\ h # 0 /\ n = 1 /\ j + n = L
        BY <1>1, <1>2, <1>9, <3>1
      <4>2. EndsCut(old)
        BY <1>4, <4>1, Zenon
      <4>3. held[1] = "<" /\ old[L] = "<" /\ L \in 1..L
        <5>1. held = <<"<">> /\ old[L] = "<" /\ L > 0
          BY <1>4, <1>5, <4>2, Zenon
        <5> QED
          BY <1>1, <5>1
      <4> QED
        BY <1>3, <2>3, <2>4, <3>1, <4>1, <4>3
    <3>2. CASE ~(n <= h)
      <4>1. n - h \in 1..M /\ j + n = L + (n - h)
        BY <1>1, <1>2, <1>4, <1>9, <3>2
      <4>2. text[L + (n - h)] = x[n - h]
        BY <1>3, <4>1
      <4> QED
        BY <2>3, <2>4, <3>2, <4>1, <4>2
    <3> QED
      BY <3>1, <3>2
  <2>6. a = b
    BY <2>3, <2>4, <2>5, SeqEqual
  <2> QED
    BY <2>1, <2>2, <2>6
<1>11. inThink = Inside(text)[j]
  <2>1. inThink = Inside(old)[L]
    BY <1>1, Zenon DEF ParsedUpTo
  <2>2. Inside(old)[j] = Inside(old)[L]
    <3>1. CASE EndsCut(old)
      <4>1. j = L - 1
        BY <1>4, <1>9, <3>1
      <4>2. Inside(old)[L - 1] = Inside(old)[L]
        BY <1>1, <3>1, CutInside, Zenon
      <4> QED
        BY <4>1, <4>2, Zenon
    <3>2. CASE ~EndsCut(old)
      <4>1. j = L
        BY <1>1, <1>4, <1>9, <3>2
      <4> QED
        BY <4>1, Zenon
    <3> QED
      BY <3>1, <3>2, Zenon
  <2>3. Inside(text)[j] = Inside(old)[j]
    BY <1>1, <1>3, <1>9, InsidePrefix, Zenon
  <2> QED
    BY <2>1, <2>2, <2>3, Zenon
<1>12. response = Before(text, j)
  <2>1. response = Before(old, j)
    BY <1>1, <1>4, <1>9 DEF ParsedUpTo
  <2>2. Before(text, j) = Before(old, j)
    BY <1>1, <1>3, <1>4, <1>9, BeforePrefix
  <2> QED
    BY <2>1, <2>2
<1>13. BetweenTags(text, j)
  <2>1. j > 0 => text[j] # "<"
    <3>1. j > 0 => j \in 1..L /\ text[j] = old[j]
      BY <1>3, <1>9
    <3>2. CASE EndsCut(old)
      <4>1. h = 1
        BY <1>4, <3>2, Zenon
      <4>2. j = L - 1 /\ (j > 0 => L > 1)
        BY <1>1, <1>9, <4>1
      <4> QED
        BY <1>5, <3>1, <3>2, <4>2
    <3>3. CASE ~EndsCut(old)
      <4>1. j = L
        BY <1>1, <1>4, <1>9, <3>3
      <4> QED
        BY <1>5, <3>1, <3>3, <4>1
    <3> QED
      BY <3>2, <3>3
  <2>2. M = 1 /\ h = 0 => j = (L + M) - 1
    BY <1>1, <1>9
  <2>3. EndsCut(text) => j = (L + M) - 1
    BY <1>6, <1>7, <2>2, Zenon
  <2> QED
    BY <1>3, <2>1, <2>3, Zenon DEF BetweenTags
<1>14. Reading(FirstRound(inThink, held \o x), text, response, j)
  <2>1. PICK s : s = FirstRound(inThink, held \o x)
    OBVIOUS
  <2>2. s.rest = held \o x /\ s.inThink = inThink /\ s.held = <<>> /\ s.out = <<>>
    BY <2>1 DEF FirstRound
  <2>3. TextOf(<<>>, FALSE) = <<>>
    <3>1. [i \in DOMAIN <<>> |-> IF <<>>[i].thinking = FALSE THEN <<>>[i].text ELSE <<>>] = <<>>
      OBVIOUS
    <3> QED
      BY <3>1, FlattenEmpty DEF TextOf
  <2>4. response \o TextOf(s.out, FALSE) = Before(text, j - Len(s.held))
    <3>1. response \o <<>> = response
      BY ConcatEmptySeq
    <3>2. Len(s.held) = 0 /\ j - 0 = j
      BY <1>9, <2>2
    <3> QED
      BY <1>12, <2>2, <2>3, <3>1, <3>2
  <2>5. s.rest # <<>>
    <3>1. Len(held \o x) = h + M
      BY <1>2, <1>4, ConcatProperties DEF Text
    <3>2. h + M # 0
      BY <1>2, <1>4
    <3> QED
      BY <2>2, <3>1, <3>2
  <2>6. j \in 0..Len(text)
    BY <1>1, <1>2, <1>3, <1>9
  <2>7. s.rest = SubSeq(text, j + 1, Len(text))
    BY <1>3, <1>10, <2>2
  <2>8. s.inThink = Inside(text)[j]
    BY <1>11, <2>2, Zenon
  <2>9. Reading(s, text, response, j)
    BY <1>13, <2>2, <2>4, <2>5, <2>6, <2>7, <2>8 DEF Reading
  <2> QED
    BY <2>1, <2>9
<1> QED
  BY <1>3, <1>6, <1>8, <1>9, <1>14 DEF Fed

LEMMA ChunkParsed ==
  ASSUME NEW inThink \in BOOLEAN, NEW held \in Text, NEW response \in Seq(Symbols),
         NEW old \in Text, NEW x \in Text, x # <<>>,
         ParsedUpTo(inThink, held, response, old),
         EndsCut(x) => x = <<"<">> /\ ~EndsCut(old),
         NEW scan, scan = Scan(inThink, held, x)
  PROVE  ParsedUpTo(scan.inThink, scan.held, response \o TextOf(scan.out, FALSE), old \o x)
<1>0. Fed(inThink, held, response, old, x)
  BY ChunkFed
<1>1. PICK text \in Text : text = old \o x
  BY ConcatProperties DEF Text
<1>2. PICK j \in Nat : Reading(FirstRound(inThink, held \o x), text, response, j)
  BY <1>0, <1>1, Zenon DEF Fed
<1>3. PICK s \in ScanState :
         /\ Scan(inThink, held, x) = [inThink |-> s.inThink, held |-> s.held, out |-> s.out]
         /\ Reading(s, text, response, Len(text)) /\ s.rest = <<>>
  BY <1>2, ChunkRead
<1>4. scan.inThink = s.inThink /\ scan.held = s.held /\ scan.out = s.out
  BY <1>3
<1>5. EndsCut(text) /\ Len(text) > 1 => text[Len(text) - 1] # "<"
  BY <1>0, <1>1, Zenon DEF Fed
<1>6. /\ s.inThink = Inside(text)[Len(text)] /\ s.held = HeldOf(text)
      /\ response \o TextOf(s.out, FALSE) = Before(text, Len(text) - Len(s.held))
  BY <1>3 DEF Reading
<1>7. ParsedUpTo(scan.inThink, scan.held, response \o TextOf(scan.out, FALSE), text)
  BY <1>4, <1>5, <1>6, Zenon DEF ParsedUpTo
<1> QED
  BY <1>1, <1>7

LEMMA ParsedAnswer ==
  ASSUME NEW text \in Text, NEW inThink \in BOOLEAN, NEW held, NEW response,
         ParsedUpTo(inThink, held, response, text)
  PROVE  response \o (IF inThink THEN <<>> ELSE held) = Answer(text)
<1>1. PICK N \in Nat : N = Len(text) /\ Answer(text) = Before(text, N) /\ N \in 0..Len(text)
  BY BeforeIs, LenProperties DEF Text
<1>2. Before(text, N) \in Seq(Symbols)
  BY <1>1, BeforeIs
<1>3. /\ inThink = Inside(text)[N] /\ held = HeldOf(text)
      /\ response = Before(text, N - Len(held))
  BY <1>1, Zenon DEF ParsedUpTo
<1>4. CASE ~EndsCut(text)
  <2>1. held = <<>> /\ Len(held) = 0 /\ N - 0 = N
    BY <1>3, <1>4, CutIs
  <2>2. PICK a \in Seq(Symbols) : a = Before(text, N) /\ a \o <<>> = a
    BY <1>2, ConcatEmptySeq
  <2>3. (IF inThink THEN <<>> ELSE held) = <<>>
    BY <2>1
  <2> QED
    BY <1>1, <1>3, <2>1, <2>2, <2>3
<1>5. CASE EndsCut(text)
  <2>1. held = <<"<">> /\ Len(held) = 1
    BY <1>3, <1>5, CutIs
  <2>2. N > 0 /\ text[N] = "<" /\ N \in 1..Len(text)
    <3>1. N > 0 /\ text[N] = "<"
      BY <1>1, <1>5, CutIs, Zenon
    <3> QED
      BY <1>1, <3>1
  <2>3. Inside(text)[N - 1] = Inside(text)[N]
    BY <1>1, <1>5, CutInside, Zenon
  <2>4. Before(text, N) = Before(text, N - 1) \o PartAt(text, N)
    BY <2>2, BeforeIs
  <2>5. AnswerAt(text, N) <=> ~inThink
    <3>1. ~(N < Len(text))
      BY <1>1
    <3> QED
      BY <1>3, <2>3, <3>1, Zenon DEF AnswerAt
  <2>6. PartAt(text, N) = IF inThink THEN <<>> ELSE held
    BY <2>1, <2>2, <2>5, Zenon DEF PartAt
  <2> QED
    BY <1>1, <1>3, <2>1, <2>4, <2>6
<1> QED
  BY <1>4, <1>5
-----------------------------------------------------------------------------
(* A stream that grows by a piece.                                         *)
LEMMA PrefixIs ==
  ASSUME NEW S, NEW s \in Seq(S), NEW m \in 0..Len(s)
  PROVE  /\ SubSeq(s, 1, m) \in Seq(S) /\ Len(SubSeq(s, 1, m)) = m
         /\ \A k \in 1..m : SubSeq(s, 1, m)[k] = s[k]
<1>1. m \in Int /\ m - 1 + 1 = m /\ (~(1 <= m) => m = 0) /\ \A k \in 1..m : 1 + k - 1 = k
  BY LenProperties
<1>2. \A k \in 1..m : s[k] \in S
  <2>1. \A k \in 1..m : k \in 1..Len(s)
    BY LenProperties
  <2> QED
    BY <2>1, ElementOfSeq
<1>3. /\ SubSeq(s, 1, m) \in Seq(S)
      /\ Len(SubSeq(s, 1, m)) = IF 1 <= m THEN m - 1 + 1 ELSE 0
      /\ \A k \in 1..m - 1 + 1 : SubSeq(s, 1, m)[k] = s[1 + k - 1]
  BY <1>1, <1>2, SubSeqProperties
<1> QED
  BY <1>1, <1>3

LEMMA StreamGrows ==
  ASSUME NEW pieces \in Seq(PieceType), NEW piece \in PieceType, NEW new, new = Append(pieces, piece)
  PROVE  /\ new \in Seq(PieceType)
         /\ TagsAtChunkStart(new) => TagsAtChunkStart(pieces)
         /\ TagsAtChunkStart(new) /\ ~piece.thinking /\ EndsCut(piece.text) =>
               piece.text = <<"<">> /\ ~StreamCut(pieces)
         /\ ~piece.thinking => (StreamCut(new) <=> EndsCut(piece.text))
         /\ piece.thinking => (StreamCut(new) <=> StreamCut(pieces))
<1>1. PICK n \in Nat : n = Len(pieces) /\ DOMAIN pieces = 1..n
  BY LenProperties
<1>2. /\ new \in Seq(PieceType) /\ DOMAIN new = 1..n + 1
      /\ \A i \in 1..n : new[i] = pieces[i]
      /\ new[n + 1] = piece
  BY <1>1, AppendProperties, LenProperties
<1>3. \A i \in 1..n + 1 : i \in 1..n \/ i = n + 1
  BY <1>1
<1>4. \A i \in 1..n : i \in 1..n + 1 /\ n + 1 > i /\ ~(i > n + 1)
  BY <1>1
<1>5. n + 1 \in 1..n + 1 /\ ~(n + 1 > n + 1) /\ (n + 1) - 1 = n /\ n + 1 \notin 1..n
  BY <1>1
<1>6. \A i \in 1..n + 1 : SubSeq(new, 1, i - 1) = SubSeq(pieces, 1, i - 1)
  <2> TAKE i \in 1..n + 1
  <2>1. PICK m \in 0..n : m = i - 1
    BY <1>1
  <2>2. \A k \in 1..m : k \in 1..n
    BY <1>1
  <2>3. m \in 0..Len(new) /\ m \in 0..Len(pieces)
    BY <1>1, <1>2, LenProperties
  <2>4. /\ SubSeq(new, 1, m) \in Seq(PieceType) /\ Len(SubSeq(new, 1, m)) = m
        /\ \A k \in 1..m : SubSeq(new, 1, m)[k] = new[k]
    BY <1>2, <2>3, PrefixIs
  <2>5. /\ SubSeq(pieces, 1, m) \in Seq(PieceType) /\ Len(SubSeq(pieces, 1, m)) = m
        /\ \A k \in 1..m : SubSeq(pieces, 1, m)[k] = pieces[k]
    BY <2>3, PrefixIs
  <2>6. SubSeq(new, 1, m) = SubSeq(pieces, 1, m)
    BY <1>2, <2>2, <2>4, <2>5, SeqEqual
  <2> QED
    BY <2>1, <2>6
<1>7. SubSeq(new, 1, n) = pieces
  <2>1. SubSeq(new, 1, (n + 1) - 1) = SubSeq(pieces, 1, (n + 1) - 1)
    BY <1>5, <1>6
  <2>2. SubSeq(pieces, 1, n) = pieces
    BY <1>1, SubSeqFull
  <2> QED
    BY <1>5, <2>1, <2>2
<1>8. TagsAtChunkStart(new) => TagsAtChunkStart(pieces)
  <2>1. SUFFICES ASSUME TagsAtChunkStart(new), NEW i \in 1..n, ~pieces[i].thinking, EndsCut(pieces[i].text)
                 PROVE  pieces[i].text = <<"<">> /\ ~StreamCut(SubSeq(pieces, 1, i - 1))
    BY <1>1, Zenon DEF TagsAtChunkStart
  <2>2. i \in DOMAIN new /\ new[i] = pieces[i] /\ SubSeq(new, 1, i - 1) = SubSeq(pieces, 1, i - 1)
    BY <1>2, <1>4, <1>6
  <2> QED
    BY <2>1, <2>2, Zenon DEF TagsAtChunkStart
<1>9. TagsAtChunkStart(new) /\ ~piece.thinking /\ EndsCut(piece.text) =>
         piece.text = <<"<">> /\ ~StreamCut(pieces)
  <2>1. PICK i : i \in DOMAIN new /\ new[i] = piece /\ SubSeq(new, 1, i - 1) = pieces
    BY <1>2, <1>5, <1>7
  <2> QED
    BY <2>1, Zenon DEF TagsAtChunkStart
<1>10. ASSUME ~piece.thinking PROVE StreamCut(new) <=> EndsCut(piece.text)
  <2>1. ASSUME StreamCut(new) PROVE EndsCut(piece.text)
    <3>1. PICK i \in DOMAIN new :
             EndsCut(new[i].text) /\ \A j \in DOMAIN new : j > i => new[j].thinking
      BY <2>1, Zenon DEF StreamCut
    <3>2. i \notin 1..n
      BY <1>2, <1>4, <1>5, <1>10, <3>1, Zenon
    <3>3. i = n + 1
      BY <1>2, <1>3, <3>2
    <3> QED
      BY <1>2, <3>1, <3>3, Zenon
  <2>2. ASSUME EndsCut(piece.text) PROVE StreamCut(new)
    <3>1. PICK i : /\ i \in DOMAIN new /\ new[i] = piece
                   /\ \A j \in DOMAIN new : ~(j > i)
      <4>1. \A j \in 1..n + 1 : ~(j > n + 1)
        BY <1>4, <1>5, <1>3
      <4> QED
        BY <1>2, <1>5, <4>1
    <3> QED
      BY <1>10, <2>2, <3>1, Zenon DEF StreamCut
  <2> QED
    BY <2>1, <2>2, Zenon
<1>11. ASSUME piece.thinking PROVE StreamCut(new) <=> StreamCut(pieces)
  <2>1. ASSUME StreamCut(new) PROVE StreamCut(pieces)
    <3>1. PICK i \in DOMAIN new :
             /\ ~new[i].thinking /\ EndsCut(new[i].text)
             /\ \A j \in DOMAIN new : j > i => new[j].thinking
      BY <2>1, Zenon DEF StreamCut
    <3>2. i # n + 1
      BY <1>2, <1>11, <3>1, Zenon
    <3>3. i \in 1..n
      BY <1>2, <1>3, <3>2
    <3>4. \A j \in 1..n : j \in DOMAIN new /\ new[j] = pieces[j]
      BY <1>2, <1>4
    <3>5. /\ ~pieces[i].thinking /\ EndsCut(pieces[i].text)
          /\ \A j \in 1..n : j > i => pieces[j].thinking
      BY <3>1, <3>3, <3>4, Zenon
    <3> QED
      BY <1>1, <3>3, <3>5, Zenon DEF StreamCut
  <2>2. ASSUME StreamCut(pieces) PROVE StreamCut(new)
    <3>1. PICK i \in DOMAIN pieces :
             /\ ~pieces[i].thinking /\ EndsCut(pieces[i].text)
             /\ \A j \in DOMAIN pieces : j > i => pieces[j].thinking
      BY <2>2, Zenon DEF StreamCut
    <3>2. i \in DOMAIN new /\ ~new[i].thinking /\ EndsCut(new[i].text)
      BY <1>1, <1>2, <1>4, <3>1, Zenon
    <3>3. \A j \in DOMAIN new : j > i => new[j].thinking
      BY <1>1, <1>2, <1>3, <1>11, <3>1, Zenon
    <3> QED
      BY <3>2, <3>3, Zenon DEF StreamCut
  <2> QED
    BY <2>1, <2>2, Zenon
<1> QED
  BY <1>2, <1>8, <1>9, <1>10, <1>11, Zenon

(* What the parser of a prompt has made of the pieces sent so far.         *)
ParserState(inThink, held, response, pieces) ==
    /\ TagsAtChunkStart(pieces) => ParsedUpTo(inThink, held, response, TextOf(pieces, FALSE))
    /\ EndsCut(TextOf(pieces, FALSE)) <=> StreamCut(pieces)

Parsing == \A p \in Prompts :
              ParserState(prompt[p].inThink, prompt[p].held, prompt[p].response, sent[p])

LEMMA ContentRead ==
  ASSUME NEW inThink \in BOOLEAN, NEW held \in Text, NEW response \in Seq(Symbols),
         NEW pieces \in Seq(PieceType), NEW x \in Text, x # <<>>,
         ParserState(inThink, held, response, pieces),
         NEW scan, scan = Scan(inThink, held, x), NEW new, new = Append(pieces, Piece(FALSE, x))
  PROVE  ParserState(scan.inThink, scan.held, response \o TextOf(scan.out, FALSE), new)
<1>1. PICK piece \in PieceType : piece = Piece(FALSE, x) /\ piece.thinking = FALSE /\ piece.text = x
  BY PieceIs, Zenon
<1>2. PICK old \in Text : old = TextOf(pieces, FALSE)
  BY TextOfType
<1>3. TextOf(new, FALSE) = old \o x
  <2>1. TextOf(Append(pieces, piece), FALSE) =
          TextOf(pieces, FALSE) \o (IF piece.thinking = FALSE THEN piece.text ELSE <<>>)
    BY TextOfAppend
  <2>2. (IF piece.thinking = FALSE THEN piece.text ELSE <<>>) = x
    BY <1>1, Zenon
  <2> QED
    BY <1>1, <1>2, <2>1, <2>2, Zenon
<1>4. /\ TagsAtChunkStart(new) => TagsAtChunkStart(pieces)
      /\ TagsAtChunkStart(new) /\ EndsCut(x) => x = <<"<">> /\ ~StreamCut(pieces)
      /\ StreamCut(new) <=> EndsCut(x)
  <2>1. new = Append(pieces, piece)
    BY <1>1
  <2> QED
    BY <1>1, <2>1, StreamGrows, Zenon
<1>5. EndsCut(old) <=> StreamCut(pieces)
  BY <1>2, Zenon DEF ParserState
<1>6. EndsCut(old \o x) <=> EndsCut(x)
  <2>1. PICK L, M : /\ L = Len(old) /\ M = Len(x) /\ L \in Nat /\ M \in Nat /\ M > 0
                    /\ Len(old \o x) = L + M /\ (old \o x)[L + M] = x[M] /\ L + M > 0
    <3>1. Len(old) \in Nat /\ Len(x) \in Nat /\ Len(x) > 0
      BY EmptySeq, LenProperties DEF Text
    <3>2. /\ Len(old \o x) = Len(old) + Len(x)
          /\ \A i \in 1..Len(old) + Len(x) :
                (old \o x)[i] = IF i <= Len(old) THEN old[i] ELSE x[i - Len(old)]
      BY ConcatProperties DEF Text
    <3>3. /\ Len(old) + Len(x) \in 1..Len(old) + Len(x) /\ ~(Len(old) + Len(x) <= Len(old))
          /\ (Len(old) + Len(x)) - Len(old) = Len(x) /\ Len(old) + Len(x) > 0
      BY <3>1
    <3>4. (old \o x)[Len(old) + Len(x)] = x[Len(x)]
      BY <3>2, <3>3
    <3> QED
      BY <3>1, <3>2, <3>3, <3>4
  <2>2. PICK text \in Text : text = old \o x
    BY ConcatProperties DEF Text
  <2>3. EndsCut(text) <=> Len(text) > 0 /\ text[Len(text)] = "<"
    BY CutIs, Zenon
  <2>4. EndsCut(x) <=> Len(x) > 0 /\ x[Len(x)] = "<"
    BY CutIs, Zenon
  <2> QED
    BY <2>1, <2>2, <2>3, <2>4, Zenon
<1>7. ASSUME TagsAtChunkStart(new)
      PROVE  ParsedUpTo(scan.inThink, scan.held, response \o TextOf(scan.out, FALSE), old \o x)
  <2>1. ParsedUpTo(inThink, held, response, old)
    BY <1>2, <1>4, <1>7, Zenon DEF ParserState
  <2>2. EndsCut(x) => x = <<"<">> /\ ~EndsCut(old)
    BY <1>4, <1>5, <1>7, Zenon
  <2> QED
    BY <2>1, <2>2, ChunkParsed
<1> QED
  BY <1>3, <1>4, <1>6, <1>7, Zenon DEF ParserState

LEMMA ReasoningRead ==
  ASSUME NEW inThink, NEW held, NEW response, NEW pieces \in Seq(PieceType), NEW x \in Text,
         ParserState(inThink, held, response, pieces), NEW new, new = Append(pieces, Piece(TRUE, x))
  PROVE  ParserState(inThink, held, response, new)
<1>1. PICK piece \in PieceType : piece = Piece(TRUE, x) /\ piece.thinking = TRUE
  BY PieceIs, Zenon
<1>2. TextOf(new, FALSE) = TextOf(pieces, FALSE)
  <2>1. TextOf(Append(pieces, piece), FALSE) =
          TextOf(pieces, FALSE) \o (IF piece.thinking = FALSE THEN piece.text ELSE <<>>)
    BY TextOfAppend
  <2>2. (IF piece.thinking = FALSE THEN piece.text ELSE <<>>) = <<>>
    BY <1>1, Zenon
  <2>3. PICK a \in Seq(Symbols) : a = TextOf(pieces, FALSE) /\ a \o <<>> = a
    BY TextOfType, ConcatEmptySeq DEF Text
  <2> QED
    BY <1>1, <2>1, <2>2, <2>3, Zenon
<1>3. /\ TagsAtChunkStart(new) => TagsAtChunkStart(pieces)
      /\ StreamCut(new) <=> StreamCut(pieces)
  <2>1. new = Append(pieces, piece)
    BY <1>1
  <2> QED
    BY <1>1, <2>1, StreamGrows, Zenon
<1> QED
  BY <1>2, <1>3, Zenon DEF ParserState

(* A step feeds the parser of one prompt, or passes it by.                 *)
LEMMA ParsingStep == TypeOK /\ Parsing /\ [Next]_streamVars => Parsing'
<1> SUFFICES ASSUME TypeOK, Parsing, [Next]_streamVars, NEW q \in Prompts
             PROVE  ParserState(prompt'[q].inThink, prompt'[q].held, prompt'[q].response, sent'[q])
  BY DEF Parsing
<1>0. /\ prompt \in [Prompts -> PromptType] /\ sent \in [Prompts -> Seq(PieceType)]
      /\ \A p \in Prompts : prompt[p] \in PromptType
      /\ ParserState(prompt[q].inThink, prompt[q].held, prompt[q].response, sent[q])
  BY TypeIs DEF Parsing
<1> DEFINE Quiet == /\ sent'[q] = sent[q]
                    /\ prompt'[q].inThink = prompt[q].inThink /\ prompt'[q].held = prompt[q].held
                    /\ prompt'[q].response = prompt[q].response
<1>1. ASSUME Quiet
      PROVE  ParserState(prompt'[q].inThink, prompt'[q].held, prompt'[q].response, sent'[q])
  BY <1>0, <1>1
<1>2. CASE UNCHANGED streamVars
  BY <1>1, <1>2, Zenon DEF streamVars
<1>3. CASE LeaveChat \/ HandlePost
  BY <1>1, <1>3 DEF LeaveChat, HandlePost, goVars
<1>4. CASE CancelPrompt
  <2>1. Quiet
    BY <1>0, <1>4 DEF CancelPrompt, PromptType
  <2> QED
    BY <1>1, <2>1
<1>5. ASSUME NEW p \in Prompts,
             Send(p) \/ PromptRefused(p) \/ RegisterCancel(p) \/ PromptSucceeds(p)
                \/ PromptFails(p) \/ ReleaseCancel(p) \/ PromptDone(p)
      PROVE  ParserState(prompt'[q].inThink, prompt'[q].held, prompt'[q].response, sent'[q])
  <2>1. sent' = sent
    BY <1>5 DEF Send, PromptRefused, RegisterCancel, PromptSucceeds, PromptFails, ReleaseCancel, PromptDone
  <2>2. CASE Send(p)
    BY <1>0, <1>1, <2>1, <2>2 DEF Send, PromptType
  <2>3. CASE PromptRefused(p)
    BY <1>0, <1>1, <2>1, <2>3 DEF PromptRefused, PromptType
  <2>4. CASE RegisterCancel(p)
    BY <1>0, <1>1, <2>1, <2>4 DEF RegisterCancel, PromptType
  <2>5. CASE PromptSucceeds(p)
    BY <1>0, <1>1, <2>1, <2>5 DEF PromptSucceeds, PromptType
  <2>6. CASE ReleaseCancel(p)
    BY <1>0, <1>1, <2>1, <2>6 DEF ReleaseCancel, PromptType
  <2>7. CASE PromptDone(p)
    BY <1>0, <1>1, <2>1, <2>7 DEF PromptDone, PromptType
  <2>8. CASE PromptFails(p)
    <3>1. PICK o : prompt' = [prompt EXCEPT ![p].pc = "returned", ![p].outcome = o]
      BY <2>8 DEF PromptFails
    <3> QED
      BY <1>0, <1>1, <2>1, <3>1 DEF PromptType
  <2> QED
    BY <1>5, <2>2, <2>3, <2>4, <2>5, <2>6, <2>7, <2>8
<1>6. ASSUME NEW p \in Prompts, Streams(p)
      PROVE  ParserState(prompt'[q].inThink, prompt'[q].held, prompt'[q].response, sent'[q])
  <2>1. PICK piece \in Provider[p] :
           IF piece.thinking THEN ReasoningChunk(p, piece.text) ELSE ContentChunk(p, piece.text)
    BY <1>6 DEF Streams
  <2>2. PICK x \in Text : x = piece.text /\ x # <<>>
    <3>1. Provider[p] \subseteq [thinking : BOOLEAN, text : Seq(Symbols) \ {<<>>}]
      BY StreamAssumption
    <3>2. piece.text \in Seq(Symbols) \ {<<>>}
      BY <2>1, <3>1
    <3> QED
      BY <3>2 DEF Text
  <2>3. CASE ReasoningChunk(p, x)
    <3>1. prompt' = prompt /\ sent' = [sent EXCEPT ![p] = Append(@, Piece(TRUE, x))]
      BY <2>3 DEF ReasoningChunk
    <3>2. CASE q # p
      BY <1>0, <1>1, <3>1, <3>2
    <3>3. CASE q = p
      <4>1. PICK new : new = Append(sent[q], Piece(TRUE, x))
        OBVIOUS
      <4>2. sent'[q] = new
        BY <1>0, <3>1, <3>3, <4>1
      <4>3. PICK pieces \in Seq(PieceType) : pieces = sent[q]
        BY <1>0
      <4>4. ParserState(prompt[q].inThink, prompt[q].held, prompt[q].response, new)
        BY <1>0, <4>1, <4>3, ReasoningRead
      <4> QED
        BY <3>1, <4>2, <4>4
    <3> QED
      BY <3>2, <3>3
  <2>4. CASE ContentChunk(p, x)
    <3>1. PICK scan : scan = Scan(prompt[p].inThink, prompt[p].held, x)
      OBVIOUS
    <3>2. PICK said : said = prompt[p].response \o TextOf(scan.out, FALSE)
      OBVIOUS
    <3>3. /\ prompt' = [prompt EXCEPT ![p].inThink = scan.inThink, ![p].held = scan.held,
                                      ![p].response = said]
          /\ sent' = [sent EXCEPT ![p] = Append(@, Piece(FALSE, x))]
      BY <1>0, <2>4, <3>1, <3>2 DEF ContentChunk, PromptType
    <3>4. CASE q # p
      BY <1>0, <1>1, <3>3, <3>4
    <3>5. CASE q = p
      <4>1. PICK new : new = Append(sent[q], Piece(FALSE, x))
        OBVIOUS
      <4>2. sent'[q] = new
        BY <1>0, <3>3, <3>5, <4>1
      <4>3. PICK inThink, held, response, pieces :
               /\ inThink = prompt[q].inThink /\ held = prompt[q].held
               /\ response = prompt[q].response /\ pieces = sent[q]
        OBVIOUS
      <4>4. /\ inThink \in BOOLEAN /\ held \in Text /\ response \in Seq(Symbols)
            /\ pieces \in Seq(PieceType)
        BY <1>0, <4>3 DEF PromptType, Text
      <4>5. ParserState(inThink, held, response, pieces)
        BY <1>0, <4>3
      <4>6. scan = Scan(inThink, held, x) /\ new = Append(pieces, Piece(FALSE, x))
            /\ said = response \o TextOf(scan.out, FALSE)
        BY <3>1, <3>2, <3>5, <4>1, <4>3
      <4>7. ParserState(scan.inThink, scan.held, response \o TextOf(scan.out, FALSE), new)
        BY <2>2, <4>4, <4>5, <4>6, ContentRead
      <4>8. /\ prompt'[q].inThink = scan.inThink /\ prompt'[q].held = scan.held
            /\ prompt'[q].response = said
        BY <1>0, <3>3, <3>5 DEF PromptType
      <4> QED
        BY <4>2, <4>6, <4>7, <4>8
    <3> QED
      BY <3>4, <3>5
  <2> QED
    BY <2>1, <2>2, <2>3, <2>4
<1> QED
  BY <1>2, <1>3, <1>4, <1>5, <1>6 DEF Next

LEMMA InitParsing == Init => Parsing
<1> SUFFICES ASSUME Init, NEW p \in Prompts
             PROVE  ParserState(prompt[p].inThink, prompt[p].held, prompt[p].response, sent[p])
  BY DEF Parsing
<1>1. /\ prompt[p].inThink = FALSE /\ prompt[p].held = <<>> /\ prompt[p].response = <<>>
      /\ sent[p] = <<>>
  BY DEF Init
<1>2. PICK text \in Text : text = <<>> /\ Len(text) = 0
  BY EmptySeq DEF Text
<1>3. TextOf(<<>>, FALSE) = text
  <2>1. [i \in DOMAIN <<>> |-> IF <<>>[i].thinking = FALSE THEN <<>>[i].text ELSE <<>>] = <<>>
    OBVIOUS
  <2> QED
    BY <1>2, <2>1, FlattenEmpty DEF TextOf
<1>4. ~EndsCut(text) /\ HeldOf(text) = <<>> /\ ~StreamCut(<<>>)
  BY <1>2 DEF EndsCut, HeldOf, StreamCut
<1>5. ParsedUpTo(FALSE, <<>>, <<>>, text)
  <2>1. Inside(text)[Len(text)] = FALSE
    BY <1>2, InsideIs, Zenon
  <2>2. Before(text, 0) = <<>> /\ 0 - 0 = 0
    BY BeforeIs
  <2> QED
    BY <1>2, <1>4, <2>1, <2>2 DEF ParsedUpTo
<1>6. ParserState(FALSE, <<>>, <<>>, <<>>)
  BY <1>3, <1>4, <1>5, Zenon DEF ParserState
<1> QED
  BY <1>1, <1>6, Zenon

LEMMA AnswersParsed == TypeOK /\ Parsing => ResponseIsAnswer
<1> SUFFICES ASSUME TypeOK, Parsing, NEW p \in Prompts, TagsAtChunkStart(sent[p])
             PROVE  prompt[p].response \o (IF prompt[p].inThink THEN <<>> ELSE prompt[p].held)
                       = Answer(TextOf(sent[p], FALSE))
  BY DEF ResponseIsAnswer, Parsed, Received
<1>1. PICK text \in Text : text = TextOf(sent[p], FALSE)
  BY TypeIs, TextOfType
<1>2. PICK inThink \in BOOLEAN : inThink = prompt[p].inThink
  BY TypeIs DEF PromptType
<1>3. ParsedUpTo(inThink, prompt[p].held, prompt[p].response, text)
  BY <1>1, <1>2, Zenon DEF Parsing, ParserState
<1> QED
  BY <1>1, <1>2, <1>3, ParsedAnswer

(* However the stream is cut into chunks, as long as a cut tag begins its  *)
(* chunk, the response is the text outside the tags, but for a "<" that is *)
(* still held back.                                                        *)
THEOREM AnswersAreText == Spec => []ResponseIsAnswer
  BY InitParsing, ParsingStep, AnswersParsed, TypeCorrect, PTL DEF Spec
=============================================================================
