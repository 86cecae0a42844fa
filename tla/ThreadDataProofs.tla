-------------------------- MODULE ThreadDataProofs --------------------------
(***************************************************************************)
(* No call of the dispatcher finds its object missing, for every number of *)
(* roots, every bound and every way the Event subclasses use their turns.  *)
(*                                                                         *)
(* The argument follows the queue: messages are appended and taken from    *)
(* the front only, so a call is safe if its object is alive or constructed *)
(* by an earlier message, and no earlier message deletes it.  A parent can *)
(* go on calling a child because a deletion of the child is queued only in *)
(* the step in which the parent lets go of it, and a child has one parent. *)
(* The predicates below are stated of a queue Q, the live objects' sets of *)
(* children K and a bound n on the ids in use, and one lemma says how each *)
(* part of a step (taking the head, appending the constructions, the calls *)
(* or the deletions of a turn) keeps them.                                 *)
(*                                                                         *)
(* Two more invariants rest on this one.  ProcInv: an id that a queued     *)
(* message will enter in a table is new and nobody else in the queue has   *)
(* it, so proc_to_dat and obj_info stay in agreement.  AnswerInv: whoever  *)
(* a message, an operation or a procedure names as its caller has started, *)
(* and while its object lives it knows the calls it made.                  *)
(***************************************************************************)
EXTENDS ThreadData, FiniteSetTheorems, TLAPS

Kids == [o \in Live |-> objs[o].children]

Is(Q, kind, o, i) == Q[i].kind = kind /\ Q[i].ti.obj = o
Waits(Q, kind, o) == \E i \in 1 .. Len(Q) : Is(Q, kind, o, i)

CallsSafe(Q, K) ==
    \A i \in 1 .. Len(Q) : Q[i].kind = "call" =>
        /\ \/ Q[i].ti.obj \in DOMAIN K
           \/ \E j \in 1 .. i - 1 : Is(Q, "construct", Q[i].ti.obj, j)
        /\ \A j \in 1 .. i - 1 : ~Is(Q, "delete", Q[i].ti.obj, j)

\* A child that its parent holds is there or on its way, and not on its way out.
KidsSafe(Q, K) ==
    \A p \in DOMAIN K : \A c \in K[p] :
        /\ c \in DOMAIN K \/ Waits(Q, "construct", c)
        /\ ~Waits(Q, "delete", c)

OneParent(K) ==
    \A p, r \in DOMAIN K : \A c \in K[p] : c \in K[r] => p = r

\* Nobody deletes a root.
RootsSafe(Q, K) ==
    \A i \in 1 .. Len(Q) : Q[i].kind = "root" =>
        /\ ~Waits(Q, "delete", Q[i].ti.obj)
        /\ \A p \in DOMAIN K : Q[i].ti.obj \notin K[p]

\* Ids from n on are in no set of children and no message but data.
Fresh(Q, K, n) ==
    /\ \A i \in 1 .. Len(Q) :
          Q[i].kind \notin {"io", "done"} => Q[i].ti.obj < n
    /\ \A p \in DOMAIN K : \A c \in K[p] : c < n

KidsType(K) == K \in [DOMAIN K -> SUBSET Int]

Safe(Q, K, n) ==
    /\ Q \in Seq(Message) /\ KidsType(K) /\ n \in Int
    /\ CallsSafe(Q, K) /\ KidsSafe(Q, K) /\ OneParent(K)
    /\ RootsSafe(Q, K) /\ Fresh(Q, K, n)

IInv == TypeOK /\ Safe(q, Kids, nextObj)
-----------------------------------------------------------------------------
(* Sequences.                                                               *)

\* What appending to the queue leaves where.
LEMMA ConcatAt ==
    ASSUME NEW Q \in Seq(Message), NEW W \in Seq(Message)
    PROVE  /\ Q \o W \in Seq(Message)
           /\ Len(Q \o W) = Len(Q) + Len(W)
           /\ \A i \in 1 .. Len(Q) : (Q \o W)[i] = Q[i]
           /\ \A i \in Len(Q) + 1 .. Len(Q) + Len(W) :
                 /\ i - Len(Q) \in 1 .. Len(W)
                 /\ (Q \o W)[i] = W[i - Len(Q)]
OBVIOUS

\* What popping the queue leaves where.
LEMMA TailAt ==
    ASSUME NEW Q \in Seq(Message), Q # <<>>
    PROVE  /\ Tail(Q) \in Seq(Message) /\ Head(Q) = Q[1] /\ Head(Q) \in Message
           /\ Len(Q) \in Nat \ {0} /\ Len(Tail(Q)) = Len(Q) - 1
           /\ \A i \in 1 .. Len(Q) - 1 : Tail(Q)[i] = Q[i + 1]
OBVIOUS

\* Appending anything but root messages adds none.
LEMMA RootConcat ==
    ASSUME NEW Q \in Seq(Message), NEW W \in Seq(Message),
           \A i \in 1 .. Len(W) : W[i].kind # "root",
           NEW i \in 1 .. Len(Q \o W), (Q \o W)[i].kind = "root"
    PROVE  i \in 1 .. Len(Q) /\ (Q \o W)[i] = Q[i]
<1>1. ASSUME i \in Len(Q) + 1 .. Len(Q) + Len(W)
      PROVE  FALSE
  BY <1>1, ConcatAt
<1>2. QED
  BY <1>1, ConcatAt

\* A message waits in the whole queue if it waits in one of its parts.
LEMMA WaitsConcat ==
    ASSUME NEW Q \in Seq(Message), NEW W \in Seq(Message), NEW k, NEW o
    PROVE  Waits(Q \o W, k, o) <=> Waits(Q, k, o) \/ Waits(W, k, o)
<1>1. ASSUME Waits(Q \o W, k, o)
      PROVE  Waits(Q, k, o) \/ Waits(W, k, o)
  <2>1. PICK i \in 1 .. Len(Q \o W) : Is(Q \o W, k, o, i)
    BY <1>1 DEF Waits
  <2>2. CASE i \in 1 .. Len(Q)
    BY <2>1, <2>2, ConcatAt DEF Waits, Is
  <2>3. CASE i \in Len(Q) + 1 .. Len(Q) + Len(W)
    BY <2>1, <2>3, ConcatAt DEF Waits, Is
  <2>4. QED
    BY <2>2, <2>3, ConcatAt
<1>2. ASSUME Waits(Q, k, o)
      PROVE  Waits(Q \o W, k, o)
  <2>1. PICK i \in 1 .. Len(Q) : Is(Q, k, o, i)
    BY <1>2 DEF Waits
  <2>2. i \in 1 .. Len(Q \o W) /\ (Q \o W)[i] = Q[i]
    BY ConcatAt
  <2>3. QED
    BY <2>1, <2>2 DEF Waits, Is
<1>3. ASSUME Waits(W, k, o)
      PROVE  Waits(Q \o W, k, o)
  <2>1. PICK i \in 1 .. Len(W) : Is(W, k, o, i)
    BY <1>3 DEF Waits
  <2>2. /\ Len(Q) + i \in 1 .. Len(Q \o W)
        /\ (Q \o W)[Len(Q) + i] = W[i]
    BY ConcatAt
  <2>3. QED
    BY <2>1, <2>2 DEF Waits, Is
<1>4. QED
  BY <1>1, <1>2, <1>3

\* A message that waits after the pop waited before it; one that waited is
\* the head or still waits.
LEMMA WaitsTail ==
    ASSUME NEW Q \in Seq(Message), Q # <<>>, NEW k, NEW o
    PROVE  Waits(Q, k, o) <=> Is(Q, k, o, 1) \/ Waits(Tail(Q), k, o)
<1>1. ASSUME Waits(Q, k, o), ~Is(Q, k, o, 1)
      PROVE  Waits(Tail(Q), k, o)
  <2>1. PICK i \in 1 .. Len(Q) : Is(Q, k, o, i)
    BY <1>1 DEF Waits
  <2>2. i # 1
    BY <1>1, <2>1
  <2>3. i - 1 \in 1 .. Len(Tail(Q)) /\ Tail(Q)[i - 1] = Q[i]
    BY <2>2, TailAt
  <2>4. QED
    BY <2>1, <2>3 DEF Waits, Is
<1>2. ASSUME Waits(Tail(Q), k, o)
      PROVE  Waits(Q, k, o)
  <2>1. PICK i \in 1 .. Len(Tail(Q)) : Is(Tail(Q), k, o, i)
    BY <1>2 DEF Waits
  <2>2. i + 1 \in 1 .. Len(Q) /\ Tail(Q)[i] = Q[i + 1]
    BY TailAt
  <2>3. QED
    BY <2>1, <2>2 DEF Waits, Is
<1>3. ASSUME Is(Q, k, o, 1)
      PROVE  Waits(Q, k, o)
  BY <1>3, TailAt DEF Waits
<1>4. QED
  BY <1>1, <1>2, <1>3
-----------------------------------------------------------------------------
(* Taking the head.                                                         *)

\* handle_dequeue pops a message that neither constructs nor deletes.
LEMMA SafeTail ==
    ASSUME NEW Q, NEW K, NEW n, Safe(Q, K, n), Q # <<>>,
           Head(Q).kind # "construct"
    PROVE  Safe(Tail(Q), K, n)
<1> DEFINE R == Tail(Q)
<1> USE DEF Safe
<1>1. /\ R \in Seq(Message) /\ Len(R) = Len(Q) - 1 /\ Len(Q) \in Nat \ {0}
      /\ \A i \in 1 .. Len(R) : R[i] = Q[i + 1] /\ i + 1 \in 1 .. Len(Q)
  BY TailAt
<1>2. Q[1].kind # "construct"
  BY TailAt
<1>3. CallsSafe(R, K)
  <2> SUFFICES ASSUME NEW i \in 1 .. Len(R), R[i].kind = "call"
               PROVE  /\ \/ R[i].ti.obj \in DOMAIN K
                         \/ \E j \in 1 .. i - 1 :
                               Is(R, "construct", R[i].ti.obj, j)
                      /\ \A j \in 1 .. i - 1 : ~Is(R, "delete", R[i].ti.obj, j)
    BY DEF CallsSafe
  <2> DEFINE o == R[i].ti.obj
  <2>1. Q[i + 1].kind = "call" /\ Q[i + 1].ti.obj = o /\ i + 1 \in 1 .. Len(Q)
    BY <1>1
  <2>2. \/ o \in DOMAIN K
        \/ \E j \in 1 .. i : Is(Q, "construct", o, j)
    BY <2>1 DEF CallsSafe
  <2>3. \A j \in 1 .. i : ~Is(Q, "delete", o, j)
    BY <2>1 DEF CallsSafe
  <2>4. ASSUME NEW j \in 1 .. i, Is(Q, "construct", o, j)
        PROVE  j - 1 \in 1 .. i - 1 /\ Is(R, "construct", o, j - 1)
    BY <1>1, <1>2, <2>4 DEF Is
  <2>5. ASSUME NEW j \in 1 .. i - 1
        PROVE  ~Is(R, "delete", o, j)
    BY <1>1, <2>3 DEF Is
  <2>6. QED
    BY <2>2, <2>4, <2>5
<1>4. \A o : /\ Waits(R, "construct", o) <=> Waits(Q, "construct", o)
             /\ Waits(R, "delete", o) => Waits(Q, "delete", o)
  BY <1>2, WaitsTail DEF Is
<1>5. KidsSafe(R, K)
  BY <1>4 DEF KidsSafe
<1>6. RootsSafe(R, K)
  BY <1>1, <1>4 DEF RootsSafe
<1>7. Fresh(R, K, n)
  BY <1>1 DEF Fresh
<1>8. QED
  BY <1>1, <1>3, <1>5, <1>6, <1>7

\* construct_call: the object is there once its construction is popped.
LEMMA SafeConstruct ==
    ASSUME NEW Q, NEW K, NEW n, Safe(Q, K, n), Q # <<>>,
           Head(Q).kind = "construct", NEW o, o = Head(Q).ti.obj
    PROVE  Safe(Tail(Q), [p \in DOMAIN K \union {o} |->
                              IF p \in DOMAIN K THEN K[p] ELSE {}], n)
<1> DEFINE R == Tail(Q)
           L == [p \in DOMAIN K \union {o} |->
                    IF p \in DOMAIN K THEN K[p] ELSE {}]
<1> USE DEF Safe
<1>1. /\ R \in Seq(Message) /\ Len(R) = Len(Q) - 1 /\ Len(Q) \in Nat \ {0}
      /\ \A i \in 1 .. Len(R) : R[i] = Q[i + 1] /\ i + 1 \in 1 .. Len(Q)
  BY TailAt
<1>2. Q[1].kind = "construct" /\ Q[1].ti.obj = o
  BY TailAt
<1>3. /\ KidsType(L) /\ DOMAIN L = DOMAIN K \union {o}
      /\ \A p \in DOMAIN K : L[p] = K[p]
      /\ \A p \in DOMAIN L : \A c \in L[p] : p \in DOMAIN K /\ c \in K[p]
  BY DEF KidsType
<1>4. CallsSafe(R, L)
  <2> SUFFICES ASSUME NEW i \in 1 .. Len(R), R[i].kind = "call"
               PROVE  /\ \/ R[i].ti.obj \in DOMAIN L
                         \/ \E j \in 1 .. i - 1 :
                               Is(R, "construct", R[i].ti.obj, j)
                      /\ \A j \in 1 .. i - 1 : ~Is(R, "delete", R[i].ti.obj, j)
    BY DEF CallsSafe
  <2> DEFINE c == R[i].ti.obj
  <2>1. Q[i + 1].kind = "call" /\ Q[i + 1].ti.obj = c /\ i + 1 \in 1 .. Len(Q)
    BY <1>1
  <2>2. \/ c \in DOMAIN K
        \/ \E j \in 1 .. i : Is(Q, "construct", c, j)
    BY <2>1 DEF CallsSafe
  <2>3. \A j \in 1 .. i : ~Is(Q, "delete", c, j)
    BY <2>1 DEF CallsSafe
  <2>4. ASSUME NEW j \in 1 .. i, Is(Q, "construct", c, j), c # o
        PROVE  j - 1 \in 1 .. i - 1 /\ Is(R, "construct", c, j - 1)
    BY <1>1, <1>2, <2>4 DEF Is
  <2>5. ASSUME NEW j \in 1 .. i - 1
        PROVE  ~Is(R, "delete", c, j)
    BY <1>1, <2>3 DEF Is
  <2>6. QED
    BY <1>3, <2>2, <2>4, <2>5
<1>5. \A c : /\ Waits(Q, "construct", c) => c = o \/ Waits(R, "construct", c)
             /\ Waits(R, "delete", c) => Waits(Q, "delete", c)
  BY <1>2, WaitsTail DEF Is
<1>6. KidsSafe(R, L)
  BY <1>3, <1>5 DEF KidsSafe
<1>7. OneParent(L)
  BY <1>3 DEF OneParent
<1>8. RootsSafe(R, L)
  BY <1>1, <1>3, <1>5 DEF RootsSafe
<1>9. Fresh(R, L, n)
  BY <1>1, <1>3 DEF Fresh
<1>10. QED
  BY <1>1, <1>3, <1>4, <1>6, <1>7, <1>8, <1>9
-----------------------------------------------------------------------------
(* Appending what a turn queued, in the order of process_queued.            *)

\* Calls already queued stay safe whatever is appended behind them.
LEMMA CallsSafeConcat ==
    ASSUME NEW Q \in Seq(Message), NEW W \in Seq(Message), NEW K, NEW L,
           DOMAIN K \subseteq DOMAIN L, CallsSafe(Q, K),
           NEW i \in 1 .. Len(Q), Q[i].kind = "call", NEW P, P = Q \o W
    PROVE  /\ \/ P[i].ti.obj \in DOMAIN L
              \/ \E j \in 1 .. i - 1 : Is(P, "construct", P[i].ti.obj, j)
           /\ \A j \in 1 .. i - 1 : ~Is(P, "delete", P[i].ti.obj, j)
<1>1. \A j \in 1 .. i : P[j] = Q[j]
  BY ConcatAt
<1>2. /\ \/ Q[i].ti.obj \in DOMAIN K
         \/ \E j \in 1 .. i - 1 : Is(Q, "construct", Q[i].ti.obj, j)
      /\ \A j \in 1 .. i - 1 : ~Is(Q, "delete", Q[i].ti.obj, j)
  BY DEF CallsSafe
<1>3. P[i] = Q[i] /\ \A j \in 1 .. i - 1 : P[j] = Q[j]
  BY <1>1
<1>4. \A k, o : \A j \in 1 .. i - 1 : Is(P, k, o, j) <=> Is(Q, k, o, j)
  BY <1>3 DEF Is
<1>5. QED
  BY <1>2, <1>3, <1>4

\* Appending messages that are no calls keeps the calls safe.
LEMMA CallsSafeAppend ==
    ASSUME NEW Q \in Seq(Message), NEW W \in Seq(Message), NEW K, NEW L,
           DOMAIN K \subseteq DOMAIN L, CallsSafe(Q, K),
           \A i \in 1 .. Len(W) : W[i].kind # "call"
    PROVE  CallsSafe(Q \o W, L)
<1> DEFINE P == Q \o W
<1> SUFFICES ASSUME NEW i \in 1 .. Len(P), P[i].kind = "call"
             PROVE  /\ \/ P[i].ti.obj \in DOMAIN L
                       \/ \E j \in 1 .. i - 1 :
                             Is(P, "construct", P[i].ti.obj, j)
                    /\ \A j \in 1 .. i - 1 : ~Is(P, "delete", P[i].ti.obj, j)
  BY DEF CallsSafe
<1>1. i \in 1 .. Len(Q) /\ Q[i].kind = "call"
  BY ConcatAt
<1>2. QED
  BY <1>1, CallsSafeConcat

\* process_queued_construct: the new ids N, between n and m, become children of o.
LEMMA SafeMakes ==
    ASSUME NEW Q, NEW K, NEW n, Safe(Q, K, n), NEW m \in Int, m >= n,
           NEW N \in SUBSET Int, \A c \in N : n <= c /\ c < m,
           NEW o \in DOMAIN K, NEW W \in Seq(Message),
           \A i \in 1 .. Len(W) : W[i].kind = "construct" /\ W[i].ti.obj < m,
           \A c \in N : Waits(W, "construct", c)
    PROVE  Safe(Q \o W, [K EXCEPT ![o] = @ \union N], m)
<1> DEFINE P == Q \o W
           L == [K EXCEPT ![o] = @ \union N]
<1> USE DEF Safe
<1>1. /\ DOMAIN L = DOMAIN K /\ KidsType(L)
      /\ \A p \in DOMAIN K : \A c \in L[p] :
            c \in K[p] \/ (p = o /\ c \in N)
  BY DEF KidsType
<1>2. CallsSafe(P, L)
  BY <1>1, CallsSafeAppend
<1>3. \A c : Waits(P, "construct", c) <=>
                Waits(Q, "construct", c) \/ Waits(W, "construct", c)
  BY WaitsConcat
<1>4. \A c : Waits(P, "delete", c) <=> Waits(Q, "delete", c)
  <2>1. \A c : ~Waits(W, "delete", c)
    BY DEF Waits, Is
  <2>2. QED
    BY <2>1, WaitsConcat
<1>5. \A c \in N : ~Waits(Q, "delete", c)
  BY DEF Fresh, Waits, Is
<1>6. KidsSafe(P, L)
  BY <1>1, <1>3, <1>4, <1>5 DEF KidsSafe
<1>7. OneParent(L)
  <2>1. \A p \in DOMAIN K : \A c \in K[p] : c \notin N
    <3>1. \A c \in N : c \in Int /\ ~(c < n)
      OBVIOUS
    <3>2. QED
      BY <3>1 DEF Fresh
  <2>2. QED
    BY <1>1, <2>1 DEF OneParent
<1>8. RootsSafe(P, L)
  <2> SUFFICES ASSUME NEW i \in 1 .. Len(P), P[i].kind = "root"
               PROVE  /\ ~Waits(P, "delete", P[i].ti.obj)
                      /\ \A p \in DOMAIN L : P[i].ti.obj \notin L[p]
    BY DEF RootsSafe
  <2>1. i \in 1 .. Len(Q) /\ P[i] = Q[i]
    BY RootConcat
  <2>2. /\ ~Waits(Q, "delete", Q[i].ti.obj)
        /\ \A p \in DOMAIN K : Q[i].ti.obj \notin K[p]
    BY <2>1 DEF RootsSafe
  <2>3. Q[i].ti.obj < n
    BY <2>1 DEF Fresh
  <2>4. QED
    BY <1>1, <1>4, <2>1, <2>2, <2>3
<1>9. Fresh(P, L, m)
  <2>1. ASSUME NEW i \in 1 .. Len(P), P[i].kind \notin {"io", "done"}
        PROVE  P[i].ti.obj < m
    <3>1. CASE i \in 1 .. Len(Q)
      <4>1. P[i] = Q[i] /\ Q[i] \in Message
        BY <3>1, ConcatAt
      <4>2. Q[i].ti.obj < n /\ Q[i].ti.obj \in Int
        BY <2>1, <3>1, <4>1 DEF Fresh, Message, Target
      <4>3. QED
        BY <4>1, <4>2
    <3>2. CASE i \in Len(Q) + 1 .. Len(Q) + Len(W)
      BY <3>2, ConcatAt
    <3>3. QED
      BY <3>1, <3>2, ConcatAt
  <2>2. ASSUME NEW p \in DOMAIN L, NEW c \in L[p]
        PROVE  c < m
    <3>1. c \in Int
      BY <1>1 DEF KidsType
    <3>2. c \in K[p] => c < n
      BY <1>1 DEF Fresh
    <3>3. QED
      BY <1>1, <3>1, <3>2
  <2>3. QED
    BY <2>1, <2>2 DEF Fresh
<1>10. QED
  BY <1>1, <1>2, <1>6, <1>7, <1>8, <1>9, ConcatAt

\* Appending calls to the children of o, or data, which no part of the argument
\* looks at (process_queued_function, answers, attached copies, completions).
LEMMA SafeCalls ==
    ASSUME NEW Q, NEW K, NEW n, Safe(Q, K, n), NEW W \in Seq(Message),
           \A i \in 1 .. Len(W) :
              \/ W[i].kind \in {"io", "done"}
              \/ /\ W[i].kind = "call"
                 /\ \E o \in DOMAIN K : W[i].ti.obj \in K[o]
    PROVE  Safe(Q \o W, K, n)
<1> DEFINE P == Q \o W
<1> USE DEF Safe
<1>1. \A k, c : k \in {"construct", "delete"} =>
         (Waits(P, k, c) <=> Waits(Q, k, c))
  <2>1. \A k, c : k \in {"construct", "delete"} => ~Waits(W, k, c)
    BY DEF Waits, Is
  <2>2. QED
    BY <2>1, WaitsConcat
<1>2. CallsSafe(P, K)
  <2> SUFFICES ASSUME NEW i \in 1 .. Len(P), P[i].kind = "call"
               PROVE  /\ \/ P[i].ti.obj \in DOMAIN K
                         \/ \E j \in 1 .. i - 1 :
                               Is(P, "construct", P[i].ti.obj, j)
                      /\ \A j \in 1 .. i - 1 : ~Is(P, "delete", P[i].ti.obj, j)
    BY DEF CallsSafe
  <2>1. CASE i \in 1 .. Len(Q)
    <3>1. Q[i].kind = "call"
      BY <2>1, ConcatAt
    <3>2. QED
      BY <2>1, <3>1, CallsSafeConcat
  <2>2. CASE i \in Len(Q) + 1 .. Len(Q) + Len(W)
    <3> DEFINE c == P[i].ti.obj
    <3>1. PICK o \in DOMAIN K : c \in K[o]
      <4>1. P[i] = W[i - Len(Q)] /\ i - Len(Q) \in 1 .. Len(W)
        BY <2>2, ConcatAt
      <4>2. QED
        BY <4>1
    <3>2. (c \in DOMAIN K \/ Waits(Q, "construct", c))
          /\ ~Waits(Q, "delete", c)
      BY <3>1 DEF KidsSafe
    <3>3. \A j \in 1 .. Len(Q) : P[j] = Q[j] /\ j \in 1 .. i - 1
      BY <2>2, ConcatAt
    <3>4. Waits(Q, "construct", c) =>
             \E j \in 1 .. i - 1 : Is(P, "construct", c, j)
      BY <3>3 DEF Waits, Is
    <3>5. \A j \in 1 .. i - 1 : ~Is(P, "delete", c, j)
      <4>1. ~Waits(P, "delete", c)
        BY <1>1, <3>2
      <4>2. \A j \in 1 .. i - 1 : j \in 1 .. Len(P)
        BY ConcatAt
      <4>3. QED
        BY <4>1, <4>2 DEF Waits
    <3>6. QED
      BY <3>2, <3>4, <3>5
  <2>3. QED
    BY <2>1, <2>2, ConcatAt
<1>3. KidsSafe(P, K)
  BY <1>1 DEF KidsSafe
<1>4. RootsSafe(P, K)
  <2> SUFFICES ASSUME NEW i \in 1 .. Len(P), P[i].kind = "root"
               PROVE  /\ ~Waits(P, "delete", P[i].ti.obj)
                      /\ \A p \in DOMAIN K : P[i].ti.obj \notin K[p]
    BY DEF RootsSafe
  <2>1. i \in 1 .. Len(Q) /\ P[i] = Q[i]
    BY RootConcat
  <2>2. QED
    BY <1>1, <2>1 DEF RootsSafe
<1>5. Fresh(P, K, n)
  <2>1. ASSUME NEW i \in 1 .. Len(P), P[i].kind \notin {"io", "done"}
        PROVE  P[i].ti.obj < n
    <3>1. CASE i \in 1 .. Len(Q)
      <4>1. P[i] = Q[i]
        BY <3>1, ConcatAt
      <4>2. QED
        BY <2>1, <3>1, <4>1 DEF Fresh
    <3>2. CASE i \in Len(Q) + 1 .. Len(Q) + Len(W)
      <4>1. P[i] = W[i - Len(Q)] /\ i - Len(Q) \in 1 .. Len(W)
        BY <3>2, ConcatAt
      <4>2. PICK o \in DOMAIN K : P[i].ti.obj \in K[o]
        BY <2>1, <4>1
      <4>3. QED
        BY <4>2 DEF Fresh
    <3>3. QED
      BY <3>1, <3>2, ConcatAt
  <2>2. QED
    BY <2>1 DEF Fresh
<1>6. QED
  BY <1>2, <1>3, <1>4, <1>5, ConcatAt
\* process_queued_delete: the children D that o lets go of are deleted.
LEMMA SafeDrops ==
    ASSUME NEW Q, NEW K, NEW n, Safe(Q, K, n), NEW o \in DOMAIN K,
           NEW D, D \subseteq K[o], NEW W \in Seq(Message),
           \A i \in 1 .. Len(W) : W[i].kind = "delete" /\ W[i].ti.obj \in D
    PROVE  Safe(Q \o W, [K EXCEPT ![o] = @ \ D], n)
<1> DEFINE P == Q \o W
           L == [K EXCEPT ![o] = @ \ D]
<1> USE DEF Safe
<1>1. /\ DOMAIN L = DOMAIN K /\ KidsType(L)
      /\ \A p \in DOMAIN K : \A c \in L[p] : c \in K[p] /\ (p = o => c \notin D)
  BY DEF KidsType
<1>2. CallsSafe(P, L)
  BY <1>1, CallsSafeAppend
<1>3. \A c : /\ Waits(P, "construct", c) <=> Waits(Q, "construct", c)
             /\ Waits(P, "delete", c) => Waits(Q, "delete", c) \/ c \in D
  <2>1. \A c : ~Waits(W, "construct", c) /\ (Waits(W, "delete", c) => c \in D)
    BY DEF Waits, Is
  <2>2. QED
    BY <2>1, WaitsConcat
<1>4. \A p \in DOMAIN L : \A c \in L[p] : c \notin D
  BY <1>1 DEF OneParent
<1>5. KidsSafe(P, L)
  BY <1>1, <1>3, <1>4 DEF KidsSafe
<1>6. OneParent(L)
  BY <1>1 DEF OneParent
<1>7. RootsSafe(P, L)
  <2> SUFFICES ASSUME NEW i \in 1 .. Len(P), P[i].kind = "root"
               PROVE  /\ ~Waits(P, "delete", P[i].ti.obj)
                      /\ \A p \in DOMAIN L : P[i].ti.obj \notin L[p]
    BY DEF RootsSafe
  <2>1. i \in 1 .. Len(Q) /\ P[i] = Q[i]
    BY RootConcat
  <2>2. /\ ~Waits(Q, "delete", P[i].ti.obj)
        /\ \A p \in DOMAIN K : P[i].ti.obj \notin K[p]
    BY <2>1 DEF RootsSafe
  <2>3. QED
    BY <1>1, <1>3, <2>2
<1>8. Fresh(P, L, n)
  <2>1. ASSUME NEW i \in 1 .. Len(P), P[i].kind \notin {"io", "done"}
        PROVE  P[i].ti.obj < n
    <3>1. CASE i \in 1 .. Len(Q)
      <4>1. P[i] = Q[i]
        BY <3>1, ConcatAt
      <4>2. QED
        BY <2>1, <3>1, <4>1 DEF Fresh
    <3>2. CASE i \in Len(Q) + 1 .. Len(Q) + Len(W)
      <4>1. P[i].ti.obj \in K[o]
        BY <3>2, ConcatAt
      <4>2. QED
        BY <4>1 DEF Fresh
    <3>3. QED
      BY <3>1, <3>2, ConcatAt
  <2>2. QED
    BY <1>1, <2>1 DEF Fresh
<1>9. QED
  BY <1>1, <1>2, <1>5, <1>6, <1>7, <1>8, ConcatAt

\* Delete: the object leaves the table, its children follow it.
LEMMA SafeDelete ==
    ASSUME NEW Q, NEW K, NEW n, Safe(Q, K, n), Q # <<>>,
           Head(Q).kind = "delete", NEW o, o = Head(Q).ti.obj,
           NEW W \in Seq(Message),
           \A i \in 1 .. Len(W) : /\ W[i].kind = "delete" /\ o \in DOMAIN K
                                  /\ W[i].ti.obj \in K[o]
    PROVE  Safe(Tail(Q) \o W, [p \in DOMAIN K \ {o} |-> K[p]], n)
<1> DEFINE R == Tail(Q)
           P == R \o W
           L == [p \in DOMAIN K \ {o} |-> K[p]]
<1> USE DEF Safe
<1>1. /\ DOMAIN L = DOMAIN K \ {o} /\ KidsType(L)
      /\ \A p \in DOMAIN L : p \in DOMAIN K /\ p # o /\ L[p] = K[p]
  BY DEF KidsType
<1>2. Safe(R, K, n) /\ R \in Seq(Message)
  BY SafeTail
<1>3. Waits(Q, "delete", o) /\ Is(Q, "delete", o, 1) /\ Q[1].kind = "delete"
  BY TailAt DEF Waits, Is
<1>4. ASSUME NEW i \in 1 .. Len(R), R[i].kind = "call"
      PROVE  R[i].ti.obj # o
  <2>1. i + 1 \in 1 .. Len(Q) /\ Q[i + 1] = R[i]
    BY TailAt
  <2>2. \A j \in 1 .. i : ~Is(Q, "delete", R[i].ti.obj, j)
    BY <1>4, <2>1 DEF CallsSafe
  <2>3. QED
    BY <1>3, <2>2
<1>5. CallsSafe(R, L)
  <2>1. CallsSafe(R, K)
    BY <1>2
  <2>2. QED
    BY <1>1, <1>4, <2>1 DEF CallsSafe
<1>6. CallsSafe(P, L)
  BY <1>2, <1>5, CallsSafeAppend
<1>7. \A c : /\ Waits(P, "construct", c) <=> Waits(R, "construct", c)
             /\ Waits(P, "delete", c) =>
                   \/ Waits(R, "delete", c)
                   \/ o \in DOMAIN K /\ c \in K[o]
  <2>1. \A c : /\ ~Waits(W, "construct", c)
               /\ Waits(W, "delete", c) => o \in DOMAIN K /\ c \in K[o]
    BY DEF Waits, Is
  <2>2. QED
    BY <1>2, <2>1, WaitsConcat
<1>8. KidsSafe(P, L)
  <2> SUFFICES ASSUME NEW p \in DOMAIN L, NEW c \in L[p]
               PROVE  /\ c \in DOMAIN L \/ Waits(P, "construct", c)
                      /\ ~Waits(P, "delete", c)
    BY DEF KidsSafe
  <2>1. p \in DOMAIN K /\ c \in K[p] /\ p # o
    BY <1>1
  <2>2. /\ c \in DOMAIN K \/ Waits(R, "construct", c)
        /\ ~Waits(R, "delete", c)
    BY <1>2, <2>1 DEF KidsSafe
  <2>3. c # o
    BY <1>3, <2>1 DEF KidsSafe
  <2>4. ~(o \in DOMAIN K /\ c \in K[o])
    BY <2>1 DEF OneParent
  <2>5. QED
    BY <1>1, <1>7, <2>2, <2>3, <2>4
<1>9. OneParent(L)
  BY <1>1 DEF OneParent
<1>10. RootsSafe(P, L)
  <2> SUFFICES ASSUME NEW i \in 1 .. Len(P), P[i].kind = "root"
               PROVE  /\ ~Waits(P, "delete", P[i].ti.obj)
                      /\ \A p \in DOMAIN L : P[i].ti.obj \notin L[p]
    BY DEF RootsSafe
  <2>1. i \in 1 .. Len(R) /\ P[i] = R[i]
    BY <1>2, RootConcat
  <2>2. /\ ~Waits(R, "delete", P[i].ti.obj)
        /\ \A p \in DOMAIN K : P[i].ti.obj \notin K[p]
    BY <1>2, <2>1 DEF RootsSafe
  <2>3. QED
    BY <1>1, <1>7, <2>2
<1>11. Fresh(P, L, n)
  <2>1. ASSUME NEW i \in 1 .. Len(P), P[i].kind \notin {"io", "done"}
        PROVE  P[i].ti.obj < n
    <3>1. CASE i \in 1 .. Len(R)
      <4>1. P[i] = R[i]
        BY <1>2, <3>1, ConcatAt
      <4>2. Fresh(R, K, n)
        BY <1>2
      <4>3. QED
        BY <2>1, <3>1, <4>1, <4>2 DEF Fresh
    <3>2. CASE i \in Len(R) + 1 .. Len(R) + Len(W)
      <4>1. o \in DOMAIN K /\ P[i].ti.obj \in K[o]
        BY <1>2, <3>2, ConcatAt
      <4>2. QED
        BY <4>1 DEF Fresh
    <3>3. QED
      BY <1>2, <3>1, <3>2, ConcatAt
  <2>2. QED
    BY <1>1, <2>1 DEF Fresh
<1>12. QED
  BY <1>1, <1>2, <1>6, <1>8, <1>9, <1>10, <1>11, ConcatAt
-----------------------------------------------------------------------------
(* Turns.                                                                   *)

\* A member of Lists is a sequence.
LEMMA ListsSeq ==
    ASSUME NEW S, NEW n \in Nat, NEW s \in Lists(S, n)
    PROVE  s \in Seq(S) /\ DOMAIN s = 1 .. Len(s) /\ Elems(s) \subseteq S
BY DEF Lists, Elems

\* An order of a finite set of ids is a sequence of its elements.
LEMMA OrdersSeq ==
    ASSUME NEW n \in Int, NEW S \in SUBSET (0 .. n - 1), NEW s \in Orders(S)
    PROVE  /\ s \in Seq(S) /\ DOMAIN s = 1 .. Len(s) /\ Len(s) \in Nat
           /\ \A i \in 1 .. Len(s) : s[i] \in S
<1>1. Cardinality(S) \in Nat
  <2>1. IsFiniteSet(0 .. n - 1)
    BY FS_Interval
  <2>2. IsFiniteSet(S)
    BY <2>1, FS_Subset
  <2>3. QED
    BY <2>2, FS_CardinalityType
<1>2. QED
  BY <1>1 DEF Orders

\* What a turn of an object with record rec that may delete D amounts to.
IsTurn(rec, D, t) ==
    /\ t.make \in Nat /\ nextObj + t.make <= MaxObj
    /\ t.call \in Seq(rec.children \union NewIds(t.make))
    /\ DOMAIN t.call = 1 .. Len(t.call) /\ Len(t.call) \in Nat
    /\ \A i \in 1 .. Len(t.call) :
          t.call[i] \in rec.children \union NewIds(t.make)
    /\ t.drop \in Seq(D) /\ DOMAIN t.drop = 1 .. Len(t.drop)
    /\ Len(t.drop) \in Nat /\ \A i \in 1 .. Len(t.drop) : t.drop[i] \in D
    /\ t.arm \in Nat /\ nextOp + t.arm <= MaxOp
    /\ t.attach \subseteq Int

\* What membership in Turns says of a turn.
LEMMA TurnType ==
    ASSUME TypeOK, NEW rec \in ObjectRecord, NEW make \in Nat,
           NEW calls \in Nat, NEW D \in SUBSET rec.children, NEW rets,
           NEW t \in Turns(rec, make, calls, D, rets)
    PROVE  IsTurn(rec, D, t)
<1>1. /\ t.make \in 0 .. make /\ t.drop \in Lists(D, 1)
      /\ t.call \in Lists(rec.children \union NewIds(make), calls)
      /\ t.arm \in 0 .. 1
      /\ t.attach \in {{}} \union IF Attaching
                                  THEN {{p} : p \in Elems(rec.called)} ELSE {}
      /\ nextObj + t.make <= MaxObj /\ nextOp + t.arm <= MaxOp
      /\ Elems(t.call) \subseteq
            (rec.children \ Elems(t.drop)) \union NewIds(t.make)
  BY DEF Turns
<1>2. /\ t.call \in Seq(rec.children \union NewIds(make))
      /\ DOMAIN t.call = 1 .. Len(t.call)
  BY <1>1, ListsSeq
<1>3. /\ t.drop \in Seq(D) /\ DOMAIN t.drop = 1 .. Len(t.drop)
      /\ Elems(t.drop) \subseteq D
  BY <1>1, ListsSeq
<1>4. \A i \in 1 .. Len(t.call) :
         t.call[i] \in rec.children \union NewIds(t.make)
  BY <1>1, <1>2 DEF Elems
<1>5. t.call \in Seq(rec.children \union NewIds(t.make))
  BY <1>2, <1>4
<1>6. t.attach \subseteq Int
  <2>1. Elems(rec.called) \subseteq Int
    BY DEF Elems, ObjectRecord
  <2>2. QED
    BY <1>1, <2>1
<1>7. QED
  <2>1. \A i \in 1 .. Len(t.drop) : t.drop[i] \in D
    BY <1>3 DEF Elems
  <2>2. QED
    BY <1>1, <1>2, <1>3, <1>4, <1>5, <1>6, <2>1 DEF IsTurn

\* What a turn queues: constructions of the new ids, calls to children and
\* deletions of the children let go of.
LEMMA QueuedParts ==
    ASSUME TypeOK, NEW me \in Target, NEW rec \in ObjectRecord,
           NEW D \in SUBSET rec.children, NEW t, IsTurn(rec, D, t)
    PROVE  /\ Constructs(me, t) \in Seq(Message)
           /\ \A i \in 1 .. Len(Constructs(me, t)) :
                 /\ Constructs(me, t)[i].kind = "construct"
                 /\ Constructs(me, t)[i].ti.obj < nextObj + t.make
           /\ \A c \in NewIds(t.make) : Waits(Constructs(me, t), "construct", c)
           /\ Calls(me, t) \in Seq(Message)
           /\ \A i \in 1 .. Len(Calls(me, t)) :
                 /\ Calls(me, t)[i].kind = "call"
                 /\ Calls(me, t)[i].ti.obj \in rec.children \union NewIds(t.make)
           /\ Deletes(me, t) \in Seq(Message)
           /\ \A i \in 1 .. Len(Deletes(me, t)) :
                 /\ Deletes(me, t)[i].kind = "delete"
                 /\ Deletes(me, t)[i].ti.obj \in Elems(t.drop)
           /\ Elems(t.call) \subseteq rec.children \union NewIds(t.make)
           /\ Elems(t.drop) \subseteq D
<1>1. nextObj \in Int /\ nextProc \in Int /\ NoId \in Int
  BY DEF TypeOK, NoId
<1>2. rec.children \union NewIds(t.make) \subseteq Int /\ D \subseteq Int
  BY <1>1 DEF NewIds, ObjectRecord
<1>3. t.make \in Nat /\ nextObj \in Int
  BY <1>1 DEF IsTurn
<1>4. /\ Constructs(me, t) \in Seq(Message)
      /\ Len(Constructs(me, t)) = t.make
      /\ \A i \in 1 .. t.make :
            /\ Constructs(me, t)[i].kind = "construct"
            /\ Constructs(me, t)[i].ti.obj = nextObj + i - 1
  <2>1. \A i \in 1 .. t.make :
           Msg("construct", ObjectOnly(nextObj + i - 1), me) \in Message
    BY <1>1, <1>3 DEF Msg, ObjectOnly, Message, Target
  <2>2. Constructs(me, t) \in [1 .. t.make -> Message]
    BY <2>1 DEF Constructs
  <2>3. Constructs(me, t) \in Seq(Message) /\ Len(Constructs(me, t)) = t.make
    BY <1>3, <2>2
  <2>4. \A i \in 1 .. t.make :
           Constructs(me, t)[i] = Msg("construct", ObjectOnly(nextObj + i - 1), me)
    BY DEF Constructs
  <2>5. \A c : /\ Msg("construct", ObjectOnly(c), me).kind = "construct"
               /\ Msg("construct", ObjectOnly(c), me).ti.obj = c
    BY DEF Msg, ObjectOnly
  <2>6. QED
    BY <2>3, <2>4, <2>5
<1>5. \A c \in NewIds(t.make) : Waits(Constructs(me, t), "construct", c)
  <2> SUFFICES ASSUME NEW c \in NewIds(t.make)
               PROVE  Waits(Constructs(me, t), "construct", c)
    OBVIOUS
  <2>1. c - nextObj + 1 \in 1 .. t.make /\ nextObj + (c - nextObj + 1) - 1 = c
    BY <1>1, <1>3 DEF NewIds
  <2>2. QED
    BY <1>4, <2>1 DEF Waits, Is
<1>6. /\ Calls(me, t) \in Seq(Message)
      /\ Len(Calls(me, t)) = Len(t.call)
      /\ \A i \in 1 .. Len(t.call) : /\ Calls(me, t)[i].kind = "call"
                                     /\ Calls(me, t)[i].ti.obj = t.call[i]
  <2>1. /\ DOMAIN t.call = 1 .. Len(t.call) /\ Len(t.call) \in Nat
        /\ \A i \in 1 .. Len(t.call) : t.call[i] \in Int
    BY <1>2 DEF IsTurn
  <2>2. \A i \in 1 .. Len(t.call) :
           Msg("call", [obj |-> t.call[i], proc |-> NewProcs(t)[i]], me)
              \in Message
    BY <1>1, <2>1 DEF NewProcs, Msg, Message, Target
  <2>3. Calls(me, t) \in [1 .. Len(t.call) -> Message]
    BY <2>1, <2>2 DEF Calls
  <2>4. QED
    BY <2>1, <2>3 DEF Calls, Msg
<1>7. /\ Deletes(me, t) \in Seq(Message)
      /\ Len(Deletes(me, t)) = Len(t.drop)
      /\ \A i \in 1 .. Len(t.drop) : /\ Deletes(me, t)[i].kind = "delete"
                                     /\ Deletes(me, t)[i].ti.obj = t.drop[i]
  <2>1. /\ DOMAIN t.drop = 1 .. Len(t.drop) /\ Len(t.drop) \in Nat
        /\ \A i \in 1 .. Len(t.drop) : t.drop[i] \in Int
    BY <1>2 DEF IsTurn
  <2>2. \A i \in 1 .. Len(t.drop) :
           Msg("delete", ObjectOnly(t.drop[i]), me) \in Message
    BY <1>1, <2>1 DEF Msg, ObjectOnly, Message, Target
  <2>3. Deletes(me, t) \in [1 .. Len(t.drop) -> Message]
    BY <2>1, <2>2 DEF Deletes
  <2>4. QED
    BY <2>1, <2>3 DEF Deletes, Msg, ObjectOnly
<1>8. \A i \in 1 .. Len(t.call) :
         t.call[i] \in rec.children \union NewIds(t.make)
  BY DEF IsTurn
<1>9. \A i \in 1 .. Len(t.drop) : t.drop[i] \in Elems(t.drop)
  BY DEF IsTurn, Elems
<1>10. \A i \in 1 .. t.make : nextObj + i - 1 < nextObj + t.make
  BY <1>3
<1>11. /\ Elems(t.call) \subseteq rec.children \union NewIds(t.make)
       /\ Elems(t.drop) \subseteq D
  BY DEF IsTurn, Elems
<1>12. QED
  BY <1>4, <1>5, <1>6, <1>7, <1>8, <1>9, <1>10, <1>11

\* What a turn queues are messages.
LEMMA QueuedType ==
    ASSUME TypeOK, NEW me \in Target, NEW rec \in ObjectRecord,
           NEW D \in SUBSET rec.children, NEW t, IsTurn(rec, D, t)
    PROVE  Queued(me, t) \in Seq(Message)
<1>1. /\ Constructs(me, t) \in Seq(Message) /\ Calls(me, t) \in Seq(Message)
      /\ Deletes(me, t) \in Seq(Message)
  BY QueuedParts
<1>2. QED
  BY <1>1 DEF Queued

\* The children after a turn.
LEMMA AfterTurnChildren ==
    ASSUME NEW rec \in ObjectRecord, NEW t
    PROVE  AfterTurn(rec, t).children =
              (rec.children \union NewIds(t.make) \union Elems(t.call))
                  \ Elems(t.drop)
BY DEF AfterTurn, ObjectRecord

\* Answers, attached copies and completions: data messages only.
IsData(W) ==
    W \in Seq(Message) /\ \A i \in 1 .. Len(W) : W[i].kind \in {"io", "done"}

LEMMA NoData == IsData(<<>>) /\ Elems(<<>>) = {}
BY DEF IsData, Elems

Children(table) == [o \in DOMAIN table |-> table[o].children]

\* process_queued keeps the queue safe.
LEMMA TurnSafe ==
    ASSUME TypeOK, NEW table, table \in [DOMAIN table -> ObjectRecord],
           NEW me \in Target, me.obj \in DOMAIN table,
           NEW D \in SUBSET table[me.obj].children, NEW t,
           IsTurn(table[me.obj], D, t),
           q # <<>>, Safe(Tail(q), Children(table), nextObj),
           NEW after, IsData(after), ProcessQueued(table, me, t, after)
    PROVE  Safe(q', Kids', nextObj')
<1> DEFINE o == me.obj
           rec == table[o]
           m == nextObj + t.make
           N == NewIds(t.make)
           K == Children(table)
           K1 == [K EXCEPT ![o] = @ \union N]
           E == Elems(t.drop)
           K2 == [K1 EXCEPT ![o] = @ \ E]
           Q1 == Tail(q) \o Constructs(me, t)
           Q2 == Q1 \o Calls(me, t)
           Q3 == Q2 \o Deletes(me, t)
<1>1. rec \in ObjectRecord /\ o \in DOMAIN K /\ K[o] = rec.children
  BY DEF Children
<1>2. /\ m \in Int /\ m >= nextObj
      /\ N \in SUBSET Int /\ \A c \in N : nextObj <= c /\ c < m
  BY DEF TypeOK, IsTurn, NewIds
<1>3. /\ Constructs(me, t) \in Seq(Message)
      /\ \A i \in 1 .. Len(Constructs(me, t)) :
            /\ Constructs(me, t)[i].kind = "construct"
            /\ Constructs(me, t)[i].ti.obj < m
      /\ \A c \in N : Waits(Constructs(me, t), "construct", c)
      /\ Calls(me, t) \in Seq(Message)
      /\ \A i \in 1 .. Len(Calls(me, t)) :
            /\ Calls(me, t)[i].kind = "call"
            /\ Calls(me, t)[i].ti.obj \in rec.children \union N
      /\ Deletes(me, t) \in Seq(Message)
      /\ \A i \in 1 .. Len(Deletes(me, t)) :
            /\ Deletes(me, t)[i].kind = "delete"
            /\ Deletes(me, t)[i].ti.obj \in E
      /\ Elems(t.call) \subseteq rec.children \union N
      /\ E \subseteq D
  BY <1>1, QueuedParts
<1>4. Tail(q) \in Seq(Message)
  BY DEF Safe
<1>5. Safe(Q1, K1, m)
  BY <1>1, <1>2, <1>3, SafeMakes
<1>6. /\ DOMAIN K1 = DOMAIN K
      /\ K1[o] = rec.children \union N
      /\ \A p \in DOMAIN K : p # o => K1[p] = K[p]
  BY <1>1
<1>7. Safe(Q2, K1, m)
  <2>1. \A i \in 1 .. Len(Calls(me, t)) :
           /\ Calls(me, t)[i].kind = "call"
           /\ o \in DOMAIN K1 /\ Calls(me, t)[i].ti.obj \in K1[o]
    BY <1>1, <1>3, <1>6
  <2>2. QED
    BY <1>3, <1>5, <2>1, SafeCalls
<1>8. E \subseteq K1[o]
  BY <1>1, <1>3, <1>6
<1>9. Safe(Q3, K2, m)
  BY <1>1, <1>3, <1>6, <1>7, <1>8, SafeDrops
<1>10. Safe(Q3 \o after, K2, m)
  BY <1>9, SafeCalls DEF IsData
<1>11. q' = Q3 \o after
  <2>1. q' = Tail(q) \o Queued(me, t) \o after
    BY DEF ProcessQueued
  <2>2. Tail(q) \o Queued(me, t) = Q3
    BY <1>3, <1>4 DEF Queued
  <2>3. QED
    BY <2>1, <2>2
<1>12. nextObj' = m
  BY DEF ProcessQueued
<1>13. Kids' = K2
  <2>1. objs' = [table EXCEPT ![o] = AfterTurn(rec, t)]
    BY DEF ProcessQueued
  <2>2. AfterTurn(rec, t).children = (rec.children \union N \union Elems(t.call)) \ E
    BY <1>1, AfterTurnChildren
  <2>4. AfterTurn(rec, t).children = K2[o]
    BY <1>1, <1>3, <1>6, <2>2
  <2>5. DOMAIN objs' = DOMAIN table /\ objs'[o] = AfterTurn(rec, t)
        /\ \A p \in DOMAIN table : p # o => objs'[p] = table[p]
    BY <2>1
  <2>6. DOMAIN K2 = DOMAIN table /\ \A p \in DOMAIN table : p # o => K2[p] = K[p]
    BY <1>6 DEF Children
  <2>7. \A p \in DOMAIN table : objs'[p].children = K2[p]
    BY <2>4, <2>5, <2>6 DEF Children
  <2>8. K2 = [p \in DOMAIN table |-> K2[p]]
    BY <2>6
  <2>9. Kids' = [p \in DOMAIN table |-> K2[p]]
    BY <2>5, <2>7 DEF Kids, Live
  <2>10. QED
    BY <2>8, <2>9
<1>14. QED
  BY <1>10, <1>11, <1>12, <1>13

\* process_queued keeps the types and the bounds.
LEMMA TurnTypeOK ==
    ASSUME TypeOK, NEW table, table \in [DOMAIN table -> ObjectRecord],
           DOMAIN table \subseteq Int,
           NEW me \in Target, me.obj \in DOMAIN table,
           NEW D \in SUBSET table[me.obj].children, NEW t,
           IsTurn(table[me.obj], D, t),
           NEW after \in Seq(Message), q # <<>>,
           ProcessQueued(table, me, t, after)
    PROVE  /\ q' \in Seq(Message)
           /\ Live' \subseteq Int /\ objs' \in [Live' -> ObjectRecord]
           /\ DOMAIN ring' \subseteq 0 .. MaxOp - 1
           /\ ring' \in [DOMAIN ring' -> Target]
           /\ also' \in [DOMAIN also' -> Seq(Target)]
           /\ DOMAIN also' \subseteq Int
           /\ nextObj' \in 0 .. MaxObj /\ nextProc' \in Nat
           /\ nextOp' \in 0 .. MaxOp
<1> DEFINE rec == table[me.obj]
<1>1. rec \in ObjectRecord
  OBVIOUS
<1>n. /\ nextObj \in Nat /\ nextOp \in Nat /\ nextProc \in Nat
      /\ MaxObj \in Nat /\ MaxOp \in Nat
  BY BoundsAssumption DEF TypeOK
<1>t. /\ t.make \in Nat /\ nextObj + t.make <= MaxObj
      /\ t.arm \in Nat /\ nextOp + t.arm <= MaxOp
      /\ Len(t.call) \in Nat /\ t.attach \subseteq Int
  BY DEF IsTurn
<1>2. q' \in Seq(Message)
  <2>1. Queued(me, t) \in Seq(Message)
    BY <1>1, QueuedType
  <2>2. Tail(q) \in Seq(Message)
    BY TailAt DEF TypeOK
  <2>3. QED
    BY <2>1, <2>2 DEF ProcessQueued
<1>3. AfterTurn(rec, t) \in ObjectRecord
  <2>1. NewIds(t.make) \subseteq 0 .. MaxObj - 1
    <3>1. SUFFICES ASSUME NEW i \in NewIds(t.make)
                   PROVE  i \in 0 .. MaxObj - 1
      OBVIOUS
    <3>2. i \in Int /\ nextObj <= i /\ i <= nextObj + t.make - 1
      BY <1>n, <1>t DEF NewIds
    <3>3. QED
      BY <1>n, <1>t, <3>2
  <2>2. Elems(t.call) \subseteq rec.children \union NewIds(t.make)
    <3>1. IsTurn(rec, D, t) /\ D \in SUBSET rec.children
      OBVIOUS
    <3> HIDE DEF rec
    <3>2. QED
      BY <1>1, <3>1, QueuedParts
  <2>3. rec.children \subseteq 0 .. MaxObj - 1 /\ rec.called \in Seq(Int)
    BY <1>1 DEF ObjectRecord
  <2>4. ((rec.children \union NewIds(t.make) \union Elems(t.call))
            \ Elems(t.drop)) \in SUBSET (0 .. MaxObj - 1)
    BY <2>1, <2>2, <2>3
  <2>5. NewProcs(t) \in Seq(Int)
    <3>1. DOMAIN t.call = 1 .. Len(t.call) /\ Len(t.call) \in Nat
      BY DEF IsTurn
    <3>2. NewProcs(t) \in [1 .. Len(t.call) -> Int]
      BY <3>1 DEF NewProcs, TypeOK
    <3>3. QED
      BY <3>1, <3>2
  <2>6. rec.called \o NewProcs(t) \in Seq(Int)
    BY <2>3, <2>5
  <2>7. QED
    BY <1>1, <2>4, <2>6 DEF AfterTurn, ObjectRecord
<1>4. Live' \subseteq Int /\ objs' \in [Live' -> ObjectRecord]
  <2>1. objs' = [table EXCEPT ![me.obj] = AfterTurn(rec, t)]
    BY DEF ProcessQueued
  <2>2. QED
    BY <1>3, <2>1 DEF Live
<1>5. /\ DOMAIN ring' \subseteq 0 .. MaxOp - 1
      /\ ring' \in [DOMAIN ring' -> Target]
  <2>1. nextOp .. nextOp + t.arm - 1 \subseteq 0 .. MaxOp - 1
    BY <1>n, <1>t
  <2>2. DOMAIN ring \subseteq 0 .. MaxOp - 1 /\ ring \in [DOMAIN ring -> Target]
    BY DEF TypeOK
  <2>3. ring' = [op \in DOMAIN ring \union (nextOp .. nextOp + t.arm - 1) |->
                    IF op \in DOMAIN ring THEN ring[op] ELSE me]
    BY DEF ProcessQueued
  <2>4. QED
    BY <2>1, <2>2, <2>3
<1>6. also' \in [DOMAIN also' -> Seq(Target)] /\ DOMAIN also' \subseteq Int
  <2> DEFINE Old(p) == IF p \in DOMAIN also THEN also[p] ELSE <<>>
             New(p) == IF p \in t.attach THEN <<me>> ELSE <<>>
  <2>1. also' = [p \in DOMAIN also \union t.attach |-> Old(p) \o New(p)]
    BY DEF ProcessQueued, Attached
  <2>2. \A p : Old(p) \in Seq(Target) /\ New(p) \in Seq(Target)
    BY DEF TypeOK
  <2>3. \A p : Old(p) \o New(p) \in Seq(Target)
    BY <2>2
  <2>4. DOMAIN also \union t.attach \subseteq Int
    BY DEF TypeOK, IsTurn
  <2>5. QED
    BY <2>1, <2>3, <2>4
<1>7. nextObj' \in 0 .. MaxObj /\ nextProc' \in Nat /\ nextOp' \in 0 .. MaxOp
  <2>1. /\ nextObj' = nextObj + t.make /\ nextProc' = nextProc + Len(t.call)
        /\ nextOp' = nextOp + t.arm
    BY DEF ProcessQueued
  <2>2. nextObj + t.make \in 0 .. MaxObj
    BY <1>n, <1>t
  <2>3. nextProc + Len(t.call) \in Nat
    BY <1>n, <1>t
  <2>4. nextOp + t.arm \in 0 .. MaxOp
    BY <1>n, <1>t
  <2>5. QED
    BY <2>1, <2>2, <2>3, <2>4
<1>8. QED
  BY <1>2, <1>4, <1>5, <1>6, <1>7
-----------------------------------------------------------------------------
(* The steps of Next.                                                       *)

\* The initial state, with the roots queued.
LEMMA InitIInv == Init => IInv
<1> SUFFICES ASSUME Init
             PROVE  IInv
  OBVIOUS
<1>1. q \in Seq(Message) /\ Len(q) = Roots
  <2>1. \A i \in 1 .. Roots :
           Msg("root", [obj |-> i - 1, proc |-> i - 1], Nobody) \in Message
    BY DEF Msg, Nobody, ObjectOnly, NoId, Message, Target
  <2>2. q \in [1 .. Roots -> Message] /\ Roots \in Nat
    BY <2>1, BoundsAssumption DEF Init
  <2>3. QED
    BY <2>2
<1>2. \A i \in 1 .. Len(q) : q[i].kind = "root" /\ q[i].ti.obj = i - 1
  BY <1>1 DEF Init, Msg
<1>3. DOMAIN objs = {} /\ DOMAIN procs = {} /\ DOMAIN ring = {}
      /\ DOMAIN also = {}
  BY DEF Init
<1>4. TypeOK
  <2>1. objs \in [{} -> ObjectRecord] /\ procs \in [{} -> [obj : Int, back : Target]]
        /\ ring \in [{} -> Target] /\ also \in [{} -> Seq(Target)]
    BY DEF Init
  <2>2. QED
    BY <1>1, <1>3, <2>1, BoundsAssumption DEF Init, TypeOK, Live
<1>5. Kids \in [{} -> SUBSET Int] /\ DOMAIN Kids = {}
  BY <1>3 DEF Kids, Live
<1>6. \A o : ~Waits(q, "delete", o)
  BY <1>2 DEF Waits, Is
<1>7. nextObj = Roots /\ Roots \in Int
  BY BoundsAssumption DEF Init
<1>8. CallsSafe(q, Kids) /\ KidsSafe(q, Kids) /\ OneParent(Kids)
  BY <1>2, <1>5 DEF CallsSafe, KidsSafe, OneParent
<1>9. RootsSafe(q, Kids) /\ Fresh(q, Kids, nextObj)
  BY <1>1, <1>2, <1>5, <1>6, <1>7 DEF RootsSafe, Fresh
<1>10. QED
  BY <1>1, <1>4, <1>5, <1>7, <1>8, <1>9 DEF IInv, Safe, KidsType

\* A root is constructed right before its init function is called.
LEMMA SafeRoot ==
    ASSUME NEW Q, NEW K, NEW n, Safe(Q, K, n), Q # <<>>,
           Head(Q).kind = "root", NEW W \in Seq(Message), Len(W) = 2,
           W[1].kind = "construct", W[1].ti.obj = Head(Q).ti.obj,
           W[2].kind = "call", W[2].ti.obj = Head(Q).ti.obj
    PROVE  Safe(Tail(Q) \o W, K, n)
<1> DEFINE R == Tail(Q)
           P == R \o W
           r == Head(Q).ti.obj
<1> USE DEF Safe
<1>1. Safe(R, K, n) /\ R \in Seq(Message) /\ Len(R) \in Nat
  BY SafeTail
<1>2. /\ Q[1].kind = "root" /\ Q[1].ti.obj = r /\ 1 \in 1 .. Len(Q)
  BY TailAt
<1>3. ~Waits(Q, "delete", r) /\ \A p \in DOMAIN K : r \notin K[p]
  BY <1>2 DEF RootsSafe
<1>4. r < n
  BY <1>2 DEF Fresh
<1>5. \A c : /\ Waits(P, "delete", c) <=> Waits(R, "delete", c)
             /\ Waits(R, "construct", c) => Waits(P, "construct", c)
  <2>1. \A c : ~Waits(W, "delete", c)
    BY DEF Waits, Is
  <2>2. QED
    BY <1>1, <2>1, WaitsConcat
<1>6. /\ Len(P) = Len(R) + 2 /\ P \in Seq(Message)
      /\ P[Len(R) + 1] = W[1] /\ P[Len(R) + 2] = W[2]
      /\ \A i \in 1 .. Len(R) : P[i] = R[i]
  <2>1. /\ P \in Seq(Message) /\ Len(P) = Len(R) + 2
        /\ \A i \in 1 .. Len(R) : P[i] = R[i]
        /\ \A i \in Len(R) + 1 .. Len(R) + 2 : P[i] = W[i - Len(R)]
    <3>1. /\ P \in Seq(Message) /\ Len(P) = Len(R) + Len(W)
          /\ \A i \in 1 .. Len(R) : P[i] = R[i]
          /\ \A i \in Len(R) + 1 .. Len(R) + Len(W) : P[i] = W[i - Len(R)]
      BY <1>1, ConcatAt
    <3>2. QED
      BY <3>1
  <2>2. /\ Len(R) + 1 \in Len(R) + 1 .. Len(R) + 2
        /\ Len(R) + 2 \in Len(R) + 1 .. Len(R) + 2
        /\ (Len(R) + 1) - Len(R) = 1 /\ (Len(R) + 2) - Len(R) = 2
    BY <1>1
  <2>3. P[Len(R) + 1] = W[1]
    BY <2>1, <2>2
  <2>4. P[Len(R) + 2] = W[2]
    BY <2>1, <2>2
  <2>5. QED
    BY <2>1, <2>3, <2>4
<1>7. CallsSafe(P, K)
  <2> SUFFICES ASSUME NEW i \in 1 .. Len(P), P[i].kind = "call"
               PROVE  /\ \/ P[i].ti.obj \in DOMAIN K
                         \/ \E j \in 1 .. i - 1 :
                               Is(P, "construct", P[i].ti.obj, j)
                      /\ \A j \in 1 .. i - 1 : ~Is(P, "delete", P[i].ti.obj, j)
    BY DEF CallsSafe
  <2>1. CASE i \in 1 .. Len(R)
    <3>1. R[i].kind = "call" /\ CallsSafe(R, K)
      BY <1>1, <1>6, <2>1
    <3>2. QED
      BY <1>1, <2>1, <3>1, CallsSafeConcat
  <2>2. CASE i = Len(R) + 2
    <3>1. P[i].ti.obj = r
      BY <1>6, <2>2
    <3>2. Len(R) + 1 \in 1 .. i - 1 /\ Is(P, "construct", r, Len(R) + 1)
      BY <1>1, <1>6, <2>2 DEF Is
    <3>3. ~Waits(P, "delete", r)
      BY <1>3, <1>5, WaitsTail
    <3>4. \A j \in 1 .. i - 1 : j \in 1 .. Len(P) /\ ~Is(P, "delete", r, j)
      BY <1>1, <1>6, <2>2, <3>3 DEF Waits
    <3>5. QED
      BY <3>1, <3>2, <3>4
  <2>3. i # Len(R) + 1
    BY <1>6
  <2>4. QED
    BY <1>1, <1>6, <2>1, <2>2, <2>3
<1>8. KidsSafe(P, K)
  BY <1>1, <1>5 DEF KidsSafe
<1>9. RootsSafe(P, K)
  <2>1. \A i \in 1 .. Len(W) : W[i].kind # "root"
    OBVIOUS
  <2>2. \A i \in 1 .. Len(P) : P[i].kind = "root" =>
           i \in 1 .. Len(R) /\ P[i] = R[i]
    BY <1>1, <2>1, RootConcat
  <2>3. QED
    BY <1>1, <1>5, <2>2 DEF RootsSafe
<1>10. Fresh(P, K, n)
  <2>1. \A i \in 1 .. Len(P) :
           i \in 1 .. Len(R) \/ i = Len(R) + 1 \/ i = Len(R) + 2
    BY <1>1, <1>6
  <2>2. Fresh(R, K, n)
    BY <1>1
  <2>3. QED
    BY <1>4, <1>6, <2>1, <2>2 DEF Fresh
<1>11. QED
  BY <1>1, <1>6, <1>7, <1>8, <1>9, <1>10

\* What every action that dequeues has in common.
LEMMA HeadType ==
    ASSUME IInv, q # <<>>
    PROVE  /\ Head(q) \in Message /\ Head(q).ti \in Target
           /\ Head(q).ci \in Target /\ Head(q).ti.obj \in Int
           /\ Head(q).ti.proc \in Int /\ Tail(q) \in Seq(Message)
           /\ Safe(q, Kids, nextObj) /\ q \in Seq(Message)
<1>1. q \in Seq(Message) /\ Safe(q, Kids, nextObj)
  BY DEF IInv, TypeOK
<1>2. Head(q) \in Message /\ Tail(q) \in Seq(Message)
  BY <1>1, TailAt
<1>3. QED
  BY <1>1, <1>2 DEF Message, Target

\* RootStart keeps the invariant.
LEMMA RootStartIInv == ASSUME IInv, RootStart PROVE IInv'
<1> DEFINE m == Head(q)
           W == << Msg("construct", ObjectOnly(m.ti.obj), Nobody),
                   Msg("call", m.ti, Nobody) >>
<1>1. q # <<>> /\ m.kind = "root" /\ budget' = budget - 1 /\ budget > 0
      /\ q' = Tail(q) \o W
      /\ UNCHANGED <<objs, procs, ring, also, nextObj, nextProc, nextOp>>
  BY DEF RootStart, Dequeue
<1>2. /\ m.ti \in Target /\ m.ti.obj \in Int /\ Tail(q) \in Seq(Message)
      /\ Safe(q, Kids, nextObj)
  BY <1>1, HeadType
<1>3. /\ Msg("construct", ObjectOnly(m.ti.obj), Nobody) \in Message
      /\ Msg("call", m.ti, Nobody) \in Message
  BY <1>2 DEF Msg, ObjectOnly, Nobody, NoId, Message, Target
<1>4. W \in Seq(Message) /\ Len(W) = 2
  BY <1>3
<1>5. /\ W[1].kind = "construct" /\ W[1].ti.obj = m.ti.obj
      /\ W[2].kind = "call" /\ W[2].ti.obj = m.ti.obj
  BY DEF Msg, ObjectOnly
<1>6. Safe(q', Kids, nextObj)
  BY <1>1, <1>2, <1>4, <1>5, SafeRoot
<1>7. q' \in Seq(Message)
  BY <1>6 DEF Safe
<1>8. TypeOK'
  <2>1. TypeOK /\ Batch \in Nat
    BY BoundsAssumption DEF IInv
  <2>2. budget' \in 0 .. Batch
    BY <1>1, <2>1 DEF TypeOK
  <2>3. QED
    BY <1>1, <1>7, <2>1, <2>2 DEF TypeOK, Live
<1>9. Kids' = Kids /\ nextObj' = nextObj
  BY <1>1 DEF Kids, Live
<1>10. QED
  BY <1>6, <1>8, <1>9 DEF IInv

\* construct_call keeps the invariant.
LEMMA ConstructCallIInv == ASSUME IInv, ConstructCall PROVE IInv'
<1> DEFINE o == Head(q).ti.obj
           rec == IF o \in Live THEN objs[o] ELSE NewObject
           table == [x \in Live \union {o} |-> IF x = o THEN rec ELSE objs[x]]
           calls == IF CtorCalls THEN MaxCall ELSE 0
           me == ObjectOnly(o)
<1>1. /\ q # <<>> /\ Head(q).kind = "construct" /\ budget' = budget - 1
      /\ budget > 0 /\ procs' = procs
  BY DEF ConstructCall, Dequeue
<1>2. PICK t \in Turns(rec, MaxMake, calls, {}, {FALSE}) :
         ProcessQueued(table, me, t, <<>>)
  BY DEF ConstructCall
<1>3. TypeOK /\ o \in Int /\ Safe(q, Kids, nextObj)
  BY <1>1, HeadType DEF IInv
<1>4. rec \in ObjectRecord
  BY <1>3 DEF TypeOK, NewObject, ObjectRecord
<1>5. /\ table \in [DOMAIN table -> ObjectRecord]
      /\ DOMAIN table = Live \union {o} /\ DOMAIN table \subseteq Int
      /\ table[o] = rec
  BY <1>3, <1>4 DEF TypeOK
<1>6. me \in Target /\ me.obj = o
  BY <1>3 DEF ObjectOnly, Target, NoId
<1>7. IsTurn(rec, {}, t)
  <2>1. MaxMake \in Nat /\ calls \in Nat /\ {} \in SUBSET rec.children
    BY BoundsAssumption
  <2>2. QED
    BY <1>2, <1>3, <1>4, <2>1, TurnType
<1>8. Children(table) = [p \in DOMAIN Kids \union {o} |->
                            IF p \in DOMAIN Kids THEN Kids[p] ELSE {}]
  BY DEF Children, Kids, NewObject
<1>9. Safe(Tail(q), Children(table), nextObj)
  <2>1. Safe(Tail(q), [p \in DOMAIN Kids \union {o} |->
                          IF p \in DOMAIN Kids THEN Kids[p] ELSE {}], nextObj)
    BY <1>1, <1>3, SafeConstruct
  <2>2. QED
    BY <1>8, <2>1
<1>10. IsData(<<>>) /\ <<>> \in Seq(Message)
  BY DEF IsData
<1>11. {} \in SUBSET table[me.obj].children /\ IsTurn(table[me.obj], {}, t)
       /\ me.obj \in DOMAIN table
  BY <1>5, <1>6, <1>7
<1>12. Safe(q', Kids', nextObj')
  BY <1>1, <1>2, <1>3, <1>5, <1>6, <1>9, <1>10, <1>11, TurnSafe
<1>13. TypeOK'
  <2>1. /\ q' \in Seq(Message)
        /\ Live' \subseteq Int /\ objs' \in [Live' -> ObjectRecord]
        /\ DOMAIN ring' \subseteq 0 .. MaxOp - 1
        /\ ring' \in [DOMAIN ring' -> Target]
        /\ also' \in [DOMAIN also' -> Seq(Target)]
        /\ DOMAIN also' \subseteq Int
        /\ nextObj' \in 0 .. MaxObj /\ nextProc' \in Nat
        /\ nextOp' \in 0 .. MaxOp
    <3>1. /\ TypeOK /\ table \in [DOMAIN table -> ObjectRecord]
          /\ DOMAIN table \subseteq Int /\ me \in Target
          /\ me.obj \in DOMAIN table /\ {} \in SUBSET table[me.obj].children
          /\ IsTurn(table[me.obj], {}, t) /\ <<>> \in Seq(Message)
          /\ q # <<>> /\ ProcessQueued(table, me, t, <<>>)
      BY <1>1, <1>2, <1>3, <1>5, <1>6, <1>10, <1>11
    <3> HIDE DEF table, me
    <3>2. QED
      BY <3>1, TurnTypeOK
  <2>2. budget' \in 0 .. Batch
    BY <1>1, <1>3, BoundsAssumption DEF TypeOK
  <2>3. /\ procs' \in [DOMAIN procs' -> [obj : Int, back : Target]]
        /\ DOMAIN procs' \subseteq Int
    BY <1>1, <1>3 DEF TypeOK
  <2>4. QED
    BY <2>1, <2>2, <2>3 DEF TypeOK
<1>14. QED
  BY <1>12, <1>13 DEF IInv

\* The part FunctionCall and DataReceived share: a turn of a live object, on a
\* table with the children it had.
LEMMA HandlerIInv ==
    ASSUME IInv, q # <<>>, Head(q).kind # "construct",
           budget > 0, budget' = budget - 1,
           NEW table, table \in [Live -> ObjectRecord],
           \A o \in Live : table[o].children = objs[o].children,
           NEW me \in Target, me.obj \in Live, NEW make \in Nat, NEW rets,
           NEW D \in SUBSET table[me.obj].children,
           NEW t \in Turns(table[me.obj], make, MaxCall, D, rets),
           NEW after, IsData(after), ProcessQueued(table, me, t, after),
           procs' \in [DOMAIN procs' -> [obj : Int, back : Target]],
           DOMAIN procs' \subseteq Int
    PROVE  IInv'
<1>1. TypeOK /\ Safe(q, Kids, nextObj)
  BY DEF IInv
<1>2. /\ table \in [DOMAIN table -> ObjectRecord] /\ me.obj \in DOMAIN table
      /\ DOMAIN table \subseteq Int /\ table[me.obj] \in ObjectRecord
  BY <1>1 DEF TypeOK
<1>3. IsTurn(table[me.obj], D, t)
  <2>1. MaxCall \in Nat
    BY BoundsAssumption
  <2>2. QED
    BY <1>1, <1>2, <2>1, TurnType
<1>4. Children(table) = Kids
  BY DEF Children, Kids
<1>5. Safe(Tail(q), Children(table), nextObj)
  BY <1>1, <1>4, SafeTail
<1>6. Safe(q', Kids', nextObj')
  BY <1>1, <1>2, <1>3, <1>5, TurnSafe
<1>7. after \in Seq(Message)
  BY DEF IsData
<1>8. /\ q' \in Seq(Message)
      /\ Live' \subseteq Int /\ objs' \in [Live' -> ObjectRecord]
      /\ DOMAIN ring' \subseteq 0 .. MaxOp - 1
      /\ ring' \in [DOMAIN ring' -> Target]
      /\ also' \in [DOMAIN also' -> Seq(Target)]
      /\ DOMAIN also' \subseteq Int
      /\ nextObj' \in 0 .. MaxObj /\ nextProc' \in Nat
      /\ nextOp' \in 0 .. MaxOp
  BY <1>1, <1>2, <1>3, <1>7, TurnTypeOK
<1>9. budget' \in 0 .. Batch
  BY <1>1, BoundsAssumption DEF TypeOK
<1>10. QED
  BY <1>6, <1>8, <1>9 DEF IInv, TypeOK

\* An answer is data.
LEMMA CompletionData ==
    ASSUME NEW me \in Target, NEW caller \in Target
    PROVE  IsData(<<ChildTaskCompletion(me, caller)>>)
<1>1. ChildTaskCompletion(me, caller) \in Message
  BY DEF ChildTaskCompletion, Message, Target
<1>2. ChildTaskCompletion(me, caller).kind = "done"
  BY DEF ChildTaskCompletion
<1>3. <<ChildTaskCompletion(me, caller)>> \in Seq(Message)
  BY <1>1
<1>4. QED
  BY <1>2, <1>3 DEF IsData

\* Only children are let go of.
LEMMA DroppableType ==
    ASSUME NEW rec, NEW m
    PROVE  Droppable(rec, m) \in SUBSET rec.children
BY DEF Droppable

\* function_call keeps the invariant.
LEMMA FunctionCallIInv == ASSUME IInv, FunctionCall PROVE IInv'
<1> DEFINE m == Head(q)
           o == m.ti.obj
           rec == [objs[o] EXCEPT !.procs = @ \union {m.ti.proc}]
           table == [objs EXCEPT ![o] = rec]
           make == IF LateConstruct THEN MaxMake ELSE 0
           D == Droppable(rec, m)
           After(t) == IF t.ret /\ m.ci # Nobody
                       THEN <<ChildTaskCompletion(m.ti, m.ci)>> ELSE <<>>
<1>1. /\ q # <<>> /\ m.kind = "call" /\ budget > 0 /\ budget' = budget - 1
      /\ o \in Live
      /\ procs' = [p \in DOMAIN procs \union {m.ti.proc} |->
                      IF p = m.ti.proc THEN [obj |-> o, back |-> m.ci]
                      ELSE procs[p]]
  BY DEF FunctionCall, Dequeue
<1>2. PICK t \in Turns(rec, make, MaxCall, D, BOOLEAN) :
         ProcessQueued(table, m.ti, t, After(t))
  BY DEF FunctionCall
<1>3. /\ m.ti \in Target /\ m.ci \in Target /\ o \in Int /\ m.ti.proc \in Int
      /\ TypeOK
  BY <1>1, HeadType DEF IInv
<1>4. objs[o] \in ObjectRecord /\ objs \in [Live -> ObjectRecord]
  BY <1>1, <1>3 DEF TypeOK
<1>5. rec \in ObjectRecord /\ rec.children = objs[o].children
  BY <1>3, <1>4 DEF ObjectRecord
<1>6. /\ table \in [Live -> ObjectRecord] /\ table[o] = rec
      /\ \A p \in Live : table[p].children = objs[p].children
  BY <1>1, <1>4, <1>5
<1>7. D \in SUBSET rec.children
  BY DroppableType
<1>8. IsData(After(t))
  <2>1. IsData(<<>>)
    BY DEF IsData
  <2>2. QED
    BY <1>3, <2>1, CompletionData
<1>9. make \in Nat
  BY BoundsAssumption
<1>10. /\ procs' \in [DOMAIN procs' -> [obj : Int, back : Target]]
       /\ DOMAIN procs' \subseteq Int
  BY <1>1, <1>3 DEF TypeOK
<1> DEFINE me == m.ti
           after == After(t)
<1>11. /\ q # <<>> /\ Head(q).kind # "construct"
       /\ budget > 0 /\ budget' = budget - 1
       /\ table \in [Live -> ObjectRecord]
       /\ \A p \in Live : table[p].children = objs[p].children
       /\ me \in Target /\ me.obj \in Live /\ make \in Nat
       /\ D \in SUBSET table[me.obj].children
       /\ t \in Turns(table[me.obj], make, MaxCall, D, BOOLEAN)
       /\ IsData(after) /\ ProcessQueued(table, me, t, after)
  BY <1>1, <1>2, <1>3, <1>6, <1>7, <1>8, <1>9
<1> HIDE DEF table, make, D, me, after
<1>12. QED
  BY <1>10, <1>11, HandlerIInv

\* A function on 1..n into the messages is a queue.
LEMMA MessageSeq ==
    ASSUME NEW n \in Nat, NEW W \in [1 .. n -> Message]
    PROVE  W \in Seq(Message) /\ Len(W) = n
OBVIOUS

\* Data appended to data is data.
LEMMA DataConcat ==
    ASSUME NEW V, NEW W, IsData(V), IsData(W)
    PROVE  IsData(V \o W)
<1>1. V \in Seq(Message) /\ W \in Seq(Message)
  BY DEF IsData
<1>2. /\ V \o W \in Seq(Message) /\ Len(V \o W) = Len(V) + Len(W)
      /\ \A i \in 1 .. Len(V) : (V \o W)[i] = V[i]
      /\ \A i \in Len(V) + 1 .. Len(V) + Len(W) :
            i - Len(V) \in 1 .. Len(W) /\ (V \o W)[i] = W[i - Len(V)]
  BY <1>1, ConcatAt
<1>3. ASSUME NEW i \in 1 .. Len(V \o W)
      PROVE  (V \o W)[i].kind \in {"io", "done"}
  <2>1. i \in 1 .. Len(V) \/ i \in Len(V) + 1 .. Len(V) + Len(W)
    BY <1>1, <1>2
  <2>2. QED
    BY <1>2, <2>1 DEF IsData
<1>4. QED
  BY <1>2, <1>3 DEF IsData

\* What data_received pushes after process_queued is data.
LEMMA DataQueued ==
    ASSUME TypeOK, NEW m \in Message, m.kind \in {"io", "done"},
           m.ti.obj \in Live, m.ti.proc \in DOMAIN procs,
           NEW D \in SUBSET objs[m.ti.obj].children, NEW t,
           IsTurn(objs[m.ti.obj], D, t)
    PROVE  IsData(Answer(m.ti, t) \o Copies(m, t))
<1> DEFINE me == m.ti
           rec == objs[me.obj]
           hear == Attached(me, t)
           p0 == me.proc
<1>1. rec \in ObjectRecord /\ procs[me.proc].back \in Target /\ me \in Target
  BY DEF TypeOK, Message
<1>2. IsData(<<>>)
  BY DEF IsData
<1>3. IsData(Answer(me, t))
  BY <1>1, <1>2, CompletionData DEF Answer
<1>4. Mapped(rec, m) \in Message /\ Mapped(rec, m).kind = m.kind
  <2>1. LocalTask(rec, m.task) \in Int
    <3>1. CASE m.task \in Elems(rec.called)
      <4>1. rec.called \in Seq(Int)
        BY <1>1 DEF ObjectRecord
      <4>2. \E i \in DOMAIN rec.called : rec.called[i] = m.task
        BY <3>1 DEF Elems
      <4>3. (CHOOSE i \in DOMAIN rec.called : rec.called[i] = m.task)
               \in DOMAIN rec.called
        BY <4>2
      <4>4. DOMAIN rec.called \subseteq Int
        BY <4>1
      <4>5. (CHOOSE i \in DOMAIN rec.called : rec.called[i] = m.task) \in Int
        BY <4>3, <4>4
      <4>6. QED
        BY <3>1, <4>5 DEF LocalTask
    <3>2. CASE m.task \notin Elems(rec.called)
      BY <3>2 DEF LocalTask
    <3>3. QED
      BY <3>1, <3>2
  <2>2. QED
    BY <2>1 DEF Mapped, Message
<1>5. \A p \in DOMAIN hear : hear[p] \in Seq(Target)
  <2> DEFINE Old(p) == IF p \in DOMAIN also THEN also[p] ELSE <<>>
             New(p) == IF p \in t.attach THEN <<me>> ELSE <<>>
  <2>1. hear = [p \in DOMAIN also \union t.attach |-> Old(p) \o New(p)]
    BY DEF Attached
  <2>2. \A p : Old(p) \in Seq(Target) /\ New(p) \in Seq(Target)
    BY <1>1 DEF TypeOK
  <2>3. \A p : Old(p) \o New(p) \in Seq(Target)
    BY <2>2
  <2>4. QED
    BY <2>1, <2>3
<1>6. IsData(Copies(m, t))
  <2>1. CASE p0 \notin DOMAIN hear
    BY <1>2, <2>1 DEF Copies
  <2>2. CASE p0 \in DOMAIN hear
    <3> DEFINE n == Len(hear[p0])
               W == [i \in 1 .. n |->
                        [Mapped(rec, m) EXCEPT !.ti = hear[p0][i]]]
    <3>1. /\ hear[p0] \in Seq(Target) /\ DOMAIN hear[p0] = 1 .. n /\ n \in Nat
          /\ \A i \in 1 .. n : hear[p0][i] \in Target
      BY <1>5, <2>2
    <3>2. Copies(m, t) = W
      BY <2>2, <3>1 DEF Copies
    <3>3. \A i \in 1 .. n : W[i] \in Message /\ W[i].kind = m.kind
      BY <1>4, <3>1 DEF Message
    <3>4. W \in [1 .. n -> Message]
      BY <3>3
    <3> HIDE DEF W, n
    <3>5. W \in Seq(Message) /\ Len(W) = n
      BY <3>1, <3>4, MessageSeq
    <3>6. QED
      BY <3>2, <3>3, <3>5 DEF IsData
  <2>3. QED
    BY <2>1, <2>2
<1>7. QED
  BY <1>3, <1>6, DataConcat

\* data_received keeps the invariant.
LEMMA DataReceivedIInv ==
    ASSUME IInv, NEW kind \in {"io", "done"}, DataReceived(kind)
    PROVE  IInv'
<1> DEFINE m == Head(q)
           me == m.ti
           rec == objs[me.obj]
           make == IF LateConstruct THEN MaxMake ELSE 0
           D == Droppable(rec, m)
           rets == IF procs[me.proc].back = Nobody THEN {FALSE} ELSE BOOLEAN
<1>1. /\ q # <<>> /\ m.kind = kind /\ budget > 0 /\ budget' = budget - 1
      /\ me.obj \in Live /\ me.proc \in DOMAIN procs /\ procs' = procs
  BY DEF DataReceived, Dequeue, Known
<1>2. PICK t \in Turns(rec, make, MaxCall, D, rets) :
         ProcessQueued(objs, me, t, Answer(me, t) \o Copies(m, t))
  BY DEF DataReceived
<1>3. m \in Message /\ me \in Target /\ TypeOK
  BY <1>1, HeadType DEF IInv
<1>4. objs \in [Live -> ObjectRecord] /\ rec \in ObjectRecord
  BY <1>1, <1>3 DEF TypeOK
<1>5. D \in SUBSET rec.children
  BY DroppableType
<1>6. make \in Nat /\ MaxCall \in Nat
  BY BoundsAssumption
<1>7. IsTurn(rec, D, t)
  BY <1>2, <1>3, <1>4, <1>5, <1>6, TurnType
<1>8. IsData(Answer(me, t) \o Copies(m, t))
  BY <1>1, <1>3, <1>5, <1>7, DataQueued
<1>9. /\ procs' \in [DOMAIN procs' -> [obj : Int, back : Target]]
      /\ DOMAIN procs' \subseteq Int
  BY <1>1, <1>3 DEF TypeOK
<1> DEFINE after == Answer(me, t) \o Copies(m, t)
<1>10. /\ q # <<>> /\ Head(q).kind # "construct"
       /\ budget > 0 /\ budget' = budget - 1
       /\ objs \in [Live -> ObjectRecord]
       /\ me \in Target /\ me.obj \in Live /\ make \in Nat
       /\ D \in SUBSET objs[me.obj].children
       /\ t \in Turns(objs[me.obj], make, MaxCall, D, rets)
       /\ IsData(after) /\ ProcessQueued(objs, me, t, after)
  BY <1>1, <1>2, <1>3, <1>4, <1>5, <1>6, <1>8
<1> HIDE DEF me, make, D, rets, after
<1>11. QED
  BY <1>9, <1>10, HandlerIInv

\* Data for an object or a procedure that is gone changes the queue only.
LEMMA DataDroppedIInv ==
    ASSUME IInv, NEW kind \in {"io", "done"}, DataDropped(kind)
    PROVE  IInv'
<1>1. /\ q # <<>> /\ Head(q).kind = kind /\ budget > 0 /\ budget' = budget - 1
      /\ q' = Tail(q)
      /\ UNCHANGED <<objs, procs, ring, also, nextObj, nextProc, nextOp>>
  BY DEF DataDropped, Dequeue
<1>2. Safe(q, Kids, nextObj) /\ TypeOK /\ Batch \in Nat
  BY BoundsAssumption DEF IInv
<1>3. Safe(q', Kids, nextObj)
  BY <1>1, <1>2, SafeTail
<1>4. q' \in Seq(Message)
  BY <1>3 DEF Safe
<1>5. budget' \in 0 .. Batch
  BY <1>1, <1>2 DEF TypeOK
<1>6. TypeOK'
  BY <1>1, <1>2, <1>4, <1>5 DEF TypeOK, Live
<1>7. Kids' = Kids /\ nextObj' = nextObj
  BY <1>1 DEF Kids, Live
<1>8. QED
  BY <1>3, <1>6, <1>7 DEF IInv

\* Delete keeps the invariant.
LEMMA DeleteIInv == ASSUME IInv, Delete PROVE IInv'
<1> DEFINE m == Head(q)
           o == m.ti.obj
           rec == IF o \in Live THEN objs[o] ELSE NewObject
           W(s) == [i \in DOMAIN s |-> Msg("delete", ObjectOnly(s[i]), m.ci)]
<1>1. /\ q # <<>> /\ m.kind = "delete" /\ budget > 0 /\ budget' = budget - 1
      /\ procs' = Without(procs, rec.procs) /\ objs' = Without(objs, {o})
      /\ UNCHANGED <<ring, also, nextObj, nextProc, nextOp>>
  BY DEF Delete, Dequeue
<1>2. PICK s \in Orders(rec.children) : q' = Tail(q) \o W(s)
  BY DEF Delete
<1>3. m.ci \in Target /\ TypeOK /\ Safe(q, Kids, nextObj) /\ Batch \in Nat
  BY <1>1, HeadType, BoundsAssumption DEF IInv
<1>4. rec \in ObjectRecord /\ (o \notin Live => rec.children = {})
  BY <1>3 DEF TypeOK, NewObject, ObjectRecord
<1>5. /\ DOMAIN s = 1 .. Len(s) /\ Len(s) \in Nat
      /\ \A i \in 1 .. Len(s) : s[i] \in rec.children
  <2>1. rec.children \in SUBSET (0 .. MaxObj - 1) /\ MaxObj \in Int
    BY <1>4, BoundsAssumption DEF ObjectRecord
  <2>2. QED
    BY <1>2, <2>1, OrdersSeq
<1>6. \A i \in 1 .. Len(s) :
         /\ Msg("delete", ObjectOnly(s[i]), m.ci) \in Message
         /\ Msg("delete", ObjectOnly(s[i]), m.ci).kind = "delete"
         /\ Msg("delete", ObjectOnly(s[i]), m.ci).ti.obj = s[i]
  <2>1. rec.children \subseteq Int
    BY <1>4 DEF ObjectRecord
  <2>2. QED
    BY <1>3, <1>5, <2>1 DEF Msg, ObjectOnly, Message, Target, NoId
<1>7. W(s) \in Seq(Message) /\ Len(W(s)) = Len(s)
  <2>1. W(s) \in [1 .. Len(s) -> Message]
    BY <1>5, <1>6
  <2>2. QED
    BY <1>5, <2>1, MessageSeq
<1>8. \A i \in 1 .. Len(W(s)) : /\ W(s)[i].kind = "delete" /\ o \in DOMAIN Kids
                                /\ W(s)[i].ti.obj \in Kids[o]
  <2>1. \A c \in rec.children : o \in DOMAIN Kids /\ c \in Kids[o]
    BY <1>4 DEF Kids
  <2>2. QED
    BY <1>5, <1>6, <1>7, <2>1
<1>9. Kids' = [p \in DOMAIN Kids \ {o} |-> Kids[p]]
  BY <1>1 DEF Kids, Live, Without
<1>10. Safe(q', Kids', nextObj')
  <2> DEFINE V == W(s)
  <2>1. /\ V \in Seq(Message) /\ q' = Tail(q) \o V /\ nextObj' = nextObj
        /\ \A i \in 1 .. Len(V) : /\ V[i].kind = "delete" /\ o \in DOMAIN Kids
                                  /\ V[i].ti.obj \in Kids[o]
    BY <1>1, <1>2, <1>7, <1>8
  <2> HIDE DEF V
  <2>2. Safe(Tail(q) \o V, [p \in DOMAIN Kids \ {o} |-> Kids[p]], nextObj)
    BY <1>1, <1>3, <2>1, SafeDelete
  <2>3. QED
    BY <1>9, <2>1, <2>2
<1>11. TypeOK'
  <2>1. q' \in Seq(Message)
    BY <1>10 DEF Safe
  <2>2. budget' \in 0 .. Batch
    BY <1>1, <1>3 DEF TypeOK
  <2>3. /\ procs' \in [DOMAIN procs' -> [obj : Int, back : Target]]
        /\ DOMAIN procs' \subseteq Int
    BY <1>1, <1>3 DEF TypeOK, Without
  <2>4. Live' \subseteq Int /\ objs' \in [Live' -> ObjectRecord]
    BY <1>1, <1>3 DEF TypeOK, Without, Live
  <2>5. QED
    BY <1>1, <1>3, <2>1, <2>2, <2>3, <2>4 DEF TypeOK
<1>12. QED
  BY <1>10, <1>11 DEF IInv

\* process_uring keeps the invariant.
LEMMA RunIInv == ASSUME IInv, Run PROVE IInv'
<1> DEFINE W(s) == [i \in DOMAIN s |-> Msg("io", ring[s[i]], Nobody)]
<1>1. PICK arrived \in SUBSET DOMAIN ring : ProcessUring(arrived)
  BY DEF Run
<1>2. PICK s \in Orders(arrived) : q' = q \o W(s)
  BY <1>1 DEF ProcessUring
<1>3. /\ ring' = Without(ring, arrived) /\ budget' = Batch
      /\ UNCHANGED <<objs, procs, also, nextObj, nextProc, nextOp>>
  BY <1>1 DEF ProcessUring
<1>4. TypeOK /\ Safe(q, Kids, nextObj) /\ Batch \in Nat
  BY BoundsAssumption DEF IInv
<1>5. /\ DOMAIN s = 1 .. Len(s) /\ Len(s) \in Nat
      /\ \A i \in 1 .. Len(s) : s[i] \in DOMAIN ring
  <2>1. arrived \in SUBSET (0 .. MaxOp - 1) /\ MaxOp \in Int
    BY <1>4, BoundsAssumption DEF TypeOK
  <2>2. QED
    BY <2>1, OrdersSeq
<1>6. \A i \in 1 .. Len(s) : /\ Msg("io", ring[s[i]], Nobody) \in Message
                             /\ Msg("io", ring[s[i]], Nobody).kind = "io"
  <2>1. \A i \in 1 .. Len(s) : ring[s[i]] \in Target
    BY <1>4, <1>5 DEF TypeOK
  <2>2. QED
    BY <2>1 DEF Msg, Nobody, ObjectOnly, Message, Target, NoId
<1>7. W(s) \in Seq(Message) /\ Len(W(s)) = Len(s)
  <2>1. W(s) \in [1 .. Len(s) -> Message]
    BY <1>5, <1>6
  <2>2. QED
    BY <1>5, <2>1, MessageSeq
<1>8. \A i \in 1 .. Len(W(s)) : W(s)[i].kind = "io"
  BY <1>5, <1>6, <1>7
<1>9. Safe(q \o W(s), Kids, nextObj)
  <2> HIDE DEF W
  <2>1. QED
    BY <1>4, <1>7, <1>8, SafeCalls
<1>10. Safe(q', Kids', nextObj')
  BY <1>2, <1>3, <1>9 DEF Kids, Live
<1>11. TypeOK'
  <2>1. q' \in Seq(Message)
    BY <1>10 DEF Safe
  <2>2. /\ DOMAIN ring' \subseteq 0 .. MaxOp - 1
        /\ ring' \in [DOMAIN ring' -> Target]
    BY <1>3, <1>4 DEF TypeOK, Without
  <2>3. QED
    BY <1>3, <1>4, <2>1, <2>2 DEF TypeOK, Live
<1>12. QED
  BY <1>10, <1>11 DEF IInv

\* Every step of the thread keeps the queue safe.
LEMMA NextIInv == ASSUME IInv, [Next]_vars PROVE IInv'
<1>1. CASE UNCHANGED vars
  BY <1>1 DEF vars, IInv, TypeOK, Kids, Live
<1>2. CASE Next
  BY <1>2, RootStartIInv, ConstructCallIInv, FunctionCallIInv, DeleteIInv,
     DataReceivedIInv, DataDroppedIInv, RunIInv DEF Next, HandleDequeue
<1>3. QED
  BY <1>1, <1>2
-----------------------------------------------------------------------------
\* handle_dequeue and process_uring keep the types and the bounds of the queue,
\* the tables and the ring, whatever the Event subclasses queue.
THEOREM TypeOKHolds == Spec => []TypeOK
<1>1. IInv => TypeOK
  BY DEF IInv
<1>2. QED
  BY InitIInv, NextIInv, <1>1, PTL DEF Spec

\* function_call may dereference obj_info[obj_id].ptr unchecked: no call in the
\* queue loses its object, for every number of roots and every bound, also when
\* handlers construct late, delete early and constructors call their children.
THEOREM CallTargetAliveHolds == Spec => []CallTargetAlive
<1>1. IInv => CallTargetAlive
  <2> SUFFICES ASSUME IInv
               PROVE  CallTargetAlive
    OBVIOUS
  <2>1. q \in Seq(Message) /\ CallsSafe(q, Kids) /\ DOMAIN Kids = Live
    BY DEF IInv, Safe, Kids
  <2>2. DOMAIN q = 1 .. Len(q)
    BY <2>1
  <2>3. QED
    BY <2>1, <2>2 DEF CallsSafe, CallTargetAlive, Is, Sent
<1>2. QED
  BY InitIInv, NextIInv, <1>1, PTL DEF Spec
-----------------------------------------------------------------------------
(* Ids.  A procedure is started by a root or a call message, an object is   *)
(* made by a root or a construct message ("proc" and "obj" below).          *)
Opens(m, w) ==
    m.kind = "root" \/ m.kind = IF w = "proc" THEN "call" ELSE "construct"
Key(m, w) == IF w = "proc" THEN m.ti.proc ELSE m.ti.obj

\* No id is opened twice: those queued are below n, differ, and are not in D.
Unique(Q, w, D, n) ==
    /\ \A i \in 1 .. Len(Q) : Opens(Q[i], w) => Key(Q[i], w) < n /\ Key(Q[i], w) \notin D
    /\ \A i, j \in 1 .. Len(Q) :
          Opens(Q[i], w) /\ Opens(Q[j], w) /\ Key(Q[i], w) = Key(Q[j], w) => i = j

\* Ids that have been opened.
Opened(Q, w, n) ==
    {x \in Int : x < n /\ \A i \in 1 .. Len(Q) : Opens(Q[i], w) => Key(Q[i], w) # x}

\* The procedures of an obj_info table T are those of a proc_to_dat table P.
Owned(P, T) ==
    /\ \A p \in DOMAIN P : P[p].obj \in DOMAIN T /\ p \in T[P[p].obj].procs
    /\ \A o \in DOMAIN T : \A p \in T[o].procs : p \in DOMAIN P /\ P[p].obj = o

ProcInv ==
    /\ Owned(procs, objs)
    /\ Unique(q, "proc", DOMAIN procs, nextProc)
    /\ \A p \in DOMAIN procs : p < nextProc

-----------------------------------------------------------------------------
(* Ids in the queue.                                                        *)

\* The messages of a sequence, when it is popped and when it is appended to.
LEMMA TailMessages ==
    ASSUME NEW Q \in Seq(Message), Q # <<>>
    PROVE  /\ Head(Q) \in Elems(Q) /\ Elems(Tail(Q)) \subseteq Elems(Q)
           /\ Elems(Q) = {Head(Q)} \union Elems(Tail(Q))
<1>1. /\ DOMAIN Q = 1 .. Len(Q) /\ DOMAIN Tail(Q) = 1 .. Len(Q) - 1
      /\ Len(Q) \in Nat \ {0} /\ Head(Q) = Q[1]
      /\ \A i \in 1 .. Len(Q) - 1 : Tail(Q)[i] = Q[i + 1]
  BY TailAt
<1>2. Elems(Tail(Q)) \subseteq Elems(Q) /\ Head(Q) \in Elems(Q)
  BY <1>1 DEF Elems
<1>3. ASSUME NEW m \in Elems(Q)
      PROVE  m = Head(Q) \/ m \in Elems(Tail(Q))
  <2>1. PICK i \in 1 .. Len(Q) : m = Q[i]
    BY <1>1 DEF Elems
  <2>2. CASE i # 1
    <3>1. i - 1 \in 1 .. Len(Q) - 1 /\ Tail(Q)[i - 1] = m
      BY <1>1, <2>1, <2>2
    <3>2. QED
      BY <1>1, <3>1 DEF Elems
  <2>3. QED
    BY <1>1, <2>1, <2>2
<1>4. QED
  BY <1>2, <1>3

\* The messages of two queues, one behind the other.
LEMMA ConcatMessages ==
    ASSUME NEW Q \in Seq(Message), NEW W \in Seq(Message)
    PROVE  Elems(Q \o W) = Elems(Q) \union Elems(W)
<1>1. /\ DOMAIN Q = 1 .. Len(Q) /\ DOMAIN W = 1 .. Len(W)
      /\ DOMAIN (Q \o W) = 1 .. Len(Q \o W) /\ Len(Q) \in Nat /\ Len(W) \in Nat
  BY ConcatAt
<1>2. ASSUME NEW m \in Elems(Q \o W)
      PROVE  m \in Elems(Q) \union Elems(W)
  <2>1. PICK i \in 1 .. Len(Q \o W) : m = (Q \o W)[i]
    BY <1>1 DEF Elems
  <2>2. i \in 1 .. Len(Q) \/ i \in Len(Q) + 1 .. Len(Q) + Len(W)
    BY <1>1, ConcatAt
  <2>3. QED
    BY <1>1, <2>1, <2>2, ConcatAt DEF Elems
<1>3. ASSUME NEW m \in Elems(Q)
      PROVE  m \in Elems(Q \o W)
  <2>1. PICK i \in 1 .. Len(Q) : m = Q[i]
    BY <1>1 DEF Elems
  <2>2. i \in 1 .. Len(Q \o W) /\ (Q \o W)[i] = m
    BY <1>1, <2>1, ConcatAt
  <2>3. QED
    BY <1>1, <2>2 DEF Elems
<1>4. ASSUME NEW m \in Elems(W)
      PROVE  m \in Elems(Q \o W)
  <2>1. PICK i \in 1 .. Len(W) : m = W[i]
    BY <1>1 DEF Elems
  <2>2. /\ Len(Q) + i \in 1 .. Len(Q \o W)
        /\ Len(Q) + i \in Len(Q) + 1 .. Len(Q) + Len(W) /\ Len(Q) + i - Len(Q) = i
    BY <1>1, ConcatAt
  <2>3. (Q \o W)[Len(Q) + i] = m
    BY <2>1, <2>2, ConcatAt
  <2>4. QED
    BY <1>1, <2>2, <2>3 DEF Elems
<1>5. QED
  BY <1>2, <1>3, <1>4

\* The head opens its id: it is new, and no one else in the queue has it.
LEMMA Popped ==
    ASSUME NEW Q \in Seq(Message), Q # <<>>, NEW w, NEW D, NEW n,
           Unique(Q, w, D, n)
    PROVE  /\ Unique(Tail(Q), w, D, n)
           /\ Opened(Q, w, n) \subseteq Opened(Tail(Q), w, n)
           /\ Opens(Head(Q), w) =>
                 LET k == Key(Head(Q), w) IN
                 /\ k \notin D /\ k < n /\ k \notin Opened(Q, w, n)
                 /\ Unique(Tail(Q), w, D \union {k}, n)
                 /\ k \in Int => k \in Opened(Tail(Q), w, n)
<1>1. /\ Len(Q) \in Nat \ {0} /\ Len(Tail(Q)) = Len(Q) - 1 /\ Head(Q) = Q[1]
      /\ \A i \in 1 .. Len(Q) - 1 : Tail(Q)[i] = Q[i + 1]
  BY TailAt
<1>2. \A i \in 1 .. Len(Tail(Q)) : i + 1 \in 1 .. Len(Q) /\ Tail(Q)[i] = Q[i + 1]
  BY <1>1
<1>3. 1 \in 1 .. Len(Q) /\ \A i \in 1 .. Len(Tail(Q)) : i + 1 # 1
  BY <1>1
<1>4. \A i, j \in 1 .. Len(Tail(Q)) : i + 1 = j + 1 => i = j
  BY <1>1
<1>5. Unique(Tail(Q), w, D, n)
  <2>1. \A i, j \in 1 .. Len(Tail(Q)) :
           Opens(Tail(Q)[i], w) /\ Opens(Tail(Q)[j], w)
           /\ Key(Tail(Q)[i], w) = Key(Tail(Q)[j], w) => i + 1 = j + 1
    BY <1>2 DEF Unique
  <2>2. QED
    BY <1>2, <1>4, <2>1 DEF Unique
<1>6. Opened(Q, w, n) \subseteq Opened(Tail(Q), w, n)
  BY <1>2 DEF Opened
<1>7. ASSUME Opens(Q[1], w), NEW k, k = Key(Q[1], w)
      PROVE  /\ k \notin D /\ k < n /\ k \notin Opened(Q, w, n)
             /\ Unique(Tail(Q), w, D \union {k}, n)
             /\ k \in Int => k \in Opened(Tail(Q), w, n)
  <2>1. k \notin D /\ k < n /\ k \notin Opened(Q, w, n)
    BY <1>3, <1>7 DEF Unique, Opened
  <2>2. \A i \in 1 .. Len(Tail(Q)) : Opens(Tail(Q)[i], w) => Key(Tail(Q)[i], w) # k
    <3>1. SUFFICES ASSUME NEW i \in 1 .. Len(Tail(Q)), Opens(Tail(Q)[i], w),
                          Key(Tail(Q)[i], w) = k
                   PROVE  FALSE
      OBVIOUS
    <3>2. i + 1 = 1
      BY <1>2, <1>3, <1>7, <3>1 DEF Unique
    <3>3. QED
      BY <1>3, <3>2
  <2>3. QED
    BY <1>5, <2>1, <2>2 DEF Unique, Opened
<1>8. QED
  BY <1>1, <1>5, <1>6, <1>7

\* New ids are opened at the end of the queue.
LEMMA Appended ==
    ASSUME NEW Q \in Seq(Message), NEW W \in Seq(Message), NEW w, NEW D,
           NEW n \in Int, NEW m \in Int, n <= m, D \subseteq Int, \A d \in D : d < n,
           Unique(Q, w, D, n),
           \A i \in 1 .. Len(W) : Opens(W[i], w) => Key(W[i], w) = n + i - 1 /\ n + i - 1 < m
    PROVE  /\ Unique(Q \o W, w, D, m) /\ \A d \in D : d < m
           /\ Opened(Q, w, n) \subseteq Opened(Q \o W, w, m)
<1>0. \A i \in 1 .. Len(Q) : Key(Q[i], w) \in Int
  <2>1. \A i \in 1 .. Len(Q) : Q[i] \in Message
    OBVIOUS
  <2>2. \A p \in Message : Key(p, w) \in Int
    BY DEF Key, Message, Target
  <2>3. QED
    BY <2>1, <2>2
<1>1. /\ Len(Q) \in Nat /\ Len(W) \in Nat /\ Len(Q \o W) = Len(Q) + Len(W)
      /\ \A i \in 1 .. Len(Q) : (Q \o W)[i] = Q[i]
      /\ \A i \in Len(Q) + 1 .. Len(Q) + Len(W) :
            i - Len(Q) \in 1 .. Len(W) /\ (Q \o W)[i] = W[i - Len(Q)]
  BY ConcatAt
<1> DEFINE P == Q \o W
<1>2. ASSUME NEW i \in 1 .. Len(P), Opens(P[i], w)
      PROVE  \/ i \in 1 .. Len(Q) /\ P[i] = Q[i] /\ Opens(Q[i], w) /\ Key(P[i], w) < n
             \/ /\ i - Len(Q) \in 1 .. Len(W) /\ i \notin 1 .. Len(Q)
                /\ Key(P[i], w) = n + (i - Len(Q)) - 1 /\ Key(P[i], w) < m
  <2>1. CASE i \in 1 .. Len(Q)
    BY <1>1, <1>2, <2>1 DEF Unique
  <2>2. CASE i \notin 1 .. Len(Q)
    <3>1. i \in Len(Q) + 1 .. Len(Q) + Len(W)
      BY <1>1, <2>2
    <3>2. i - Len(Q) \in 1 .. Len(W) /\ P[i] = W[i - Len(Q)]
      BY <1>1, <3>1
    <3>3. QED
      BY <1>2, <2>2, <3>2
  <2>3. QED
    BY <2>1, <2>2
<1>3. \A i \in 1 .. Len(W) : n + i - 1 \in Int /\ n + i - 1 >= n
  OBVIOUS
<1> HIDE DEF P
<1>4. ASSUME NEW i \in 1 .. Len(P), Opens(P[i], w)
      PROVE  Key(P[i], w) < m /\ Key(P[i], w) \notin D
  <2>1. CASE i \in 1 .. Len(Q) /\ P[i] = Q[i] /\ Opens(Q[i], w) /\ Key(P[i], w) < n
    <3>1. Key(P[i], w) \in Int
      BY <1>0, <2>1
    <3>2. QED
      BY <2>1, <3>1 DEF Unique
  <2>2. CASE i - Len(Q) \in 1 .. Len(W) /\ Key(P[i], w) = n + (i - Len(Q)) - 1
             /\ Key(P[i], w) < m
    <3>1. Key(P[i], w) \in Int /\ Key(P[i], w) >= n
      BY <1>3, <2>2
    <3>2. Key(P[i], w) \notin D
      BY <3>1
    <3>3. QED
      BY <2>2, <3>2
  <2>3. QED
    BY <1>2, <1>4, <2>1, <2>2
<1>5. ASSUME NEW i \in 1 .. Len(P), NEW j \in 1 .. Len(P), Opens(P[i], w),
             Opens(P[j], w), Key(P[i], w) = Key(P[j], w)
      PROVE  i = j
  <2>1. CASE i \in 1 .. Len(Q) /\ j \in 1 .. Len(Q)
    BY <1>2, <1>5, <2>1 DEF Unique
  <2>2. CASE i \notin 1 .. Len(Q) /\ j \notin 1 .. Len(Q)
    <3>1. n + (i - Len(Q)) - 1 = n + (j - Len(Q)) - 1
      BY <1>2, <1>5, <2>2
    <3>2. i \in Int /\ j \in Int
      OBVIOUS
    <3>3. QED
      BY <1>1, <3>1, <3>2
  <2>3. CASE i \in 1 .. Len(Q) /\ j \notin 1 .. Len(Q)
    <3>1. Key(P[i], w) < n /\ Key(P[i], w) \in Int
      BY <1>0, <1>2, <1>5, <2>3
    <3>2. Key(P[j], w) >= n /\ Key(P[j], w) \in Int
      BY <1>2, <1>3, <1>5, <2>3
    <3>3. QED
      BY <1>5, <3>1, <3>2
  <2>4. CASE i \notin 1 .. Len(Q) /\ j \in 1 .. Len(Q)
    <3>1. Key(P[j], w) < n /\ Key(P[j], w) \in Int
      BY <1>0, <1>2, <1>5, <2>4
    <3>2. Key(P[i], w) >= n /\ Key(P[i], w) \in Int
      BY <1>2, <1>3, <1>5, <2>4
    <3>3. QED
      BY <1>5, <3>1, <3>2
  <2>5. QED
    BY <2>1, <2>2, <2>3, <2>4
<1>6. ASSUME NEW x \in Opened(Q, w, n)
      PROVE  x \in Opened(P, w, m)
  <2>1. /\ x \in Int /\ x < n
        /\ \A i \in 1 .. Len(Q) : Opens(Q[i], w) => Key(Q[i], w) # x
    BY DEF Opened
  <2>2. x < m
    BY <2>1
  <2>3. \A i \in 1 .. Len(P) : Opens(P[i], w) => Key(P[i], w) # x
    <3>1. SUFFICES ASSUME NEW i \in 1 .. Len(P), Opens(P[i], w), Key(P[i], w) = x
                   PROVE  FALSE
      OBVIOUS
    <3>2. ~(Key(P[i], w) >= n)
      BY <2>1, <3>1
    <3>3. i \in 1 .. Len(Q) /\ P[i] = Q[i] /\ Opens(Q[i], w)
      BY <1>2, <1>3, <3>1, <3>2
    <3>4. QED
      BY <2>1, <3>1, <3>3
  <2>4. QED
    BY <2>1, <2>2, <2>3 DEF Opened
<1>7. \A d \in D : d < m
  OBVIOUS
<1>8. Unique(P, w, D, m)
  BY <1>4, <1>5 DEF Unique
<1>9. QED
  BY <1>6, <1>7, <1>8 DEF P

\* Messages that open nothing.
LEMMA AppendedNone ==
    ASSUME NEW Q \in Seq(Message), NEW W \in Seq(Message), NEW w, NEW D,
           NEW n \in Int, D \subseteq Int, \A d \in D : d < n, Unique(Q, w, D, n),
           \A i \in 1 .. Len(W) : ~Opens(W[i], w)
    PROVE  Unique(Q \o W, w, D, n) /\ Opened(Q, w, n) \subseteq Opened(Q \o W, w, n)
<1>1. n <= n
  OBVIOUS
<1>2. QED
  BY <1>1, Appended

\* Appending twice.
LEMMA Assoc ==
    ASSUME NEW Q \in Seq(Message), NEW V \in Seq(Message), NEW W \in Seq(Message)
    PROVE  Q \o (V \o W) = (Q \o V) \o W
OBVIOUS

\* What a turn queues, by kind.
QueuedShape(me, t) ==
    /\ Constructs(me, t) \in Seq(Message) /\ Calls(me, t) \in Seq(Message)
    /\ Deletes(me, t) \in Seq(Message)
    /\ Len(Constructs(me, t)) = t.make /\ Len(Calls(me, t)) = Len(t.call)
    /\ \A i \in 1 .. Len(Constructs(me, t)) :
          /\ Constructs(me, t)[i].kind = "construct"
          /\ Constructs(me, t)[i].ti.obj = nextObj + i - 1
    /\ \A i \in 1 .. Len(Calls(me, t)) :
          /\ Calls(me, t)[i].kind = "call" /\ Calls(me, t)[i].ci = me
          /\ Calls(me, t)[i].ti.proc = nextProc + i - 1
    /\ \A i \in 1 .. Len(Deletes(me, t)) : Deletes(me, t)[i].kind = "delete"

\* A turn queues constructions, calls and deletions.
LEMMA QueuedIs ==
    ASSUME TypeOK, NEW me \in Target, NEW rec \in ObjectRecord,
           NEW D \in SUBSET rec.children, NEW t, IsTurn(rec, D, t)
    PROVE  QueuedShape(me, t)
<1>1. /\ Constructs(me, t) \in Seq(Message) /\ Calls(me, t) \in Seq(Message)
      /\ Deletes(me, t) \in Seq(Message)
      /\ \A i \in 1 .. Len(Deletes(me, t)) :
            /\ Deletes(me, t)[i].kind = "delete"
            /\ Deletes(me, t)[i].ti.obj \in Elems(t.drop)
  BY QueuedParts, Zenon
<1>2. /\ t.make \in Nat /\ DOMAIN t.call = 1 .. Len(t.call) /\ Len(t.call) \in Nat
  BY DEF IsTurn
<1>3. /\ Len(Constructs(me, t)) = t.make
      /\ \A i \in 1 .. t.make :
           Constructs(me, t)[i] = Msg("construct", ObjectOnly(nextObj + i - 1), me)
  BY <1>1, <1>2 DEF Constructs
<1>4. /\ Len(Calls(me, t)) = Len(t.call)
      /\ \A i \in 1 .. Len(t.call) :
           Calls(me, t)[i] = Msg("call", [obj |-> t.call[i], proc |-> nextProc + i - 1], me)
  BY <1>1, <1>2 DEF Calls, NewProcs
<1>5. \A c, p, o : /\ Msg("construct", ObjectOnly(c), me).kind = "construct"
                   /\ Msg("construct", ObjectOnly(c), me).ti.obj = c
                   /\ Msg("call", [obj |-> o, proc |-> p], me).kind = "call"
                   /\ Msg("call", [obj |-> o, proc |-> p], me).ci = me
                   /\ Msg("call", [obj |-> o, proc |-> p], me).ti.proc = p
  BY DEF Msg, ObjectOnly
<1>6. \A i \in 1 .. t.make : /\ Constructs(me, t)[i].kind = "construct"
                            /\ Constructs(me, t)[i].ti.obj = nextObj + i - 1
  BY <1>3, <1>5
<1>7. \A i \in 1 .. Len(t.call) :
         /\ Calls(me, t)[i].kind = "call" /\ Calls(me, t)[i].ci = me
         /\ Calls(me, t)[i].ti.proc = nextProc + i - 1
  <2>1. TAKE i \in 1 .. Len(t.call)
  <2>2. Calls(me, t)[i] = Msg("call", [obj |-> t.call[i], proc |-> nextProc + i - 1], me)
    BY <1>4
  <2>3. QED
    BY <2>2 DEF Msg
<1>8. \A i \in 1 .. Len(Deletes(me, t)) : Deletes(me, t)[i].kind = "delete"
  BY <1>1
<1>9. QED
  BY <1>1, <1>3, <1>4, <1>6, <1>7, <1>8, Zenon DEF QueuedShape

\* What a turn puts in the queue and in the ring.
Pushes(me, t, after) ==
    /\ \A m \in Elems(q') :
          \/ m \in Elems(Tail(q)) \/ m \in Elems(after)
          \/ m.kind \in {"construct", "delete"}
          \/ /\ m.kind = "call" /\ m.ci = me /\ Len(t.call) # 0
             /\ m.ti.proc \in Elems(objs'[me.obj].called)
    /\ \A op \in DOMAIN ring' : \/ op \in DOMAIN ring /\ ring'[op] = ring[op]
                                \/ ring'[op] = me /\ t.arm # 0

\* What a turn does to ids, to the queue's messages and to the tables.
LEMMA TurnIs ==
    ASSUME TypeOK, NEW table, table \in [DOMAIN table -> ObjectRecord],
           NEW me \in Target, me.obj \in DOMAIN table,
           NEW D \in SUBSET table[me.obj].children, NEW t,
           IsTurn(table[me.obj], D, t), q # <<>>,
           NEW after, IsData(after), ProcessQueued(table, me, t, after)
    PROVE  /\ q' \in Seq(Message) /\ nextProc' \in Int /\ nextProc <= nextProc'
           /\ \A X \in SUBSET Int :
                 Unique(Tail(q), "proc", X, nextProc) /\ (\A x \in X : x < nextProc) =>
                    /\ Unique(q', "proc", X, nextProc')
                    /\ Opened(Tail(q), "proc", nextProc) \subseteq Opened(q', "proc", nextProc')
           /\ \A X \in SUBSET Int :
                 Unique(Tail(q), "obj", X, nextObj) /\ (\A x \in X : x < nextObj) =>
                    /\ Unique(q', "obj", X, nextObj')
                    /\ Opened(Tail(q), "obj", nextObj) \subseteq Opened(q', "obj", nextObj')
           /\ Pushes(me, t, after)
           /\ DOMAIN objs' = DOMAIN table
           /\ \A o \in DOMAIN table :
                 /\ objs'[o].procs = table[o].procs
                 /\ Elems(table[o].called) \subseteq Elems(objs'[o].called)
           /\ nextObj <= nextObj' /\ nextObj' \in Int
<1> DEFINE C == Constructs(me, t)
           F == Calls(me, t)
           G == Deletes(me, t)
           Q0 == Tail(q)
           Q1 == Q0 \o C
           Q2 == Q1 \o F
           Q3 == Q2 \o G
           rec == table[me.obj]
<1>1. /\ nextObj \in Int /\ nextProc \in Int /\ t.make \in Nat /\ Len(t.call) \in Nat
      /\ DOMAIN t.call = 1 .. Len(t.call)
      /\ nextObj' = nextObj + t.make /\ nextProc' = nextProc + Len(t.call)
      /\ rec \in ObjectRecord /\ Q0 \in Seq(Message) /\ after \in Seq(Message)
  <2>1. Q0 \in Seq(Message)
    BY TailAt DEF TypeOK
  <2>2. QED
    BY <2>1 DEF TypeOK, IsTurn, ProcessQueued, IsData
<1>2. /\ C \in Seq(Message) /\ F \in Seq(Message) /\ G \in Seq(Message)
      /\ Len(C) = t.make /\ Len(F) = Len(t.call)
      /\ \A i \in 1 .. Len(C) : C[i].kind = "construct" /\ C[i].ti.obj = nextObj + i - 1
      /\ \A i \in 1 .. Len(F) : /\ F[i].kind = "call" /\ F[i].ci = me
                                /\ F[i].ti.proc = nextProc + i - 1
      /\ \A i \in 1 .. Len(G) : G[i].kind = "delete"
  <2>1. /\ TypeOK /\ me \in Target /\ rec \in ObjectRecord /\ D \in SUBSET rec.children
        /\ IsTurn(rec, D, t)
    BY <1>1
  <2>2. QueuedShape(me, t)
    <3> HIDE DEF rec
    <3>1. QED
      BY <2>1, QueuedIs
  <2>3. QED
    BY <2>2 DEF QueuedShape
<1>3. \A i \in 1 .. Len(after) : after[i].kind \in {"io", "done"}
  BY DEF IsData
<1>4. q' = Q3 \o after
  <2>1. q' = Tail(q) \o Queued(me, t) \o after
    BY DEF ProcessQueued
  <2>2. Q0 \o ((C \o F) \o G) = ((Q0 \o C) \o F) \o G
    <3> HIDE DEF C, F, G, Q0
    <3>0. C \o F \in Seq(Message)
      BY <1>2
    <3>1. Q0 \o ((C \o F) \o G) = (Q0 \o (C \o F)) \o G
      BY <1>1, <1>2, <3>0, Assoc
    <3>2. Q0 \o (C \o F) = (Q0 \o C) \o F
      BY <1>1, <1>2, Assoc
    <3>3. QED
      BY <3>1, <3>2
  <2>3. Queued(me, t) = (C \o F) \o G
    BY DEF Queued
  <2>4. QED
    BY <2>1, <2>2, <2>3
<1> HIDE DEF C, F, G, Q0
<1>5. Q1 \in Seq(Message) /\ Q2 \in Seq(Message) /\ Q3 \in Seq(Message)
  BY <1>1, <1>2
<1> HIDE DEF Q1, Q2, Q3
<1>7. ASSUME NEW x \in SUBSET Int, Unique(Q0, "proc", x, nextProc),
             \A d \in x : d < nextProc
      PROVE  /\ Unique(q', "proc", x, nextProc')
             /\ Opened(Q0, "proc", nextProc) \subseteq Opened(q', "proc", nextProc')
  <2>1. nextProc' \in Int /\ nextProc <= nextProc'
    BY <1>1
  <2>2. /\ Unique(Q1, "proc", x, nextProc)
        /\ Opened(Q0, "proc", nextProc) \subseteq Opened(Q1, "proc", nextProc)
    <3>1. \A i \in 1 .. Len(C) : ~Opens(C[i], "proc")
      BY <1>2 DEF Opens
    <3>2. QED
      BY <1>1, <1>2, <1>7, <3>1, AppendedNone DEF Q1
  <2>3. /\ Unique(Q2, "proc", x, nextProc') /\ \A d \in x : d < nextProc'
        /\ Opened(Q1, "proc", nextProc) \subseteq Opened(Q2, "proc", nextProc')
    <3>1. \A i \in 1 .. Len(F) :
             Key(F[i], "proc") = nextProc + i - 1 /\ nextProc + i - 1 < nextProc'
      BY <1>1, <1>2 DEF Key
    <3>2. /\ Q1 \in Seq(Message) /\ F \in Seq(Message) /\ nextProc \in Int
          /\ x \subseteq Int /\ Unique(Q1, "proc", x, nextProc)
          /\ \A i \in 1 .. Len(F) : Opens(F[i], "proc") =>
                Key(F[i], "proc") = nextProc + i - 1 /\ nextProc + i - 1 < nextProc'
      BY <1>1, <1>2, <1>5, <1>7, <2>2, <3>1
    <3>3. QED
      BY <1>7, <2>1, <3>2, Appended DEF Q2
  <2>4. /\ Unique(Q3, "proc", x, nextProc')
        /\ Opened(Q2, "proc", nextProc') \subseteq Opened(Q3, "proc", nextProc')
    <3>1. \A i \in 1 .. Len(G) : ~Opens(G[i], "proc")
      BY <1>2 DEF Opens
    <3>2. QED
      BY <1>2, <1>5, <2>1, <2>3, <3>1, AppendedNone DEF Q3
  <2>5. \A i \in 1 .. Len(after) : ~Opens(after[i], "proc")
    BY <1>3 DEF Opens
  <2>6. /\ Unique(q', "proc", x, nextProc')
        /\ Opened(Q3, "proc", nextProc') \subseteq Opened(q', "proc", nextProc')
    BY <1>1, <1>4, <1>5, <2>1, <2>3, <2>4, <2>5, AppendedNone
  <2>7. QED
    BY <2>2, <2>3, <2>4, <2>6
<1>8. ASSUME NEW x \in SUBSET Int, Unique(Q0, "obj", x, nextObj),
             \A d \in x : d < nextObj
      PROVE  /\ Unique(q', "obj", x, nextObj')
             /\ Opened(Q0, "obj", nextObj) \subseteq Opened(q', "obj", nextObj')
  <2>1. nextObj' \in Int /\ nextObj <= nextObj'
    BY <1>1
  <2>2. /\ Unique(Q1, "obj", x, nextObj') /\ \A d \in x : d < nextObj'
        /\ Opened(Q0, "obj", nextObj) \subseteq Opened(Q1, "obj", nextObj')
    <3>1. \A i \in 1 .. Len(C) :
             Key(C[i], "obj") = nextObj + i - 1 /\ nextObj + i - 1 < nextObj'
      BY <1>1, <1>2 DEF Key
    <3>2. /\ Q0 \in Seq(Message) /\ C \in Seq(Message) /\ nextObj \in Int
          /\ x \subseteq Int /\ Unique(Q0, "obj", x, nextObj)
          /\ \A i \in 1 .. Len(C) : Opens(C[i], "obj") =>
                Key(C[i], "obj") = nextObj + i - 1 /\ nextObj + i - 1 < nextObj'
      BY <1>1, <1>2, <1>8, <3>1
    <3>3. QED
      BY <1>8, <2>1, <3>2, Appended DEF Q1
  <2>3. /\ Unique(Q2, "obj", x, nextObj')
        /\ Opened(Q1, "obj", nextObj') \subseteq Opened(Q2, "obj", nextObj')
    <3>1. \A i \in 1 .. Len(F) : ~Opens(F[i], "obj")
      BY <1>2 DEF Opens
    <3>2. QED
      BY <1>2, <1>5, <2>1, <2>2, <3>1, AppendedNone DEF Q2
  <2>4. /\ Unique(Q3, "obj", x, nextObj')
        /\ Opened(Q2, "obj", nextObj') \subseteq Opened(Q3, "obj", nextObj')
    <3>1. \A i \in 1 .. Len(G) : ~Opens(G[i], "obj")
      BY <1>2 DEF Opens
    <3>2. QED
      BY <1>2, <1>5, <2>1, <2>2, <2>3, <3>1, AppendedNone DEF Q3
  <2>5. \A i \in 1 .. Len(after) : ~Opens(after[i], "obj")
    BY <1>3 DEF Opens
  <2>6. /\ Unique(q', "obj", x, nextObj')
        /\ Opened(Q3, "obj", nextObj') \subseteq Opened(q', "obj", nextObj')
    BY <1>1, <1>4, <1>5, <2>1, <2>2, <2>4, <2>5, AppendedNone
  <2>7. QED
    BY <2>2, <2>3, <2>4, <2>6
<1>9. /\ objs' = [table EXCEPT ![me.obj] = AfterTurn(rec, t)]
      /\ AfterTurn(rec, t).procs = rec.procs
      /\ AfterTurn(rec, t).called = rec.called \o NewProcs(t)
  BY <1>1 DEF ProcessQueued, AfterTurn, ObjectRecord
<1>10. Elems(AfterTurn(rec, t).called)
          = Elems(rec.called) \union {nextProc + i - 1 : i \in 1 .. Len(t.call)}
  <2> DEFINE A == rec.called
             N == NewProcs(t)
  <2>1. /\ A \in Seq(Int) /\ N = [i \in 1 .. Len(t.call) |-> nextProc + i - 1]
        /\ N \in [1 .. Len(t.call) -> Int]
    BY <1>1 DEF ObjectRecord, NewProcs
  <2>2. N \in Seq(Int) /\ Len(N) = Len(t.call) /\ Len(t.call) \in Nat
        /\ \A i \in 1 .. Len(N) : N[i] = nextProc + i - 1
    BY <1>1, <2>1
  <2> HIDE DEF N, A
  <2>3. /\ DOMAIN (A \o N) = 1 .. Len(A) + Len(N) /\ DOMAIN A = 1 .. Len(A)
        /\ Len(A) \in Nat /\ \A i \in 1 .. Len(A) : (A \o N)[i] = A[i]
        /\ \A i \in 1 .. Len(N) : (A \o N)[Len(A) + i] = N[i]
    BY <2>1, <2>2
  <2>4. ASSUME NEW i \in 1 .. Len(A) + Len(N)
        PROVE  \/ i \in 1 .. Len(A) /\ (A \o N)[i] = A[i]
               \/ i - Len(A) \in 1 .. Len(N) /\ (A \o N)[i] = N[i - Len(A)]
    <3>1. CASE i \in 1 .. Len(A)
      BY <2>3, <3>1
    <3>2. CASE i \notin 1 .. Len(A)
      <4>1. i - Len(A) \in 1 .. Len(N) /\ Len(A) + (i - Len(A)) = i
        BY <2>2, <2>3, <3>2
      <4>2. QED
        BY <2>3, <4>1
    <3>3. QED
      BY <3>1, <3>2
  <2>5. ASSUME NEW e \in Elems(A \o N)
        PROVE  e \in Elems(A) \union {nextProc + i - 1 : i \in 1 .. Len(t.call)}
    <3>1. PICK i \in 1 .. Len(A) + Len(N) : e = (A \o N)[i]
      BY <2>3 DEF Elems
    <3>2. QED
      BY <2>2, <2>3, <2>4, <3>1 DEF Elems
  <2>6. ASSUME NEW e \in Elems(A)
        PROVE  e \in Elems(A \o N)
    <3>1. PICK i \in 1 .. Len(A) : e = A[i]
      BY <2>3 DEF Elems
    <3>2. i \in 1 .. Len(A) + Len(N) /\ (A \o N)[i] = e
      BY <2>2, <2>3, <3>1
    <3>3. QED
      BY <2>3, <3>2 DEF Elems
  <2>7. ASSUME NEW i \in 1 .. Len(t.call)
        PROVE  nextProc + i - 1 \in Elems(A \o N)
    <3>1. Len(A) + i \in 1 .. Len(A) + Len(N) /\ (A \o N)[Len(A) + i] = nextProc + i - 1
      BY <2>2, <2>3
    <3>2. QED
      BY <2>3, <3>1 DEF Elems
  <2>8. Elems(A \o N) = Elems(A) \union {nextProc + i - 1 : i \in 1 .. Len(t.call)}
    BY <2>5, <2>6, <2>7
  <2>9. QED
    BY <1>9, <2>8 DEF A, N
<1>11. Elems(q') = Elems(Q0) \union Elems(C) \union Elems(F) \union Elems(G)
                      \union Elems(after)
  <2>1. Elems(q') = Elems(Q3) \union Elems(after)
    BY <1>1, <1>4, <1>5, ConcatMessages
  <2>2. Elems(Q3) = Elems(Q2) \union Elems(G)
    BY <1>2, <1>5, ConcatMessages DEF Q3
  <2>3. Elems(Q2) = Elems(Q1) \union Elems(F)
    BY <1>2, <1>5, ConcatMessages DEF Q2
  <2>4. Elems(Q1) = Elems(Q0) \union Elems(C)
    BY <1>1, <1>2, ConcatMessages DEF Q1
  <2>5. QED
    BY <2>1, <2>2, <2>3, <2>4
<1>12. DOMAIN C = 1 .. Len(C) /\ DOMAIN F = 1 .. Len(F) /\ DOMAIN G = 1 .. Len(G)
  BY <1>2
<1>13. /\ DOMAIN objs' = DOMAIN table /\ objs'[me.obj] = AfterTurn(rec, t)
       /\ \A o \in DOMAIN table : o # me.obj => objs'[o] = table[o]
  BY <1>9
<1>14. \A m \in Elems(F) : /\ m.kind = "call" /\ m.ci = me /\ Len(t.call) # 0
                           /\ m.ti.proc \in Elems(objs'[me.obj].called)
  <2>1. TAKE m \in Elems(F)
  <2>2. PICK i \in 1 .. Len(F) : m = F[i]
    BY <1>12 DEF Elems
  <2>3. m.kind = "call" /\ m.ci = me /\ m.ti.proc = nextProc + i - 1
    BY <1>2, <2>2
  <2>4. i \in 1 .. Len(t.call) /\ Len(t.call) # 0
    BY <1>1, <1>2
  <2>5. m.ti.proc \in Elems(AfterTurn(rec, t).called)
    BY <1>10, <2>3, <2>4
  <2>6. QED
    BY <1>13, <2>3, <2>4, <2>5
<1>15. /\ \A m \in Elems(C) : m.kind = "construct"
       /\ \A m \in Elems(G) : m.kind = "delete"
  BY <1>2, <1>12 DEF Elems
<1>16. \A m \in Elems(q') :
                 \/ m \in Elems(Q0) \/ m \in Elems(after)
                 \/ m.kind \in {"construct", "delete"}
                 \/ /\ m.kind = "call" /\ m.ci = me /\ Len(t.call) # 0
                    /\ m.ti.proc \in Elems(objs'[me.obj].called)
  BY <1>11, <1>14, <1>15
<1>17. \A o \in DOMAIN table :
                 /\ objs'[o].procs = table[o].procs
                 /\ Elems(table[o].called) \subseteq Elems(objs'[o].called)
  BY <1>9, <1>10, <1>13
<1>18. \A op \in DOMAIN ring' : \/ op \in DOMAIN ring /\ ring'[op] = ring[op]
                                \/ ring'[op] = me /\ t.arm # 0
  <2>1. ring' = [op \in DOMAIN ring \union (nextOp .. nextOp + t.arm - 1) |->
                    IF op \in DOMAIN ring THEN ring[op] ELSE me]
    BY DEF ProcessQueued
  <2>2. t.arm = 0 => nextOp .. nextOp + t.arm - 1 = {}
    BY DEF TypeOK
  <2>3. QED
    BY <2>1, <2>2
<1>19. q' \in Seq(Message)
  BY <1>1, <1>4, <1>5
<1>20. /\ nextObj <= nextObj' /\ nextObj' \in Int
       /\ nextProc <= nextProc' /\ nextProc' \in Int
  BY <1>1
<1>21. Pushes(me, t, after)
  BY <1>16, <1>18 DEF Pushes, Q0
<1>22. QED
  BY <1>7, <1>8, <1>13, <1>17, <1>19, <1>20, <1>21 DEF Q0

-----------------------------------------------------------------------------
(* Procedures and their objects.                                            *)

\* The root's id waits in one message before and after it is split in two.
LEMMA Reopened ==
    ASSUME NEW Q \in Seq(Message), NEW W \in Seq(Message), NEW w, NEW D, NEW n,
           NEW k, k \notin D, k < n, Unique(Q, w, D \union {k}, n),
           \A i \in 1 .. Len(W) : Opens(W[i], w) => Key(W[i], w) = k,
           \A i, j \in 1 .. Len(W) : Opens(W[i], w) /\ Opens(W[j], w) => i = j
    PROVE  /\ Unique(Q \o W, w, D, n)
           /\ Opened(Q, w, n) \ {k} \subseteq Opened(Q \o W, w, n)
<1> DEFINE P == Q \o W
<1>1. /\ Len(Q) \in Nat /\ Len(W) \in Nat /\ Len(P) = Len(Q) + Len(W)
      /\ \A i \in 1 .. Len(Q) : P[i] = Q[i]
      /\ \A i \in Len(Q) + 1 .. Len(Q) + Len(W) :
            i - Len(Q) \in 1 .. Len(W) /\ P[i] = W[i - Len(Q)]
  BY ConcatAt
<1> HIDE DEF P
<1>2. ASSUME NEW i \in 1 .. Len(P), Opens(P[i], w)
      PROVE  \/ i \in 1 .. Len(Q) /\ P[i] = Q[i] /\ Opens(Q[i], w) /\ Key(P[i], w) # k
             \/ /\ i \notin 1 .. Len(Q) /\ i - Len(Q) \in 1 .. Len(W)
                /\ P[i] = W[i - Len(Q)] /\ Key(P[i], w) = k
  <2>1. CASE i \in 1 .. Len(Q)
    BY <1>1, <1>2, <2>1 DEF Unique
  <2>2. CASE i \notin 1 .. Len(Q)
    <3>1. i \in Len(Q) + 1 .. Len(Q) + Len(W)
      BY <1>1, <2>2
    <3>2. QED
      BY <1>1, <1>2, <2>2, <3>1
  <2>3. QED
    BY <2>1, <2>2
<1>3. ASSUME NEW i \in 1 .. Len(P), Opens(P[i], w)
      PROVE  Key(P[i], w) < n /\ Key(P[i], w) \notin D
  BY <1>2, <1>3 DEF Unique
<1>4. ASSUME NEW i \in 1 .. Len(P), NEW j \in 1 .. Len(P), Opens(P[i], w),
             Opens(P[j], w), Key(P[i], w) = Key(P[j], w)
      PROVE  i = j
  <2>1. CASE Key(P[i], w) # k
    BY <1>2, <1>4, <2>1 DEF Unique
  <2>2. CASE Key(P[i], w) = k
    <3>1. i - Len(Q) = j - Len(Q)
      BY <1>2, <1>4, <2>2
    <3>2. i \in Int /\ j \in Int
      OBVIOUS
    <3>3. QED
      BY <1>1, <3>1, <3>2
  <2>3. QED
    BY <2>1, <2>2
<1>5. Opened(Q, w, n) \ {k} \subseteq Opened(P, w, n)
  BY <1>2 DEF Opened
<1>6. Unique(P, w, D, n)
  BY <1>3, <1>4 DEF Unique
<1>7. QED
  BY <1>5, <1>6 DEF P

\* What a root message is split into opens what the root message opened.
LEMMA RootIds ==
    ASSUME IInv, RootStart, NEW w \in {"proc", "obj"}, NEW D, NEW n, Unique(q, w, D, n)
    PROVE  Unique(q', w, D, n) /\ Opened(q, w, n) \subseteq Opened(q', w, n)
<1> DEFINE m == Head(q)
           V == Msg("construct", ObjectOnly(m.ti.obj), Nobody)
           F == Msg("call", m.ti, Nobody)
           W == <<V, F>>
           k == Key(m, w)
<1>1. q # <<>> /\ m.kind = "root" /\ q' = Tail(q) \o W
  BY DEF RootStart, Dequeue
<1>2. /\ m.ti \in Target /\ m.ti.obj \in Int /\ Tail(q) \in Seq(Message)
      /\ q \in Seq(Message) /\ m.ti.proc \in Int
  BY <1>1, HeadType
<1>3. V \in Message /\ F \in Message
  BY <1>2 DEF Msg, ObjectOnly, Nobody, NoId, Message, Target
<1>4. W \in Seq(Message) /\ Len(W) = 2 /\ W[1] = V /\ W[2] = F
  BY <1>3
<1>5. /\ V.kind = "construct" /\ V.ti.obj = m.ti.obj
      /\ F.kind = "call" /\ F.ti = m.ti
  BY DEF Msg, ObjectOnly
<1> HIDE DEF V, F, W
<1>6. /\ Opens(V, w) => w = "obj" /\ Key(V, w) = k
      /\ Opens(F, w) => w = "proc" /\ Key(F, w) = k
  BY <1>5 DEF Opens, Key
<1>7. /\ \A i \in 1 .. Len(W) : Opens(W[i], w) => Key(W[i], w) = k
      /\ \A i, j \in 1 .. Len(W) : Opens(W[i], w) /\ Opens(W[j], w) => i = j
  <2>1. \A i \in 1 .. Len(W) : i = 1 \/ i = 2
    BY <1>4
  <2>2. QED
    BY <1>4, <1>6, <2>1
<1>8. Opens(m, w)
  BY <1>1 DEF Opens
<1> HIDE DEF m, k
<1>9. /\ k \notin D /\ k < n /\ k \notin Opened(q, w, n)
      /\ Unique(Tail(q), w, D \union {k}, n)
      /\ Opened(q, w, n) \subseteq Opened(Tail(q), w, n)
  BY <1>1, <1>2, <1>8, Popped DEF k, m
<1>10. /\ Unique(Tail(q) \o W, w, D, n)
       /\ Opened(Tail(q), w, n) \ {k} \subseteq Opened(Tail(q) \o W, w, n)
  BY <1>2, <1>4, <1>7, <1>9, Reopened
<1>11. QED
  BY <1>1, <1>9, <1>10

\* A turn changes no list of procedures.
LEMMA OwnedSame ==
    ASSUME NEW P, NEW T, NEW U, Owned(P, T), DOMAIN U = DOMAIN T,
           \A o \in DOMAIN T : U[o].procs = T[o].procs
    PROVE  Owned(P, U)
BY DEF Owned

\* function_call enters the procedure in both tables.
LEMMA OwnedStart ==
    ASSUME NEW P, NEW T, NEW U, Owned(P, T), DOMAIN U = DOMAIN T, NEW o \in DOMAIN T,
           NEW k, k \notin DOMAIN P, U[o].procs = T[o].procs \union {k},
           \A x \in DOMAIN T : x # o => U[x].procs = T[x].procs,
           NEW R, DOMAIN R = DOMAIN P \union {k}, R[k].obj = o,
           \A p \in DOMAIN P : R[p] = P[p]
    PROVE  Owned(R, U)
<1>1. ASSUME NEW p \in DOMAIN R
      PROVE  R[p].obj \in DOMAIN U /\ p \in U[R[p].obj].procs
  <2>1. CASE p = k
    BY <2>1
  <2>2. CASE p # k
    BY <2>2 DEF Owned
  <2>3. QED
    BY <2>1, <2>2
<1>2. ASSUME NEW x \in DOMAIN U, NEW p \in U[x].procs
      PROVE  p \in DOMAIN R /\ R[p].obj = x
  <2>1. CASE p = k
    BY <2>1 DEF Owned
  <2>2. CASE p # k
    BY <2>2 DEF Owned
  <2>3. QED
    BY <2>1, <2>2
<1>3. QED
  BY <1>1, <1>2 DEF Owned

\* Deletion takes an object and its procedures out of both tables.
LEMMA OwnedDelete ==
    ASSUME NEW P, NEW T, Owned(P, T), NEW o, NEW Z,
           Z = IF o \in DOMAIN T THEN T[o].procs ELSE {}
    PROVE  Owned(Without(P, Z), Without(T, {o}))
BY DEF Owned, Without

\* Fewer procedures to keep apart from.
LEMMA UniqueLess ==
    ASSUME NEW Q, NEW w, NEW D, NEW E, E \subseteq D, NEW n, Unique(Q, w, D, n)
    PROVE  Unique(Q, w, E, n)
BY DEF Unique

\* The roots' procedures differ.
LEMMA InitProcs == Init => ProcInv
<1> SUFFICES ASSUME Init
             PROVE  ProcInv
  OBVIOUS
<1>1. q \in Seq(Message) /\ Len(q) = Roots
  <2>1. \A i \in 1 .. Roots :
           Msg("root", [obj |-> i - 1, proc |-> i - 1], Nobody) \in Message
    BY DEF Msg, Nobody, ObjectOnly, NoId, Message, Target
  <2>2. q \in [1 .. Roots -> Message] /\ Roots \in Nat
    BY <2>1, BoundsAssumption DEF Init
  <2>3. QED
    BY <2>2
<1>2. \A i \in 1 .. Len(q) : Key(q[i], "proc") = i - 1
  BY <1>1 DEF Init, Msg, Key
<1>3. DOMAIN objs = {} /\ DOMAIN procs = {} /\ nextProc = Roots /\ Roots \in Int
  BY BoundsAssumption DEF Init
<1>4. Unique(q, "proc", DOMAIN procs, nextProc)
  <2>1. \A i \in 1 .. Len(q) : Key(q[i], "proc") < nextProc /\ i \in Int
    BY <1>1, <1>2, <1>3
  <2>2. \A i, j \in 1 .. Len(q) : Key(q[i], "proc") = Key(q[j], "proc") => i = j
    BY <1>2, <2>1
  <2>3. QED
    BY <1>3, <2>1, <2>2 DEF Unique
<1>5. QED
  BY <1>3, <1>4 DEF ProcInv, Owned

\* What every action that dequeues a message that opens no procedure needs.
LEMMA PoppedProcs ==
    ASSUME IInv, ProcInv, q # <<>>
    PROVE  /\ TypeOK /\ q \in Seq(Message) /\ Tail(q) \in Seq(Message)
           /\ DOMAIN procs \in SUBSET Int /\ nextProc \in Int
           /\ \A p \in DOMAIN procs : p < nextProc
           /\ Unique(Tail(q), "proc", DOMAIN procs, nextProc)
<1>1. TypeOK /\ q \in Seq(Message) /\ Tail(q) \in Seq(Message)
  BY HeadType DEF IInv
<1>2. Unique(Tail(q), "proc", DOMAIN procs, nextProc)
  BY <1>1, Popped DEF ProcInv
<1>3. QED
  BY <1>1, <1>2 DEF TypeOK, ProcInv

\* A turn that starts no procedure of its own.
LEMMA TurnProcs ==
    ASSUME IInv, ProcInv, q # <<>>, procs' = procs,
           NEW table, table \in [DOMAIN table -> ObjectRecord],
           NEW me \in Target, me.obj \in DOMAIN table, Owned(procs, table),
           NEW D \in SUBSET table[me.obj].children, NEW t,
           IsTurn(table[me.obj], D, t),
           NEW after, IsData(after), ProcessQueued(table, me, t, after)
    PROVE  ProcInv'
<1>1. /\ TypeOK /\ DOMAIN procs \in SUBSET Int /\ nextProc \in Int
      /\ \A p \in DOMAIN procs : p < nextProc /\ p \in Int
      /\ Unique(Tail(q), "proc", DOMAIN procs, nextProc)
  BY PoppedProcs
<1>2. /\ nextProc' \in Int /\ nextProc <= nextProc'
      /\ \A X \in SUBSET Int :
            Unique(Tail(q), "proc", X, nextProc) /\ (\A x \in X : x < nextProc) =>
               Unique(q', "proc", X, nextProc')
      /\ DOMAIN objs' = DOMAIN table
      /\ \A o \in DOMAIN table : objs'[o].procs = table[o].procs
  BY <1>1, TurnIs
<1>3. Owned(procs, objs')
  BY <1>2, OwnedSame
<1>4. Unique(q', "proc", DOMAIN procs, nextProc')
  BY <1>1, <1>2
<1>5. \A p \in DOMAIN procs : p < nextProc'
  BY <1>1, <1>2
<1>6. QED
  BY <1>3, <1>4, <1>5 DEF ProcInv

\* construct_call starts no procedure.
LEMMA ConstructCallProcs == ASSUME IInv, ProcInv, ConstructCall PROVE ProcInv'
<1> DEFINE o == Head(q).ti.obj
           rec == IF o \in Live THEN objs[o] ELSE NewObject
           table == [x \in Live \union {o} |-> IF x = o THEN rec ELSE objs[x]]
           calls == IF CtorCalls THEN MaxCall ELSE 0
           me == ObjectOnly(o)
<1>1. q # <<>> /\ procs' = procs
  BY DEF ConstructCall, Dequeue
<1>2. PICK t \in Turns(rec, MaxMake, calls, {}, {FALSE}) :
         ProcessQueued(table, me, t, <<>>)
  BY DEF ConstructCall
<1>3. TypeOK /\ o \in Int
  BY <1>1, HeadType DEF IInv
<1>4. rec \in ObjectRecord
  BY <1>3 DEF TypeOK, NewObject, ObjectRecord
<1>5. /\ table \in [DOMAIN table -> ObjectRecord]
      /\ DOMAIN table = Live \union {o} /\ table[o] = rec
  BY <1>3, <1>4 DEF TypeOK
<1>6. me \in Target /\ me.obj = o
  BY <1>3 DEF ObjectOnly, Target, NoId
<1>7. IsTurn(rec, {}, t)
  <2>1. MaxMake \in Nat /\ calls \in Nat /\ {} \in SUBSET rec.children
    BY BoundsAssumption
  <2>2. QED
    BY <1>2, <1>3, <1>4, <2>1, TurnType
<1>8. Owned(procs, table)
  <2>1. Owned(procs, objs) /\ Live = DOMAIN objs
    BY DEF ProcInv, Live
  <2>2. \A x \in DOMAIN table : x \in Live => table[x] = objs[x]
    OBVIOUS
  <2>3. o \notin Live => table[o].procs = {}
    BY <1>5 DEF NewObject
  <2>4. QED
    BY <1>5, <2>1, <2>2, <2>3 DEF Owned
<1>9. {} \in SUBSET table[me.obj].children /\ IsTurn(table[me.obj], {}, t)
      /\ me.obj \in DOMAIN table /\ IsData(<<>>)
  BY <1>5, <1>6, <1>7, NoData
<1>10. QED
  BY <1>1, <1>2, <1>5, <1>6, <1>8, <1>9, TurnProcs

\* function_call enters the procedure of the message, which is new.
LEMMA FunctionCallProcs == ASSUME IInv, ProcInv, FunctionCall PROVE ProcInv'
<1> DEFINE m == Head(q)
           o == m.ti.obj
           k == m.ti.proc
           rec == [objs[o] EXCEPT !.procs = @ \union {m.ti.proc}]
           table == [objs EXCEPT ![o] = rec]
           make == IF LateConstruct THEN MaxMake ELSE 0
           D == Droppable(rec, m)
           After(t) == IF t.ret /\ m.ci # Nobody
                       THEN <<ChildTaskCompletion(m.ti, m.ci)>> ELSE <<>>
<1>1. /\ q # <<>> /\ m.kind = "call" /\ o \in Live
      /\ procs' = [p \in DOMAIN procs \union {k} |->
                      IF p = k THEN [obj |-> o, back |-> m.ci] ELSE procs[p]]
  BY DEF FunctionCall, Dequeue
<1>2. PICK t \in Turns(rec, make, MaxCall, D, BOOLEAN) :
         ProcessQueued(table, m.ti, t, After(t))
  BY DEF FunctionCall
<1>3. m.ti \in Target /\ m.ci \in Target /\ k \in Int /\ TypeOK
  BY <1>1, HeadType DEF IInv
<1>4. objs[o] \in ObjectRecord /\ objs \in [Live -> ObjectRecord]
  BY <1>1, <1>3 DEF TypeOK
<1>5. rec \in ObjectRecord /\ rec.procs = objs[o].procs \union {k}
  BY <1>3, <1>4 DEF ObjectRecord
<1>6. /\ table \in [Live -> ObjectRecord] /\ table[o] = rec /\ DOMAIN table = Live
      /\ \A x \in Live : x # o => table[x] = objs[x]
  BY <1>1, <1>4, <1>5
<1>7. D \in SUBSET rec.children
  BY DroppableType
<1>8. IsData(After(t))
  <2>1. IsData(<<>>)
    BY DEF IsData
  <2>2. QED
    BY <1>3, <2>1, CompletionData
<1>9. IsTurn(rec, D, t)
  <2>1. make \in Nat /\ MaxCall \in Nat
    BY BoundsAssumption
  <2>2. QED
    BY <1>2, <1>3, <1>5, <1>7, <2>1, TurnType
<1> DEFINE after == After(t)
           me == m.ti
<1>10. /\ table \in [DOMAIN table -> ObjectRecord] /\ me \in Target
       /\ me.obj \in DOMAIN table /\ D \in SUBSET table[me.obj].children
       /\ IsTurn(table[me.obj], D, t) /\ IsData(after)
       /\ ProcessQueued(table, me, t, after)
  BY <1>1, <1>2, <1>3, <1>6, <1>7, <1>8, <1>9
<1>11. /\ DOMAIN procs \in SUBSET Int /\ nextProc \in Int
       /\ \A p \in DOMAIN procs : p < nextProc /\ p \in Int
  BY <1>1, PoppedProcs
<1>12. /\ k \notin DOMAIN procs /\ k < nextProc
       /\ Unique(Tail(q), "proc", DOMAIN procs \union {k}, nextProc)
  <2>1. Opens(m, "proc") /\ Key(m, "proc") = k
    BY <1>1 DEF Opens, Key
  <2>2. q \in Seq(Message) /\ Unique(q, "proc", DOMAIN procs, nextProc)
    BY <1>3 DEF TypeOK, ProcInv
  <2> HIDE DEF k
  <2>3. QED
    BY <1>1, <2>1, <2>2, Popped
<1>13. DOMAIN table = Live /\ table[o].procs = objs[o].procs \union {k}
       /\ \A x \in Live : x # o => table[x].procs = objs[x].procs
  BY <1>5, <1>6
<1>14. DOMAIN procs' = DOMAIN procs \union {k} /\ procs'[k].obj = o
       /\ \A p \in DOMAIN procs : procs'[p] = procs[p]
  BY <1>1, <1>12
<1> HIDE DEF table, make, D, me, after, k, o, rec
<1>15. /\ nextProc' \in Int /\ nextProc <= nextProc'
       /\ \A X \in SUBSET Int :
             Unique(Tail(q), "proc", X, nextProc) /\ (\A x \in X : x < nextProc) =>
                Unique(q', "proc", X, nextProc')
       /\ DOMAIN objs' = DOMAIN table
       /\ \A x \in DOMAIN table : objs'[x].procs = table[x].procs
  BY <1>1, <1>3, <1>10, TurnIs
<1>16. Owned(procs', objs')
  <2>1. Owned(procs, objs) /\ Live = DOMAIN objs
    BY DEF ProcInv, Live
  <2>2. /\ DOMAIN objs' = DOMAIN objs /\ objs'[o].procs = objs[o].procs \union {k}
        /\ \A x \in DOMAIN objs : x # o => objs'[x].procs = objs[x].procs
    BY <1>1, <1>13, <1>15, <2>1
  <2>3. QED
    BY <1>1, <1>12, <1>14, <2>1, <2>2, OwnedStart
<1>17. Unique(q', "proc", DOMAIN procs', nextProc')
  <2>1. DOMAIN procs' \in SUBSET Int /\ \A p \in DOMAIN procs' : p < nextProc
    BY <1>3, <1>11, <1>12, <1>14
  <2>2. QED
    BY <1>12, <1>14, <1>15, <2>1
<1>18. \A p \in DOMAIN procs' : p < nextProc'
  BY <1>3, <1>11, <1>12, <1>14, <1>15
<1>19. QED
  BY <1>16, <1>17, <1>18 DEF ProcInv

\* data_received starts no procedure of its own.
LEMMA DataReceivedProcs ==
    ASSUME IInv, ProcInv, NEW kind \in {"io", "done"}, DataReceived(kind)
    PROVE  ProcInv'
<1> DEFINE m == Head(q)
           me == m.ti
           rec == objs[me.obj]
           make == IF LateConstruct THEN MaxMake ELSE 0
           D == Droppable(rec, m)
           rets == IF procs[me.proc].back = Nobody THEN {FALSE} ELSE BOOLEAN
           table == objs
<1>1. /\ q # <<>> /\ m.kind = kind
      /\ me.obj \in Live /\ me.proc \in DOMAIN procs /\ procs' = procs
  BY DEF DataReceived, Dequeue, Known
<1>2. PICK t \in Turns(rec, make, MaxCall, D, rets) :
         ProcessQueued(objs, me, t, Answer(me, t) \o Copies(m, t))
  BY DEF DataReceived
<1>3. m \in Message /\ me \in Target /\ TypeOK
  BY <1>1, HeadType DEF IInv
<1>4. objs \in [Live -> ObjectRecord] /\ rec \in ObjectRecord
  BY <1>1, <1>3 DEF TypeOK
<1>5. D \in SUBSET rec.children
  BY DroppableType
<1>6. make \in Nat /\ MaxCall \in Nat
  BY BoundsAssumption
<1>7. IsTurn(rec, D, t)
  BY <1>2, <1>3, <1>4, <1>5, <1>6, TurnType
<1>8. IsData(Answer(me, t) \o Copies(m, t))
  BY <1>1, <1>3, <1>5, <1>7, DataQueued
<1> DEFINE after == Answer(me, t) \o Copies(m, t)
<1>9. /\ table \in [DOMAIN table -> ObjectRecord] /\ me.obj \in DOMAIN table
      /\ D \in SUBSET table[me.obj].children /\ IsTurn(table[me.obj], D, t)
      /\ IsData(after) /\ ProcessQueued(table, me, t, after)
      /\ Owned(procs, table)
  BY <1>1, <1>2, <1>4, <1>5, <1>7, <1>8 DEF Live, ProcInv
<1> HIDE DEF me, make, D, rets, after, table
<1>10. QED
  BY <1>1, <1>3, <1>9, TurnProcs

\* A message is dropped: nothing opens or closes.
LEMMA DataDroppedProcs ==
    ASSUME IInv, ProcInv, NEW kind \in {"io", "done"}, DataDropped(kind)
    PROVE  ProcInv'
<1>1. /\ q # <<>> /\ q' = Tail(q)
      /\ UNCHANGED <<objs, procs, ring, also, nextObj, nextProc, nextOp>>
  BY DEF DataDropped, Dequeue
<1>2. Unique(Tail(q), "proc", DOMAIN procs, nextProc)
  BY <1>1, PoppedProcs
<1>3. QED
  BY <1>1, <1>2 DEF ProcInv

\* What the deletion of an object queues: deletions.
LEMMA DeleteQueues ==
    ASSUME IInv, Delete
    PROVE  \E W \in Seq(Message) :
              /\ q' = Tail(q) \o W
              /\ \A i \in 1 .. Len(W) : W[i].kind = "delete"
<1> DEFINE m == Head(q)
           o == m.ti.obj
           rec == IF o \in Live THEN objs[o] ELSE NewObject
           W(s) == [i \in DOMAIN s |-> Msg("delete", ObjectOnly(s[i]), m.ci)]
<1>1. q # <<>>
  BY DEF Delete, Dequeue
<1>2. PICK s \in Orders(rec.children) : q' = Tail(q) \o W(s)
  BY DEF Delete
<1>3. m.ci \in Target /\ TypeOK
  BY <1>1, HeadType DEF IInv
<1>4. rec \in ObjectRecord
  BY <1>3 DEF TypeOK, NewObject, ObjectRecord
<1>5. /\ DOMAIN s = 1 .. Len(s) /\ Len(s) \in Nat
      /\ \A i \in 1 .. Len(s) : s[i] \in rec.children
  <2>1. rec.children \in SUBSET (0 .. MaxObj - 1) /\ MaxObj \in Int
    BY <1>4, BoundsAssumption DEF ObjectRecord
  <2>2. QED
    BY <1>2, <2>1, OrdersSeq
<1>6. \A i \in 1 .. Len(s) :
         /\ Msg("delete", ObjectOnly(s[i]), m.ci) \in Message
         /\ Msg("delete", ObjectOnly(s[i]), m.ci).kind = "delete"
  <2>1. rec.children \subseteq Int
    BY <1>4 DEF ObjectRecord
  <2>2. QED
    BY <1>3, <1>5, <2>1 DEF Msg, ObjectOnly, Message, Target, NoId
<1>7. W(s) \in Seq(Message) /\ Len(W(s)) = Len(s)
  <2>1. W(s) \in [1 .. Len(s) -> Message]
    BY <1>5, <1>6
  <2>2. QED
    BY <1>5, <2>1, MessageSeq
<1>8. \A i \in 1 .. Len(W(s)) : W(s)[i].kind = "delete"
  BY <1>5, <1>6, <1>7
<1>9. QED
  BY <1>2, <1>7, <1>8

\* Delete forgets an object together with its procedures.
LEMMA DeleteProcs == ASSUME IInv, ProcInv, Delete PROVE ProcInv'
<1> DEFINE o == Head(q).ti.obj
           rec == IF o \in Live THEN objs[o] ELSE NewObject
           D == DOMAIN procs'
<1>1. /\ q # <<>> /\ procs' = Without(procs, rec.procs) /\ objs' = Without(objs, {o})
      /\ nextProc' = nextProc
  BY DEF Delete, Dequeue
<1>2. PICK W \in Seq(Message) : /\ q' = Tail(q) \o W
                                /\ \A i \in 1 .. Len(W) : W[i].kind = "delete"
  BY DeleteQueues
<1>3. Owned(procs', objs')
  <2>1. rec.procs = IF o \in DOMAIN objs THEN objs[o].procs ELSE {}
    BY DEF Live, NewObject
  <2> HIDE DEF rec, o
  <2>2. QED
    BY <1>1, <2>1, OwnedDelete DEF ProcInv
<1>4. D \subseteq DOMAIN procs
  BY <1>1 DEF Without
<1> HIDE DEF D
<1>5. /\ D \subseteq Int /\ nextProc \in Int /\ Tail(q) \in Seq(Message)
      /\ \A d \in D : d < nextProc
      /\ Unique(Tail(q), "proc", D, nextProc)
  BY <1>1, <1>4, PoppedProcs, UniqueLess
<1>6. \A i \in 1 .. Len(W) : ~Opens(W[i], "proc")
  BY <1>2 DEF Opens
<1>7. Unique(q', "proc", D, nextProc)
  BY <1>2, <1>5, <1>6, AppendedNone
<1>8. QED
  BY <1>1, <1>3, <1>5, <1>7 DEF ProcInv, D

\* What process_uring queues: data.
LEMMA RunQueues ==
    ASSUME IInv, Run
    PROVE  \E W \in Seq(Message) :
              /\ q' = q \o W
              /\ \A i \in 1 .. Len(W) :
                    W[i].kind = "io" /\ \E op \in DOMAIN ring : W[i].ti = ring[op]
<1> DEFINE W(s) == [i \in DOMAIN s |-> Msg("io", ring[s[i]], Nobody)]
<1>1. PICK arrived \in SUBSET DOMAIN ring : ProcessUring(arrived)
  BY DEF Run
<1>2. PICK s \in Orders(arrived) : q' = q \o W(s)
  BY <1>1 DEF ProcessUring
<1>3. TypeOK
  BY DEF IInv
<1>4. /\ DOMAIN s = 1 .. Len(s) /\ Len(s) \in Nat
      /\ \A i \in 1 .. Len(s) : s[i] \in DOMAIN ring
  <2>1. arrived \in SUBSET (0 .. MaxOp - 1) /\ MaxOp \in Int
    BY <1>3, BoundsAssumption DEF TypeOK
  <2>2. QED
    BY <2>1, OrdersSeq
<1>5. \A i \in 1 .. Len(s) : /\ Msg("io", ring[s[i]], Nobody) \in Message
                             /\ Msg("io", ring[s[i]], Nobody).kind = "io"
                             /\ Msg("io", ring[s[i]], Nobody).ti = ring[s[i]]
  <2>1. \A i \in 1 .. Len(s) : ring[s[i]] \in Target
    BY <1>3, <1>4 DEF TypeOK
  <2>2. QED
    BY <2>1 DEF Msg, Nobody, ObjectOnly, Message, Target, NoId
<1>6. W(s) \in Seq(Message) /\ Len(W(s)) = Len(s)
  <2>1. W(s) \in [1 .. Len(s) -> Message]
    BY <1>4, <1>5
  <2>2. QED
    BY <1>4, <2>1, MessageSeq
<1>7. \A i \in 1 .. Len(W(s)) :
         W(s)[i].kind = "io" /\ \E op \in DOMAIN ring : W(s)[i].ti = ring[op]
  BY <1>4, <1>5, <1>6
<1>8. QED
  BY <1>2, <1>6, <1>7

\* process_uring opens nothing.
LEMMA RunProcs == ASSUME IInv, ProcInv, Run PROVE ProcInv'
<1>1. UNCHANGED <<objs, procs, nextProc>>
  BY DEF Run, ProcessUring
<1>2. PICK W \in Seq(Message) : /\ q' = q \o W
                                /\ \A i \in 1 .. Len(W) : W[i].kind = "io"
  BY RunQueues
<1>3. /\ q \in Seq(Message) /\ DOMAIN procs \subseteq Int /\ nextProc \in Int
      /\ \A p \in DOMAIN procs : p < nextProc
      /\ Unique(q, "proc", DOMAIN procs, nextProc)
  BY DEF IInv, TypeOK, ProcInv
<1>4. \A i \in 1 .. Len(W) : ~Opens(W[i], "proc")
  BY <1>2 DEF Opens
<1>5. Unique(q', "proc", DOMAIN procs, nextProc)
  BY <1>2, <1>3, <1>4, AppendedNone
<1>6. QED
  BY <1>1, <1>5 DEF ProcInv

\* Every step of the thread keeps the two tables in agreement.
LEMMA NextProcs == ASSUME IInv, ProcInv, [Next]_vars PROVE ProcInv'
<1>1. CASE UNCHANGED vars
  BY <1>1 DEF vars, ProcInv
<1>2. ASSUME RootStart
      PROVE  ProcInv'
  <2>1. UNCHANGED <<objs, procs, nextProc>>
    BY <1>2 DEF RootStart
  <2>2. Unique(q', "proc", DOMAIN procs, nextProc)
    BY <1>2, RootIds DEF ProcInv
  <2>3. QED
    BY <2>1, <2>2 DEF ProcInv
<1>3. CASE Next
  BY <1>2, <1>3, ConstructCallProcs, FunctionCallProcs, DeleteProcs,
     DataReceivedProcs, DataDroppedProcs, RunProcs DEF Next, HandleDequeue
<1>4. QED
  BY <1>1, <1>3

\* proc_to_dat and obj_info agree, for every bound and every way the Event
\* subclasses use their turns: Delete erases the procedures of the object it
\* erases, function_call enters a new one in both tables, and on_yield's result
\* always finds the back_notify of the procedure it came from.
THEOREM ProcsOwnedHolds == Spec => []ProcsOwned
<1>1. IInv /\ ProcInv => ProcsOwned
  BY DEF ProcInv, Owned, ProcsOwned, Live
<1>2. QED
  BY InitIInv, InitProcs, NextIInv, NextProcs, <1>1, PTL DEF Spec

-----------------------------------------------------------------------------
(* Answers.  While constructors call nobody and nothing is attached, every  *)
(* message and every record names callers that the tables still know.       *)

\* Objects that have been made and procedures that have been started.
Born == Opened(q, "obj", nextObj)
Started == Opened(q, "proc", nextProc)

\* A procedure that has started, on an object that has been made.
Ref(t) ==
    /\ t.obj \in Born /\ t.proc \in Started
    /\ t.proc \in DOMAIN procs => procs[t.proc].obj = t.obj

\* While t's object lives it knows its procedure and the call p made from it.
Heard(t, p) ==
    t.obj \in Live => t.proc \in DOMAIN procs /\ p \in Elems(objs[t.obj].called)

\* What a message in the queue says of its target and its caller.
Good(m) ==
    /\ m.kind = "io" => Ref(m.ti)
    /\ m.kind = "call" /\ m.ci # Nobody => Ref(m.ci) /\ Heard(m.ci, m.ti.proc)
    /\ m.kind = "done" => Ref(m.ti) /\ Heard(m.ti, m.task) /\ m.ci.obj \in Born

\* What a procedure's entry says of the one to notify.
GoodBack(back, p) == back # Nobody => Ref(back) /\ Heard(back, p)

AnswerInv ==
    /\ Unique(q, "obj", Live, nextObj) /\ \A o \in Live : o < nextObj
    /\ \A op \in DOMAIN ring : Ref(ring[op])
    /\ \A p \in DOMAIN procs : GoodBack(procs[p].back, p)
    /\ \A m \in Elems(q) : Good(m)
    /\ DOMAIN also = {}

\* What a step leaves of the tables: nothing is made or started twice, a live
\* object keeps its procedures and the calls it made.
Keeps ==
    /\ Born \subseteq Born' /\ Started \subseteq Started'
    /\ \A p \in DOMAIN procs' :
          p \notin Started \/ (p \in DOMAIN procs /\ procs'[p] = procs[p])
    /\ \A o \in Live' : o \notin Born
                       \/ (o \in Live /\ Elems(objs[o].called) \subseteq Elems(objs'[o].called))
    /\ \A p \in DOMAIN procs : procs[p].obj \in Live' => p \in DOMAIN procs'

\* What was known of a procedure stays known.
LEMMA KeptRef ==
    ASSUME Keeps, NEW CONSTANT t, Ref(t)
    PROVE  Ref(t)'
BY DEF Keeps, Ref

\* A caller that lives goes on hearing.
LEMMA KeptHeard ==
    ASSUME Keeps, NEW CONSTANT t, NEW CONSTANT p, Ref(t), Heard(t, p)
    PROVE  Heard(t, p)'
<1>1. SUFFICES ASSUME t.obj \in Live'
               PROVE  t.proc \in DOMAIN procs' /\ p \in Elems(objs'[t.obj].called)
  BY DEF Heard, Live
<1>2. t.obj \in Live /\ Elems(objs[t.obj].called) \subseteq Elems(objs'[t.obj].called)
  BY <1>1 DEF Keeps, Ref
<1>3. t.proc \in DOMAIN procs /\ p \in Elems(objs[t.obj].called)
  BY <1>2 DEF Heard
<1>4. procs[t.proc].obj \in Live'
  BY <1>1, <1>3 DEF Ref
<1>5. QED
  BY <1>2, <1>3, <1>4 DEF Keeps

\* A message that waits stays answerable.
LEMMA KeptGood ==
    ASSUME Keeps, NEW CONSTANT m, Good(m)
    PROVE  Good(m)'
BY KeptRef, KeptHeard DEF Good, Keeps

\* Live objects have been made.
LEMMA LiveBorn ==
    ASSUME IInv, AnswerInv
    PROVE  Live \subseteq Born
<1>1. Live \subseteq Int
  BY DEF IInv, TypeOK
<1>2. QED
  BY <1>1 DEF AnswerInv, Unique, Born, Opened

\* A turn makes no object live and only adds to what an object has called.
LEMMA TurnTables ==
    ASSUME TypeOK, NEW table, table \in [DOMAIN table -> ObjectRecord],
           NEW me \in Target, me.obj \in DOMAIN table,
           NEW D \in SUBSET table[me.obj].children, NEW t,
           IsTurn(table[me.obj], D, t), q # <<>>,
           NEW after, IsData(after), ProcessQueued(table, me, t, after)
    PROVE  /\ DOMAIN objs' = DOMAIN table /\ nextObj <= nextObj' /\ nextObj' \in Int
           /\ \A o \in DOMAIN table : Elems(table[o].called) \subseteq Elems(objs'[o].called)
<1>1. \A o \in DOMAIN table :
         /\ objs'[o].procs = table[o].procs
         /\ Elems(table[o].called) \subseteq Elems(objs'[o].called)
  BY TurnIs, Zenon
<1>2. DOMAIN objs' = DOMAIN table
  BY TurnIs, Zenon
<1>3. nextObj <= nextObj' /\ nextObj' \in Int
  BY TurnIs, Zenon
<1>4. QED
  BY <1>1, <1>2, <1>3

\* What a turn keeps.  The object and the procedure it runs for are in the
\* tables already; they were live before or had not been made.
LEMMA TurnKeeps ==
    ASSUME IInv, ProcInv, AnswerInv, q # <<>>,
           NEW table, table \in [DOMAIN table -> ObjectRecord],
           NEW me \in Target, me.obj \in DOMAIN table,
           NEW D \in SUBSET table[me.obj].children, NEW t,
           IsTurn(table[me.obj], D, t), t.attach = {},
           NEW after, IsData(after), ProcessQueued(table, me, t, after),
           DOMAIN table \subseteq Int, \A o \in DOMAIN table : o < nextObj,
           Unique(Tail(q), "obj", DOMAIN table, nextObj),
           \A o \in DOMAIN table :
              o \notin Born \/ (o \in Live /\ table[o].called = objs[o].called),
           DOMAIN procs' \subseteq Int, \A p \in DOMAIN procs' : p < nextProc,
           Unique(Tail(q), "proc", DOMAIN procs', nextProc),
           \A p \in DOMAIN procs : p \in DOMAIN procs' /\ procs'[p] = procs[p],
           \A p \in DOMAIN procs' : p \in DOMAIN procs \/ p \notin Started
    PROVE  /\ Keeps /\ Live' = DOMAIN table
           /\ Unique(q', "obj", Live', nextObj') /\ \A o \in Live' : o < nextObj'
           /\ Opened(Tail(q), "proc", nextProc) \subseteq Started'
           /\ Opened(Tail(q), "obj", nextObj) \subseteq Born'
           /\ DOMAIN also' = {}
<1>1. TypeOK /\ q \in Seq(Message) /\ nextObj \in Int
  BY DEF IInv, TypeOK
<1>2. \A X \in SUBSET Int :
         Unique(Tail(q), "proc", X, nextProc) /\ (\A x \in X : x < nextProc) =>
            /\ Unique(q', "proc", X, nextProc')
            /\ Opened(Tail(q), "proc", nextProc) \subseteq Opened(q', "proc", nextProc')
  BY <1>1, TurnIs
<1>3. \A X \in SUBSET Int :
         Unique(Tail(q), "obj", X, nextObj) /\ (\A x \in X : x < nextObj) =>
            /\ Unique(q', "obj", X, nextObj')
            /\ Opened(Tail(q), "obj", nextObj) \subseteq Opened(q', "obj", nextObj')
  BY <1>1, TurnIs
<1>4. /\ DOMAIN objs' = DOMAIN table
      /\ \A o \in DOMAIN table : Elems(table[o].called) \subseteq Elems(objs'[o].called)
      /\ nextObj <= nextObj' /\ nextObj' \in Int
  BY <1>1, TurnTables
<1>5. /\ Opened(q, "proc", nextProc) \subseteq Opened(Tail(q), "proc", nextProc)
      /\ Opened(q, "obj", nextObj) \subseteq Opened(Tail(q), "obj", nextObj)
  <2>1. /\ Unique(q, "proc", DOMAIN procs, nextProc)
        /\ Unique(q, "obj", Live, nextObj)
    BY DEF ProcInv, AnswerInv
  <2>2. QED
    BY <1>1, <2>1, Popped
<1>6. /\ Opened(Tail(q), "proc", nextProc) \subseteq Opened(q', "proc", nextProc')
      /\ Opened(Tail(q), "obj", nextObj) \subseteq Opened(q', "obj", nextObj')
      /\ Unique(q', "obj", DOMAIN table, nextObj')
  BY <1>2, <1>3
<1>7. /\ Opened(Tail(q), "proc", nextProc) \subseteq Started'
      /\ Opened(Tail(q), "obj", nextObj) \subseteq Born'
      /\ Born \subseteq Born' /\ Started \subseteq Started'
  BY <1>5, <1>6 DEF Born, Started
<1>8. Live' = DOMAIN table
  BY <1>4 DEF Live
<1>9. \A o \in Live' : o < nextObj'
  <2>1. \A o \in DOMAIN table : o \in Int /\ o < nextObj
    OBVIOUS
  <2>2. QED
    BY <1>1, <1>4, <1>8, <2>1
<1>10. Keeps
  BY <1>4, <1>7, <1>8 DEF Keeps
<1>11. DOMAIN also' = {}
  <2>1. also' = Attached(me, t)
    BY DEF ProcessQueued
  <2>2. DOMAIN also = {}
    BY DEF AnswerInv
  <2>3. QED
    BY <2>1, <2>2 DEF Attached
<1>12. QED
  BY <1>6, <1>7, <1>8, <1>9, <1>10, <1>11

\* That, of its messages and operations alone.
LEMMA TurnMessages ==
    ASSUME TypeOK, NEW table, table \in [DOMAIN table -> ObjectRecord],
           NEW me \in Target, me.obj \in DOMAIN table,
           NEW D \in SUBSET table[me.obj].children, NEW t,
           IsTurn(table[me.obj], D, t), q # <<>>,
           NEW after, IsData(after), ProcessQueued(table, me, t, after)
    PROVE  Pushes(me, t, after)
BY TurnIs, Zenon

\* The turn's own calls and operations, and what its caller pushes behind them.
LEMMA TurnAnswers ==
    ASSUME IInv, ProcInv, AnswerInv, q # <<>>,
           NEW table, table \in [DOMAIN table -> ObjectRecord],
           NEW me \in Target, me.obj \in DOMAIN table,
           NEW D \in SUBSET table[me.obj].children, NEW t,
           IsTurn(table[me.obj], D, t),
           NEW after, IsData(after), ProcessQueued(table, me, t, after),
           Keeps, Unique(q', "obj", Live', nextObj'), \A o \in Live' : o < nextObj',
           DOMAIN also' = {},
           t.arm # 0 \/ Len(t.call) # 0 => Ref(me)' /\ me.proc \in DOMAIN procs',
           \A p \in DOMAIN procs' : GoodBack(procs[p].back, p)',
           \A m \in Elems(after) : Good(m)'
    PROVE  AnswerInv'
<1>1. TypeOK /\ q \in Seq(Message)
  BY DEF IInv, TypeOK
<1>2. /\ \A m \in Elems(q') :
            \/ m \in Elems(Tail(q)) \/ m \in Elems(after)
            \/ m.kind \in {"construct", "delete"}
            \/ /\ m.kind = "call" /\ m.ci = me /\ Len(t.call) # 0
               /\ m.ti.proc \in Elems(objs'[me.obj].called)
      /\ \A op \in DOMAIN ring' : \/ op \in DOMAIN ring /\ ring'[op] = ring[op]
                                  \/ ring'[op] = me /\ t.arm # 0
  <2>1. Pushes(me, t, after)
    BY <1>1, TurnMessages
  <2>2. QED
    BY <2>1 DEF Pushes
<1>3. ASSUME NEW m \in Elems(q')
      PROVE  Good(m)'
  <2>1. CASE m \in Elems(Tail(q))
    <3>1. Good(m)
      BY <1>1, <2>1, TailMessages DEF AnswerInv
    <3>2. QED
      BY <3>1, KeptGood
  <2>2. CASE m.kind \in {"construct", "delete"}
    BY <2>2 DEF Good
  <2>3. CASE /\ m.kind = "call" /\ m.ci = me /\ Len(t.call) # 0
             /\ m.ti.proc \in Elems(objs'[me.obj].called)
    <3>1. Ref(m.ci)' /\ Heard(m.ci, m.ti.proc)'
      BY <2>3 DEF Heard
    <3>2. QED
      BY <2>3, <3>1 DEF Good
  <2>4. QED
    BY <1>2, <2>1, <2>2, <2>3
<1>4. ASSUME NEW op \in DOMAIN ring'
      PROVE  Ref(ring[op])'
  <2>1. CASE op \in DOMAIN ring /\ ring'[op] = ring[op]
    <3>1. ASSUME NEW r, r = ring[op]
          PROVE  Ref(r)'
      BY <2>1, <3>1, KeptRef DEF AnswerInv
    <3>2. PICK r : r = ring[op]
      OBVIOUS
    <3>3. Ref(r)' /\ ring'[op] = r
      BY <2>1, <3>1, <3>2
    <3>4. QED
      BY <3>3 DEF Ref
  <2>2. CASE ring'[op] = me /\ t.arm # 0
    BY <2>2 DEF Ref
  <2>3. QED
    BY <1>2, <2>1, <2>2
<1>5. QED
  BY <1>3, <1>4 DEF AnswerInv

\* What the callers of the procedures that stay know stays known.
LEMMA KeptBacks ==
    ASSUME AnswerInv, Keeps, NEW p \in DOMAIN procs', p \in DOMAIN procs,
           procs'[p] = procs[p]
    PROVE  GoodBack(procs[p].back, p)'
<1>1. PICK b : b = procs[p].back
  OBVIOUS
<1>2. GoodBack(b, p)
  BY <1>1 DEF AnswerInv
<1>3. GoodBack(b, p)'
  BY <1>2, KeptRef, KeptHeard DEF GoodBack
<1>4. QED
  BY <1>1, <1>3 DEF GoodBack, Ref, Heard

\* The queue and the tables when only the queue changes.
LEMMA QueueAnswers ==
    ASSUME IInv, AnswerInv, Keeps,
           Unique(q', "obj", Live', nextObj'), \A o \in Live' : o < nextObj',
           \A op \in DOMAIN ring' : op \in DOMAIN ring /\ ring'[op] = ring[op],
           \A p \in DOMAIN procs' : p \in DOMAIN procs /\ procs'[p] = procs[p],
           also' = also, \A m \in Elems(q') : Good(m)'
    PROVE  AnswerInv'
<1>1. ASSUME NEW op \in DOMAIN ring'
      PROVE  Ref(ring[op])'
  <2>1. PICK r : r = ring[op]
    OBVIOUS
  <2>2. Ref(r)'
    BY <2>1, KeptRef DEF AnswerInv
  <2>3. ring'[op] = r
    BY <2>1
  <2>4. QED
    BY <2>2, <2>3 DEF Ref
<1>2. \A p \in DOMAIN procs' : GoodBack(procs[p].back, p)'
  BY KeptBacks
<1>3. DOMAIN also' = {}
  BY DEF AnswerInv
<1>4. QED
  BY <1>1, <1>2, <1>3 DEF AnswerInv

\* Nobody attaches to anything.
LEMMA NothingAttached ==
    ASSUME ~Attaching, NEW rec, NEW make, NEW calls, NEW D, NEW rets,
           NEW t \in Turns(rec, make, calls, D, rets)
    PROVE  t.attach = {} /\ t.ret \in rets
BY DEF Turns

\* The roots are queued, nothing else is there.
LEMMA InitAnswers == Init => AnswerInv
<1> SUFFICES ASSUME Init
             PROVE  AnswerInv
  OBVIOUS
<1>1. q \in Seq(Message) /\ Len(q) = Roots /\ DOMAIN q = 1 .. Len(q)
  <2>1. \A i \in 1 .. Roots :
           Msg("root", [obj |-> i - 1, proc |-> i - 1], Nobody) \in Message
    BY DEF Msg, Nobody, ObjectOnly, NoId, Message, Target
  <2>2. q \in [1 .. Roots -> Message] /\ Roots \in Nat
    BY <2>1, BoundsAssumption DEF Init
  <2>3. QED
    BY <2>2
<1>2. \A i \in 1 .. Len(q) : Key(q[i], "obj") = i - 1 /\ q[i].kind = "root"
  BY <1>1 DEF Init, Msg, Key
<1>3. /\ Live = {} /\ DOMAIN procs = {} /\ DOMAIN ring = {} /\ DOMAIN also = {}
      /\ nextObj = Roots /\ Roots \in Int
  BY BoundsAssumption DEF Init, Live
<1>4. Unique(q, "obj", Live, nextObj)
  <2>1. \A i \in 1 .. Len(q) : Key(q[i], "obj") < nextObj /\ i \in Int
    BY <1>1, <1>2, <1>3
  <2>2. \A i, j \in 1 .. Len(q) : Key(q[i], "obj") = Key(q[j], "obj") => i = j
    BY <1>2, <2>1
  <2>3. QED
    BY <1>3, <2>1, <2>2 DEF Unique
<1>5. \A m \in Elems(q) : Good(m)
  <2>1. \A m \in Elems(q) : m.kind = "root"
    BY <1>1, <1>2 DEF Elems
  <2>2. QED
    BY <2>1 DEF Good
<1>6. QED
  BY <1>3, <1>4, <1>5 DEF AnswerInv

\* What every action that dequeues a message that makes no object needs.
LEMMA PoppedAnswers ==
    ASSUME IInv, AnswerInv, q # <<>>
    PROVE  /\ TypeOK /\ q \in Seq(Message) /\ Tail(q) \in Seq(Message)
           /\ Live \in SUBSET Int /\ nextObj \in Int
           /\ \A o \in Live : o < nextObj
           /\ Unique(Tail(q), "obj", Live, nextObj)
           /\ Good(Head(q)) /\ \A m \in Elems(Tail(q)) : Good(m)
           /\ Opened(q, "obj", nextObj) \subseteq Opened(Tail(q), "obj", nextObj)
<1>1. TypeOK /\ q \in Seq(Message) /\ Tail(q) \in Seq(Message)
  BY HeadType DEF IInv
<1>2. /\ Unique(Tail(q), "obj", Live, nextObj)
      /\ Opened(q, "obj", nextObj) \subseteq Opened(Tail(q), "obj", nextObj)
  BY <1>1, Popped DEF AnswerInv
<1>3. Good(Head(q)) /\ \A m \in Elems(Tail(q)) : Good(m)
  BY <1>1, TailMessages DEF AnswerInv
<1>4. QED
  BY <1>1, <1>2, <1>3 DEF TypeOK, AnswerInv

\* A root message becomes two messages with no caller.
LEMMA RootAnswers == ASSUME IInv, ProcInv, AnswerInv, RootStart PROVE AnswerInv'
<1> DEFINE m == Head(q)
           V == Msg("construct", ObjectOnly(m.ti.obj), Nobody)
           F == Msg("call", m.ti, Nobody)
           W == <<V, F>>
<1>1. /\ q # <<>> /\ q' = Tail(q) \o W
      /\ UNCHANGED <<objs, procs, ring, also, nextObj, nextProc, nextOp>>
  BY DEF RootStart, Dequeue
<1>2. m.ti \in Target /\ m.ti.obj \in Int
  BY <1>1, HeadType
<1>3. V \in Message /\ F \in Message
  BY <1>2 DEF Msg, ObjectOnly, Nobody, NoId, Message, Target
<1>4. W \in Seq(Message) /\ Len(W) = 2 /\ W[1] = V /\ W[2] = F /\ DOMAIN W = 1 .. 2
  BY <1>3
<1>5. V.kind = "construct" /\ F.kind = "call" /\ F.ci = Nobody
  BY DEF Msg
<1> HIDE DEF V, F, W, m
<1>6. /\ Unique(q', "obj", Live, nextObj)
      /\ Opened(q, "obj", nextObj) \subseteq Opened(q', "obj", nextObj)
  BY RootIds DEF AnswerInv
<1>7. Opened(q, "proc", nextProc) \subseteq Opened(q', "proc", nextProc)
  BY RootIds DEF ProcInv
<1>8. Live' = Live
  BY <1>1 DEF Live
<1>9. Keeps
  BY <1>1, <1>6, <1>7, <1>8 DEF Keeps, Born, Started
<1>10. ASSUME NEW x \in Elems(q')
       PROVE  Good(x)'
  <2>1. /\ Tail(q) \in Seq(Message) /\ \A y \in Elems(Tail(q)) : Good(y)
    BY <1>1, PoppedAnswers
  <2>2. x \in Elems(Tail(q)) \/ x \in Elems(W)
    BY <1>1, <1>4, <2>1, ConcatMessages
  <2>3. CASE x \in Elems(Tail(q))
    BY <1>9, <2>1, <2>3, KeptGood
  <2>4. CASE x \in Elems(W)
    <3>1. PICK i \in 1 .. 2 : x = W[i]
      BY <1>4, <2>4 DEF Elems
    <3>2. x = V \/ x = F
      BY <1>4, <3>1
    <3>3. QED
      BY <1>5, <3>2 DEF Good
  <2>5. QED
    BY <2>2, <2>3, <2>4
<1>11. Unique(q', "obj", Live', nextObj') /\ \A o \in Live' : o < nextObj'
  BY <1>1, <1>6, <1>8 DEF AnswerInv
<1>12. QED
  BY <1>1, <1>9, <1>10, <1>11, QueueAnswers

\* Data that is dropped leaves the tables alone.
LEMMA DroppedAnswers ==
    ASSUME IInv, ProcInv, AnswerInv, NEW kind \in {"io", "done"}, DataDropped(kind)
    PROVE  AnswerInv'
<1>1. /\ q # <<>> /\ q' = Tail(q)
      /\ UNCHANGED <<objs, procs, ring, also, nextObj, nextProc, nextOp>>
  BY DEF DataDropped, Dequeue
<1>2. /\ Unique(Tail(q), "obj", Live, nextObj) /\ \A m \in Elems(Tail(q)) : Good(m)
      /\ Opened(q, "obj", nextObj) \subseteq Opened(Tail(q), "obj", nextObj)
      /\ q \in Seq(Message)
  BY <1>1, PoppedAnswers
<1>3. Opened(q, "proc", nextProc) \subseteq Opened(Tail(q), "proc", nextProc)
  BY <1>1, <1>2, Popped DEF ProcInv
<1>4. Live' = Live
  BY <1>1 DEF Live
<1>5. Keeps
  BY <1>1, <1>2, <1>3, <1>4 DEF Keeps, Born, Started
<1>6. \A m \in Elems(q') : Good(m)'
  BY <1>1, <1>2, <1>5, KeptGood
<1>7. Unique(q', "obj", Live', nextObj') /\ \A o \in Live' : o < nextObj'
  BY <1>1, <1>2, <1>4 DEF AnswerInv
<1>8. QED
  BY <1>1, <1>5, <1>6, <1>7, QueueAnswers

\* Completions are data of those who submitted the operations.
LEMMA RunAnswers == ASSUME IInv, ProcInv, AnswerInv, Run PROVE AnswerInv'
<1>1. PICK arrived \in SUBSET DOMAIN ring : ProcessUring(arrived)
  BY DEF Run
<1>2. /\ ring' = Without(ring, arrived)
      /\ UNCHANGED <<objs, procs, also, nextObj, nextProc, nextOp>>
  BY <1>1 DEF ProcessUring
<1>3. PICK W \in Seq(Message) :
         /\ q' = q \o W
         /\ \A i \in 1 .. Len(W) :
               W[i].kind = "io" /\ \E op \in DOMAIN ring : W[i].ti = ring[op]
  BY RunQueues
<1>4. /\ q \in Seq(Message) /\ nextObj \in Int /\ nextProc \in Int
      /\ Live \subseteq Int /\ DOMAIN procs \subseteq Int
  BY DEF IInv, TypeOK
<1>5. \A i \in 1 .. Len(W) : ~Opens(W[i], "proc") /\ ~Opens(W[i], "obj")
  BY <1>3 DEF Opens
<1>6. /\ Unique(q', "obj", Live, nextObj)
      /\ Opened(q, "obj", nextObj) \subseteq Opened(q', "obj", nextObj)
  BY <1>3, <1>4, <1>5, AppendedNone DEF AnswerInv
<1>7. Opened(q, "proc", nextProc) \subseteq Opened(q', "proc", nextProc)
  BY <1>3, <1>4, <1>5, AppendedNone DEF ProcInv
<1>8. Live' = Live
  BY <1>2 DEF Live
<1>9. Keeps
  BY <1>2, <1>6, <1>7, <1>8 DEF Keeps, Born, Started
<1>10. ASSUME NEW m \in Elems(q')
       PROVE  Good(m)'
  <2>1. m \in Elems(q) \/ m \in Elems(W)
    BY <1>3, <1>4, ConcatMessages
  <2>2. CASE m \in Elems(q)
    BY <1>9, <2>2, KeptGood DEF AnswerInv
  <2>3. CASE m \in Elems(W)
    <3>1. PICK i \in 1 .. Len(W) : m = W[i]
      BY <2>3 DEF Elems
    <3>2. m.kind = "io" /\ \E op \in DOMAIN ring : m.ti = ring[op]
      BY <1>3, <3>1
    <3>3. Ref(m.ti)
      BY <3>2 DEF AnswerInv
    <3>4. QED
      BY <1>9, <3>2, <3>3, KeptRef DEF Good
  <2>4. QED
    BY <2>1, <2>2, <2>3
<1>11. Unique(q', "obj", Live', nextObj') /\ \A o \in Live' : o < nextObj'
  BY <1>2, <1>6, <1>8 DEF AnswerInv
<1>12. \A op \in DOMAIN ring' : op \in DOMAIN ring /\ ring'[op] = ring[op]
  BY <1>2 DEF Without
<1>13. QED
  BY <1>2, <1>9, <1>10, <1>11, <1>12, QueueAnswers

\* Delete takes the object's procedures with it and no one else's.
LEMMA DeleteAnswers == ASSUME IInv, ProcInv, AnswerInv, Delete PROVE AnswerInv'
<1> DEFINE o == Head(q).ti.obj
           rec == IF o \in Live THEN objs[o] ELSE NewObject
<1>1. /\ q # <<>> /\ procs' = Without(procs, rec.procs) /\ objs' = Without(objs, {o})
      /\ UNCHANGED <<ring, also, nextObj, nextProc, nextOp>>
  BY DEF Delete, Dequeue
<1>2. PICK W \in Seq(Message) : /\ q' = Tail(q) \o W
                                /\ \A i \in 1 .. Len(W) : W[i].kind = "delete"
  BY DeleteQueues
<1>3. /\ Live' = Live \ {o} /\ \A x \in Live' : objs'[x] = objs[x]
      /\ \A p \in DOMAIN procs' : p \in DOMAIN procs /\ procs'[p] = procs[p]
  BY <1>1 DEF Live, Without
<1>4. \A p \in DOMAIN procs : procs[p].obj \in Live' => p \in DOMAIN procs'
  <2>1. \A p \in rec.procs : p \in DOMAIN procs /\ procs[p].obj = o
    BY DEF ProcInv, Owned, NewObject, Live
  <2>2. QED
    BY <1>1, <1>3, <2>1 DEF Without
<1> HIDE DEF rec, o
<1>5. /\ q \in Seq(Message) /\ Tail(q) \in Seq(Message) /\ nextObj \in Int
      /\ nextProc \in Int /\ Live' \subseteq Int /\ DOMAIN procs \subseteq Int
      /\ \A x \in Live' : x < nextObj
      /\ \A p \in DOMAIN procs : p < nextProc
      /\ Unique(Tail(q), "obj", Live', nextObj)
      /\ Unique(Tail(q), "proc", DOMAIN procs, nextProc)
      /\ Opened(q, "obj", nextObj) \subseteq Opened(Tail(q), "obj", nextObj)
      /\ \A m \in Elems(Tail(q)) : Good(m)
  <2>1. /\ Unique(Tail(q), "obj", Live, nextObj) /\ Live' \subseteq Live
    BY <1>1, <1>3, PoppedAnswers
  <2>2. Unique(Tail(q), "obj", Live', nextObj)
    BY <2>1, UniqueLess
  <2>3. QED
    BY <1>1, <2>1, <2>2, PoppedAnswers, PoppedProcs
<1>6. Opened(q, "proc", nextProc) \subseteq Opened(Tail(q), "proc", nextProc)
  BY <1>1, <1>5, Popped DEF ProcInv
<1>7. \A i \in 1 .. Len(W) : ~Opens(W[i], "proc") /\ ~Opens(W[i], "obj")
  BY <1>2 DEF Opens
<1>8. /\ Unique(q', "obj", Live', nextObj)
      /\ Opened(Tail(q), "obj", nextObj) \subseteq Opened(q', "obj", nextObj)
  BY <1>2, <1>5, <1>7, AppendedNone
<1>9. Opened(Tail(q), "proc", nextProc) \subseteq Opened(q', "proc", nextProc)
  BY <1>2, <1>5, <1>7, AppendedNone
<1>10. Keeps
  <2>1. Born \subseteq Born' /\ Started \subseteq Started'
    BY <1>1, <1>5, <1>6, <1>8, <1>9 DEF Born, Started
  <2>2. QED
    BY <1>3, <1>4, <2>1 DEF Keeps
<1>11. ASSUME NEW m \in Elems(q')
       PROVE  Good(m)'
  <2>1. m \in Elems(Tail(q)) \/ m \in Elems(W)
    BY <1>2, <1>5, ConcatMessages
  <2>2. CASE m \in Elems(Tail(q))
    BY <1>5, <1>10, <2>2, KeptGood
  <2>3. CASE m \in Elems(W)
    <3>1. m.kind = "delete"
      BY <1>2, <2>3 DEF Elems
    <3>2. QED
      BY <3>1 DEF Good
  <2>4. QED
    BY <2>1, <2>2, <2>3
<1>12. Unique(q', "obj", Live', nextObj') /\ \A x \in Live' : x < nextObj'
  BY <1>1, <1>5, <1>8
<1>13. \A op \in DOMAIN ring' : op \in DOMAIN ring /\ ring'[op] = ring[op]
  BY <1>1
<1>14. QED
  BY <1>1, <1>3, <1>10, <1>11, <1>12, <1>13, QueueAnswers

\* construct_call makes an object that had not been made; it only constructs.
LEMMA ConstructAnswers ==
    ASSUME ~CtorCalls, ~Attaching, IInv, ProcInv, AnswerInv, ConstructCall
    PROVE  AnswerInv'
<1> DEFINE o == Head(q).ti.obj
           rec == IF o \in Live THEN objs[o] ELSE NewObject
           table == [x \in Live \union {o} |-> IF x = o THEN rec ELSE objs[x]]
           calls == IF CtorCalls THEN MaxCall ELSE 0
           me == ObjectOnly(o)
           after == <<>>
           D == {}
<1>1. q # <<>> /\ procs' = procs /\ Head(q).kind = "construct"
  BY DEF ConstructCall, Dequeue
<1>2. PICK t \in Turns(rec, MaxMake, calls, {}, {FALSE}) :
         t.arm = 0 /\ ProcessQueued(table, me, t, after)
  BY DEF ConstructCall
<1>3. TypeOK /\ o \in Int /\ q \in Seq(Message)
  BY <1>1, HeadType DEF IInv
<1>4. rec \in ObjectRecord
  BY <1>3 DEF TypeOK, NewObject, ObjectRecord
<1>5. /\ table \in [DOMAIN table -> ObjectRecord]
      /\ DOMAIN table = Live \union {o} /\ table[o] = rec
      /\ \A x \in Live : table[x].called = objs[x].called
  BY <1>3, <1>4 DEF TypeOK
<1>6. me \in Target /\ me.obj = o
  BY <1>3 DEF ObjectOnly, Target, NoId
<1>7. IsTurn(rec, {}, t)
  <2>1. MaxMake \in Nat /\ calls \in Nat /\ {} \in SUBSET rec.children
    BY BoundsAssumption
  <2>2. QED
    BY <1>2, <1>3, <1>4, <2>1, TurnType
<1>8. Len(t.call) = 0
  <2>1. t.call \in Lists(rec.children \union NewIds(MaxMake), 0)
    BY <1>2 DEF Turns
  <2>2. PICK n \in 0 .. 0 : t.call \in [1 .. n -> rec.children \union NewIds(MaxMake)]
    BY <2>1 DEF Lists
  <2>3. DOMAIN t.call = {} /\ DOMAIN t.call = 1 .. Len(t.call) /\ Len(t.call) \in Nat
    <3>1. DOMAIN t.call = {}
      BY <2>2
    <3>2. DOMAIN t.call = 1 .. Len(t.call) /\ Len(t.call) \in Nat
      BY <1>7 DEF IsTurn
    <3>3. QED
      BY <3>1, <3>2
  <2>4. QED
    BY <2>3
<1>9. t.attach = {}
  BY <1>2, NothingAttached
<1>10. /\ D \in SUBSET table[me.obj].children /\ IsTurn(table[me.obj], D, t)
       /\ me.obj \in DOMAIN table /\ IsData(after) /\ Elems(after) = {}
  BY <1>5, <1>6, <1>7, NoData
<1>11. /\ o \notin Live /\ o \notin Born /\ o < nextObj
       /\ Unique(Tail(q), "obj", Live \union {o}, nextObj)
  <2>1. Opens(Head(q), "obj") /\ Key(Head(q), "obj") = o
    BY <1>1 DEF Opens, Key
  <2>2. Unique(q, "obj", Live, nextObj)
    BY DEF AnswerInv
  <2> HIDE DEF o
  <2>3. QED
    BY <1>1, <1>3, <2>1, <2>2, Popped DEF Born
<1>12. /\ DOMAIN table \subseteq Int /\ \A x \in DOMAIN table : x < nextObj
       /\ Unique(Tail(q), "obj", DOMAIN table, nextObj)
  BY <1>1, <1>3, <1>5, <1>11, PoppedAnswers
<1>13. \A x \in DOMAIN table :
          x \notin Born \/ (x \in Live /\ table[x].called = objs[x].called)
  BY <1>5, <1>11
<1>14. /\ DOMAIN procs' \subseteq Int /\ \A p \in DOMAIN procs' : p < nextProc
       /\ Unique(Tail(q), "proc", DOMAIN procs', nextProc)
       /\ \A p \in DOMAIN procs : p \in DOMAIN procs' /\ procs'[p] = procs[p]
       /\ \A p \in DOMAIN procs' : p \in DOMAIN procs \/ p \notin Started
  BY <1>1, PoppedProcs
<1> HIDE DEF o, rec, table, calls, me, after, D
<1>15. /\ Keeps /\ Unique(q', "obj", Live', nextObj') /\ \A x \in Live' : x < nextObj'
       /\ DOMAIN also' = {}
  BY <1>1, <1>2, <1>5, <1>6, <1>9, <1>10, <1>12, <1>13, <1>14, TurnKeeps
<1>16. \A p \in DOMAIN procs' : GoodBack(procs[p].back, p)'
  BY <1>1, <1>15, KeptBacks
<1>17. (\A m \in Elems(after) : Good(m)') /\ ~(t.arm # 0 \/ Len(t.call) # 0)
  BY <1>2, <1>8, <1>10
<1>18. QED
  BY <1>1, <1>2, <1>5, <1>6, <1>10, <1>15, <1>16, <1>17, TurnAnswers

\* function_call starts a procedure that had not been started: its calls are
\* heard by it, and its answer by the procedure that called it.
LEMMA FunctionAnswers ==
    ASSUME ~Attaching, IInv, ProcInv, AnswerInv, FunctionCall
    PROVE  AnswerInv'
<1>0. PICK m : m = Head(q)
  OBVIOUS
<1> DEFINE me == m.ti
           o == m.ti.obj
           k == m.ti.proc
           rec == [objs[o] EXCEPT !.procs = @ \union {k}]
           table == [objs EXCEPT ![o] = rec]
           make == IF LateConstruct THEN MaxMake ELSE 0
           D == Droppable(rec, m)
           After(t) == IF t.ret /\ m.ci # Nobody
                       THEN <<ChildTaskCompletion(m.ti, m.ci)>> ELSE <<>>
<1>1. /\ q # <<>> /\ m.kind = "call" /\ o \in Live
      /\ procs' = [p \in DOMAIN procs \union {k} |->
                      IF p = k THEN [obj |-> o, back |-> m.ci] ELSE procs[p]]
  BY <1>0 DEF FunctionCall, Dequeue
<1>2. PICK t \in Turns(rec, make, MaxCall, D, BOOLEAN) :
         ProcessQueued(table, m.ti, t, After(t))
  BY <1>0 DEF FunctionCall
<1>3. m.ti \in Target /\ m.ci \in Target /\ k \in Int /\ TypeOK /\ q \in Seq(Message)
  BY <1>0, <1>1, HeadType DEF IInv
<1>4. objs[o] \in ObjectRecord /\ objs \in [Live -> ObjectRecord]
  BY <1>1, <1>3 DEF TypeOK
<1>5. rec \in ObjectRecord /\ rec.called = objs[o].called
  BY <1>3, <1>4 DEF ObjectRecord
<1>6. /\ table \in [Live -> ObjectRecord] /\ table[o] = rec /\ DOMAIN table = Live
      /\ \A x \in Live : table[x].called = objs[x].called
  BY <1>1, <1>4, <1>5
<1>7. D \in SUBSET rec.children
  BY DroppableType
<1> DEFINE after == After(t)
<1>8. IsData(after)
  <2>1. IsData(<<>>)
    BY DEF IsData
  <2>2. QED
    BY <1>3, <2>1, CompletionData
<1>9. IsTurn(rec, D, t) /\ t.attach = {}
  <2>1. make \in Nat /\ MaxCall \in Nat
    BY BoundsAssumption
  <2>2. QED
    <3>1. IsTurn(rec, D, t)
      BY <1>2, <1>3, <1>5, <1>7, <2>1, TurnType
    <3>2. t.attach = {}
      BY <1>2, NothingAttached
    <3>3. QED
      BY <3>1, <3>2
<1>10. /\ table \in [DOMAIN table -> ObjectRecord] /\ me \in Target
       /\ me.obj \in DOMAIN table /\ D \in SUBSET table[me.obj].children
       /\ IsTurn(table[me.obj], D, t)
       /\ ProcessQueued(table, me, t, after)
  BY <1>1, <1>2, <1>3, <1>6, <1>7, <1>9
<1>11. /\ k \notin DOMAIN procs /\ k < nextProc /\ k \notin Started
       /\ Unique(Tail(q), "proc", DOMAIN procs \union {k}, nextProc)
       /\ k \in Opened(Tail(q), "proc", nextProc)
  <2>1. Opens(Head(q), "proc") /\ Key(Head(q), "proc") = k
    BY <1>0, <1>1 DEF Opens, Key
  <2>2. Unique(q, "proc", DOMAIN procs, nextProc)
    BY DEF ProcInv
  <2> HIDE DEF k
  <2>3. QED
    BY <1>1, <1>3, <2>1, <2>2, Popped DEF Started
<1>12. /\ DOMAIN procs' = DOMAIN procs \union {k} /\ procs'[k].obj = o
       /\ procs'[k].back = m.ci
       /\ \A p \in DOMAIN procs : p \in DOMAIN procs' /\ procs'[p] = procs[p]
       /\ \A p \in DOMAIN procs' : p \in DOMAIN procs \/ p = k
  BY <1>1, <1>11
<1>13. /\ DOMAIN table \subseteq Int /\ \A x \in DOMAIN table : x < nextObj
       /\ Unique(Tail(q), "obj", DOMAIN table, nextObj)
  BY <1>1, <1>6, PoppedAnswers
<1>14. \A x \in DOMAIN table :
          x \notin Born \/ (x \in Live /\ table[x].called = objs[x].called)
  BY <1>6
<1>15. /\ DOMAIN procs' \subseteq Int /\ \A p \in DOMAIN procs' : p < nextProc
       /\ Unique(Tail(q), "proc", DOMAIN procs', nextProc)
       /\ \A p \in DOMAIN procs' : p \in DOMAIN procs \/ p \notin Started
  BY <1>1, <1>3, <1>11, <1>12, PoppedProcs
<1>16. Elems(after) = IF t.ret /\ m.ci # Nobody
                      THEN {ChildTaskCompletion(m.ti, m.ci)} ELSE {}
  BY DEF Elems
<1>17. me.obj = o /\ me.proc = k /\ m.ti = me
  OBVIOUS
<1> HIDE DEF rec, table, make, D, after, k, o, me
<1>18. /\ Keeps /\ Unique(q', "obj", Live', nextObj') /\ \A x \in Live' : x < nextObj'
       /\ Opened(Tail(q), "proc", nextProc) \subseteq Started'
       /\ DOMAIN also' = {} /\ Live' = DOMAIN table
  BY <1>1, <1>8, <1>9, <1>10, <1>12, <1>13, <1>14, <1>15, TurnKeeps
<1>19. o \in Born'
  <2>1. o \in Born
    BY <1>1, LiveBorn
  <2>2. QED
    BY <1>18, <2>1 DEF Keeps
<1>20. Ref(me)' /\ me.proc \in DOMAIN procs'
  BY <1>11, <1>12, <1>17, <1>18, <1>19 DEF Ref
<1>21. m.ci # Nobody => Ref(m.ci)' /\ Heard(m.ci, k)'
  <2>1. Good(m)
    BY <1>0, <1>1, PoppedAnswers
  <2>2. m.ci # Nobody => Ref(m.ci) /\ Heard(m.ci, m.ti.proc)
    BY <1>1, <2>1 DEF Good
  <2>3. QED
    BY <1>17, <1>18, <2>2, KeptRef, KeptHeard
<1>22. ASSUME NEW p \in DOMAIN procs'
       PROVE  GoodBack(procs[p].back, p)'
  <2>1. CASE p \in DOMAIN procs
    BY <1>12, <1>18, <2>1, KeptBacks
  <2>2. CASE p = k
    BY <1>12, <1>21, <2>2 DEF GoodBack, Ref, Heard
  <2>3. QED
    BY <1>12, <2>1, <2>2
<1>23. ASSUME NEW x \in Elems(after)
       PROVE  Good(x)'
  <2>1. m.ci # Nobody /\ x = ChildTaskCompletion(me, m.ci)
    BY <1>16, <1>17
  <2>2. x.kind = "done" /\ x.ti = m.ci /\ x.task = k /\ x.ci.obj = o
    BY <1>17, <2>1 DEF ChildTaskCompletion
  <2>3. QED
    BY <1>19, <1>21, <2>1, <2>2 DEF Good, Ref, Heard
<1>24. QED
  BY <1>1, <1>8, <1>10, <1>18, <1>20, <1>22, <1>23, TurnAnswers

\* data_received: the answer of on_yield goes to the procedure that called.
LEMMA ReceivedAnswers ==
    ASSUME ~Attaching, IInv, ProcInv, AnswerInv, NEW kind \in {"io", "done"},
           DataReceived(kind)
    PROVE  AnswerInv'
<1>0. PICK m : m = Head(q)
  OBVIOUS
<1> DEFINE me == m.ti
           rec == objs[me.obj]
           make == IF LateConstruct THEN MaxMake ELSE 0
           D == Droppable(rec, m)
           rets == IF procs[me.proc].back = Nobody THEN {FALSE} ELSE BOOLEAN
           table == objs
<1>1. /\ q # <<>> /\ m.kind = kind
      /\ me.obj \in Live /\ me.proc \in DOMAIN procs /\ procs' = procs
  BY <1>0 DEF DataReceived, Dequeue, Known
<1>2. PICK t \in Turns(rec, make, MaxCall, D, rets) :
         ProcessQueued(objs, me, t, Answer(me, t) \o Copies(m, t))
  BY <1>0 DEF DataReceived
<1>3. m \in Message /\ me \in Target /\ TypeOK
  BY <1>0, <1>1, HeadType DEF IInv
<1>4. objs \in [Live -> ObjectRecord] /\ rec \in ObjectRecord
  BY <1>1, <1>3 DEF TypeOK
<1>5. D \in SUBSET rec.children
  BY DroppableType
<1>6. make \in Nat /\ MaxCall \in Nat
  BY BoundsAssumption
<1>7. IsTurn(rec, D, t) /\ t.attach = {} /\ t.ret \in rets
  BY <1>2, <1>3, <1>4, <1>5, <1>6, TurnType, NothingAttached
<1>8. IsData(Answer(me, t) \o Copies(m, t))
  BY <1>1, <1>3, <1>5, <1>7, DataQueued
<1> DEFINE after == Answer(me, t) \o Copies(m, t)
           back == procs[me.proc].back
<1>9. Elems(after) = IF t.ret THEN {ChildTaskCompletion(me, back)} ELSE {}
  <2>1. DOMAIN Attached(me, t) = {}
    BY <1>7 DEF Attached, AnswerInv
  <2>2. Copies(m, t) = <<>>
    BY <2>1 DEF Copies
  <2>3. back \in Target
    BY <1>1, <1>3 DEF TypeOK
  <2>4. ChildTaskCompletion(me, back) \in Message
    BY <1>3, <2>3 DEF ChildTaskCompletion, Message, Target
  <2>5. Answer(me, t) = IF t.ret THEN <<ChildTaskCompletion(me, back)>> ELSE <<>>
    BY DEF Answer
  <2>6. after = Answer(me, t)
    BY <2>2, <2>4, <2>5
  <2>7. Elems(<<>>) = {} /\ \A x : Elems(<<x>>) = {x}
    BY DEF Elems
  <2> HIDE DEF after, back
  <2>8. QED
    BY <2>5, <2>6, <2>7
<1>10. /\ table \in [DOMAIN table -> ObjectRecord] /\ me.obj \in DOMAIN table
       /\ D \in SUBSET table[me.obj].children /\ IsTurn(table[me.obj], D, t)
       /\ IsData(after) /\ ProcessQueued(table, me, t, after) /\ DOMAIN table = Live
       /\ t.ret => back # Nobody
  BY <1>1, <1>2, <1>4, <1>5, <1>7, <1>8 DEF Live
<1>11. /\ DOMAIN table \subseteq Int /\ \A x \in DOMAIN table : x < nextObj
       /\ Unique(Tail(q), "obj", DOMAIN table, nextObj)
  BY <1>1, <1>10, PoppedAnswers
<1>12. \A x \in DOMAIN table :
          x \notin Born \/ (x \in Live /\ table[x].called = objs[x].called)
  BY <1>10
<1>13. /\ DOMAIN procs' \subseteq Int /\ \A p \in DOMAIN procs' : p < nextProc
       /\ Unique(Tail(q), "proc", DOMAIN procs', nextProc)
       /\ \A p \in DOMAIN procs : p \in DOMAIN procs' /\ procs'[p] = procs[p]
       /\ \A p \in DOMAIN procs' : p \in DOMAIN procs \/ p \notin Started
  BY <1>1, PoppedProcs
<1>14. m.ti = me
  OBVIOUS
<1>15. Good(m) /\ m.kind \in {"io", "done"}
  BY <1>0, <1>1, PoppedAnswers
<1> HIDE DEF me, rec, make, D, rets, after, table
<1>16. /\ Keeps /\ Unique(q', "obj", Live', nextObj') /\ \A x \in Live' : x < nextObj'
       /\ DOMAIN also' = {}
  BY <1>1, <1>3, <1>7, <1>10, <1>11, <1>12, <1>13, TurnKeeps
<1>17. me.obj \in Born'
  <2>1. me.obj \in Born
    BY <1>1, LiveBorn
  <2>2. QED
    BY <1>16, <2>1 DEF Keeps
<1>18. Ref(me)' /\ me.proc \in DOMAIN procs'
  <2>1. Ref(me)
    BY <1>14, <1>15 DEF Good
  <2>2. QED
    BY <1>1, <1>16, <2>1, KeptRef
<1>19. \A p \in DOMAIN procs' : GoodBack(procs[p].back, p)'
  BY <1>1, <1>16, KeptBacks
<1>20. ASSUME NEW x \in Elems(after)
       PROVE  Good(x)'
  <2>0. PICK b : b = back
    OBVIOUS
  <2> HIDE DEF back
  <2>1. b # Nobody /\ x = ChildTaskCompletion(me, b)
    BY <1>9, <1>10, <2>0
  <2>2. x.kind = "done" /\ x.ti = b /\ x.task = me.proc /\ x.ci = me
    BY <2>1 DEF ChildTaskCompletion
  <2>3. Ref(b) /\ Heard(b, me.proc)
    BY <1>1, <2>0, <2>1 DEF back, AnswerInv, GoodBack
  <2>4. Ref(b)' /\ Heard(b, me.proc)'
    BY <1>16, <2>3, KeptRef, KeptHeard
  <2>5. QED
    BY <1>17, <2>2, <2>4 DEF Good
<1>21. QED
  BY <1>1, <1>3, <1>10, <1>16, <1>18, <1>19, <1>20, TurnAnswers

\* Every step of the thread keeps what is known of callers.
LEMMA NextAnswers ==
    ASSUME ~CtorCalls, ~Attaching, IInv, ProcInv, AnswerInv, [Next]_vars
    PROVE  AnswerInv'
<1>1. CASE UNCHANGED vars
  BY <1>1 DEF vars, AnswerInv, GoodBack, Good, Ref, Heard, Born, Started, Live
<1>2. CASE Next
  BY <1>2, RootAnswers, ConstructAnswers, FunctionAnswers, DeleteAnswers,
     ReceivedAnswers, DroppedAnswers, RunAnswers DEF Next, HandleDequeue
<1>3. QED
  BY <1>1, <1>2

\* An answer reaches the procedure that made the call, under its own number of
\* the call, and the child it comes from is alive if it is still held: for every
\* bound, when constructors call nobody and nothing is attached.
THEOREM AnswerHeardHolds ==
    ASSUME ~CtorCalls, ~Attaching
    PROVE  Spec => []AnswerHeard
<1>1. ASSUME IInv, AnswerInv
      PROVE  AnswerHeard
  <2>1. SUFFICES ASSUME q # <<>>, Head(q).kind = "done", Head(q).ti.obj \in Live
                 PROVE  /\ Head(q).ti.proc \in DOMAIN procs
                        /\ procs[Head(q).ti.proc].obj = Head(q).ti.obj
                        /\ Head(q).task \in Elems(objs[Head(q).ti.obj].called)
                        /\ Head(q).ci.obj \in objs[Head(q).ti.obj].children =>
                              Head(q).ci.obj \in Live
    BY DEF AnswerHeard, CallerKnown, HeldChildAlive
  <2>2. Good(Head(q)) /\ q \in Seq(Message)
    BY <1>1, <2>1, PoppedAnswers
  <2>3. Ref(Head(q).ti) /\ Heard(Head(q).ti, Head(q).task) /\ Head(q).ci.obj \in Born
    BY <2>1, <2>2 DEF Good
  <2>4. ASSUME NEW c \in Born, NEW p \in Live, c \in objs[p].children
        PROVE  c \in Live
    <3>1. DOMAIN Kids = Live /\ c \in Kids[p]
      BY <2>4 DEF Kids
    <3>2. c \in Live \/ Waits(q, "construct", c)
      BY <1>1, <3>1 DEF IInv, Safe, KidsSafe
    <3>3. ~Waits(q, "construct", c)
      BY <2>4 DEF Born, Opened, Opens, Key, Waits, Is
    <3>4. QED
      BY <3>2, <3>3
  <2>5. QED
    BY <2>1, <2>3, <2>4 DEF Ref, Heard
<1>2. QED
  BY InitIInv, InitProcs, InitAnswers, NextIInv, NextProcs, NextAnswers, <1>1, PTL
     DEF Spec
=============================================================================
