------------------------- MODULE BlockBuffers_proof -------------------------
(***************************************************************************)
(* Proofs about BlockBuffers, for any finite sets of users and buffer      *)
(* groups, any devices, block numbers, block sizes, hold time and workers, *)
(* and whether or not read-ahead, errors, purges and changes of the block  *)
(* size happen.                                                            *)
(*                                                                         *)
(* The properties are about buffers in the hands of users; they rest on    *)
(* who may be where: a buffer has at most one owner and is in at most one  *)
(* transfer, its list is the one of its state, a sleeper keeps its buffer  *)
(* from being reused, and what is not on the disk has somebody to write it *)
(* or is lost, purged or given up after a failing write.  These are the    *)
(* parts of Core.  rtems_bdbuf_purge_dev breaks one of them, OwnInv, when  *)
(* it hits a directive of another user (raced), and the rest with the next *)
(* step; CacheInv says how far the parts hold.                             *)
(*                                                                         *)
(* There is one lemma for each action, named after it.  The lemmas before  *)
(* it say what the actions have in common: one buffer given back, kept or  *)
(* taken, several changed at once, a user that sleeps or wakes.            *)
(***************************************************************************)
EXTENDS BlockBuffers, FiniteSetTheorems, FunctionTheorems, SequenceTheorems, TLAPS

(* A nonempty set of numbers has a least one. *)
LEMMA MinExists ==
    ASSUME NEW I \in SUBSET Nat, I # {}
    PROVE  \E i \in I : \A j \in I : i <= j
<1>1. IsWellFoundedOn(OpToRel(<, Nat), Nat)  BY NatLessThanWellFounded
<1>2. PICK x \in I : \A y \in I : ~(<<y, x>> \in OpToRel(<, Nat))
  BY <1>1, WFMin
<1>3. \A y \in I : ~(y < x)  BY <1>2 DEF OpToRel
<1> QED  BY <1>3

(* First, the first position on a list that the code walks down to, is one  *)
(* of the positions.                                                        *)
LEMMA FirstIn ==
    ASSUME NEW I \in SUBSET Nat, I # {}
    PROVE  First(I) \in I
  BY MinExists DEF First

(* An injective sequence with the elements of S *)
Lists(s, S) == s \in Seq(S) /\ IsInjective(s) /\ ToSet(s) = S

(* As many different elements as S has are all of S. *)
LEMMA InjectionLists ==
    ASSUME NEW S, IsFiniteSet(S), NEW f \in [1 .. Cardinality(S) -> S], IsInjective(f)
    PROVE  Lists(f, S)
<1>1. Cardinality(S) \in Nat  BY FS_CardinalityType
<1>2. f \in Seq(S) /\ DOMAIN f = 1 .. Cardinality(S)
  <2>1. DOMAIN f = 1 .. Cardinality(S)  OBVIOUS
  <2>2. f = [i \in 1 .. Cardinality(S) |-> f[i]]  OBVIOUS
  <2>3. f \in Seq(S)  BY <1>1, SeqDef
  <2> QED BY <2>1, <2>3
<1>3. f \in Injection(1 .. Cardinality(S), S)  BY DEF Injection
<1>4. Cardinality(1 .. Cardinality(S)) = Cardinality(S)  BY <1>1, FS_Interval
<1>5. f \in Surjection(1 .. Cardinality(S), S)  BY <1>3, <1>4, FS_Injection
<1>6. \A t \in S : \E i \in 1 .. Cardinality(S) : f[i] = t  BY <1>5 DEF Surjection
<1>7. ToSet(f) = S  BY <1>2, <1>6 DEF ToSet
<1> QED  BY <1>2, <1>7 DEF Lists

(* rtems_bdbuf_do_init puts every buffer on the LRU list once. *)
LEMMA SetToSeqLists ==
    ASSUME NEW S, IsFiniteSet(S)
    PROVE  Lists(SetToSeq(S), S)
<1>1. Cardinality(S) \in Nat /\ ExistsBijection(1 .. Cardinality(S), S)  BY FS_CardinalityType
<1>2. PICK f : f \in Bijection(1 .. Cardinality(S), S)  BY <1>1 DEF ExistsBijection
<1>3. f \in [1 .. Cardinality(S) -> S] /\ IsInjective(f)
  BY <1>2 DEF Bijection, Injection
<1>4. SetToSeq(S) \in [1 .. Cardinality(S) -> S] /\ IsInjective(SetToSeq(S))
  BY <1>3 DEF SetToSeq
<1> QED  BY <1>4, InjectionLists

(* Whatever the order in which the purge list was gathered, it has each     *)
(* buffer once.                                                             *)
LEMMA SetToSeqsLists ==
    ASSUME NEW S, IsFiniteSet(S), NEW q \in SetToSeqs(S)
    PROVE  Lists(q, S)
<1>1. q \in [1 .. Cardinality(S) -> S] /\ IsInjective(q)
  BY DEF SetToSeqs, IsInjective
<1> QED  BY <1>1, InjectionLists

(* Ordering a set by different numbers gives each element once, in their    *)
(* order.                                                                   *)
LEMMA RankedLists ==
    ASSUME NEW S, IsFiniteSet(S), NEW f \in [S -> Int], IsInjective(f)
    PROVE  /\ Lists(Ranked(S, f), S) /\ Ranked(S, f) \in SetToSeqs(S)
           /\ \A i, j \in DOMAIN Ranked(S, f) : i < j => f[Ranked(S, f)[i]] <= f[Ranked(S, f)[j]]
<1> DEFINE n == Cardinality(S)
           Low(x) == {y \in S : f[y] < f[x]}
           r == [x \in S |-> Cardinality(Low(x)) + 1]
<1>1. n \in Nat  BY FS_CardinalityType
<1>2. ASSUME NEW x \in S  PROVE IsFiniteSet(Low(x)) /\ Cardinality(Low(x)) \in 0 .. n - 1
  <2>1. Low(x) \in SUBSET S /\ x \notin Low(x)  OBVIOUS
  <2>2. IsFiniteSet(Low(x)) /\ Cardinality(Low(x)) <= n /\ (n = Cardinality(Low(x)) => S = Low(x))
    BY <2>1, FS_Subset
  <2>3. Cardinality(Low(x)) \in Nat  BY <2>2, FS_CardinalityType
  <2> QED  BY <2>1, <2>2, <2>3, <1>1
<1>3. ASSUME NEW x \in S, NEW y \in S, f[x] < f[y]  PROVE Cardinality(Low(x)) < Cardinality(Low(y))
  <2>1. Low(x) \in SUBSET Low(y) /\ x \in Low(y) /\ x \notin Low(x)  BY <1>3
  <2>2. Cardinality(Low(x)) <= Cardinality(Low(y)) /\ (Cardinality(Low(y)) = Cardinality(Low(x)) => Low(y) = Low(x))
    BY <2>1, <1>2, FS_Subset
  <2> HIDE DEF Low
  <2> QED  BY <2>1, <2>2, <1>2
<1>4. r \in [S -> 1 .. n]  
  <2> HIDE DEF Low
  <2> QED BY <1>1, <1>2
<1>5. IsInjective(r)
  <2>1. SUFFICES ASSUME NEW x \in S, NEW y \in S, r[x] = r[y]  PROVE x = y
    BY <1>4 DEF IsInjective
  <2>2. Cardinality(Low(x)) = Cardinality(Low(y))
    <3> HIDE DEF Low
    <3> QED  BY <2>1, <1>2
  <2>3. ~(f[x] < f[y]) /\ ~(f[y] < f[x])  
    <3> HIDE DEF Low
    <3> QED BY <2>2, <1>2, <1>3
  <2>4. f[x] = f[y]  BY <2>3
  <2> QED  BY <2>4 DEF IsInjective
<1>6. r \in Surjection(S, 1 .. n)
  <2>1. r \in Injection(S, 1 .. n)  
    <3> HIDE DEF r
    <3> QED BY <1>4, <1>5 DEF Injection
  <2>2. IsFiniteSet(1 .. n) /\ Cardinality(1 .. n) = n  
    <3> HIDE DEF n
    <3> QED BY <1>1, FS_Interval
  <2> HIDE DEF r
  <2> QED  BY <2>1, <2>2, FS_Injection
<1> DEFINE R(i) == CHOOSE x \in S : Cardinality(Low(x)) = i - 1
<1>7. ASSUME NEW i \in 1 .. n  PROVE R(i) \in S /\ Cardinality(Low(R(i))) = i - 1
  <2>1. PICK x \in S : r[x] = i  
    <3> HIDE DEF r, n
    <3> QED BY <1>6 DEF Surjection
  <2>2. Cardinality(Low(x)) = i - 1  
    <3> HIDE DEF Low
    <3> QED BY <2>1, <1>2
  <2> HIDE DEF Low
  <2> QED  BY <2>2
<1>8. Ranked(S, f) = [i \in 1 .. n |-> R(i)]  BY DEF Ranked
<1>9. Ranked(S, f) \in [1 .. n -> S] 
  <2> HIDE DEF R, n
  <2> QED BY <1>7, <1>8
<1>10. IsInjective(Ranked(S, f))
  <2> HIDE DEF R, n, Low
  <2> SUFFICES ASSUME NEW i \in 1 .. n, NEW j \in 1 .. n, R(i) = R(j)  PROVE i = j
    BY <1>8 DEF IsInjective
  <2> QED  BY <1>1, <1>7
<1>11. ASSUME NEW i \in 1 .. n, NEW j \in 1 .. n, i < j  PROVE f[R(i)] <= f[R(j)]
  <2> HIDE DEF R, n, Low
  <2>1. R(i) \in S /\ R(j) \in S  BY <1>7
  <2>2. Cardinality(Low(R(i))) = i - 1 /\ Cardinality(Low(R(j))) = j - 1  BY <1>7
  <2>3. ~(f[R(j)] < f[R(i)])  BY <2>1, <2>2, <1>3, <1>1, <1>11
  <2>4. f[R(i)] \in Int /\ f[R(j)] \in Int  BY <2>1
  <2> QED  BY <2>3, <2>4
<1>12. Ranked(S, f) \in SetToSeqs(S)
  <2> HIDE DEF R
  <2> QED  BY <1>9, <1>10 DEF SetToSeqs, IsInjective
<1>13. \A i, j \in DOMAIN Ranked(S, f) : i < j => f[Ranked(S, f)[i]] <= f[Ranked(S, f)[j]]
  <2> HIDE DEF R, n
  <2> QED  BY <1>8, <1>11
<1> HIDE DEF R
<1> QED  BY <1>9, <1>10, <1>12, <1>13, InjectionLists

(* rtems_chain_extract_unprotected: what is left of a list are its other    *)
(* buffers, once each.                                                      *)
LEMMA WithoutLists ==
    ASSUME NEW B, NEW s \in Seq(B), IsInjective(s), NEW S
    PROVE  Lists(Without(s, S), ToSet(s) \ S)
<1> DEFINE left == {i \in DOMAIN s : s[i] \notin S}
           at == Ranked(left, [i \in left |-> i])
           w == [j \in DOMAIN at |-> s[at[j]]]
<1>1. Len(s) \in Nat /\ DOMAIN s = 1 .. Len(s) /\ left \in SUBSET (1 .. Len(s))  BY LenProperties
<1>2. IsFiniteSet(left)
  <2>1. IsFiniteSet(1 .. Len(s))  BY <1>1, FS_Interval
  <2> HIDE DEF left
  <2> QED  BY <1>1, <2>1, FS_Subset
<1>3. [i \in left |-> i] \in [left -> Int] /\ IsInjective([i \in left |-> i])
  BY <1>1 DEF IsInjective
<1>4. Lists(at, left)  
  <2> HIDE DEF left
  <2> QED BY <1>2, <1>3, RankedLists
<1> HIDE DEF at
<1>5. at \in Seq(left) /\ IsInjective(at) /\ ToSet(at) = left /\ Len(at) \in Nat /\ DOMAIN at = 1 .. Len(at)
  <2> HIDE DEF left
  <2> QED  BY <1>4, LenProperties DEF Lists
<1>6. \A j \in DOMAIN at : at[j] \in left  BY <1>5 DEF ToSet
<1>7. ToSet(w) = ToSet(s) \ S
  <2>1. ToSet(w) = {s[at[j]] : j \in DOMAIN at}  BY DEF ToSet
  <2>2. ToSet(s) \ S = {s[i] : i \in left}  BY DEF ToSet
  <2>3. \A i \in left : \E j \in DOMAIN at : at[j] = i  BY <1>5 DEF ToSet
  <2> HIDE DEF left, w
  <2> QED  BY <2>1, <2>2, <2>3, <1>6
<1>8. IsInjective(w)  BY <1>5, <1>6, <1>1 DEF IsInjective
<1>9. w \in Seq(ToSet(s) \ S)
  <2>1. \A j \in 1 .. Len(at) : s[at[j]] \in ToSet(s) \ S  BY <1>5, <1>6 DEF ToSet
  <2>2. w \in [1 .. Len(at) -> ToSet(s) \ S]  BY <2>1, <1>5
  <2>3. w \in UNION {[1 .. m -> ToSet(s) \ S] : m \in Nat}  BY <2>2, <1>5
  <2> HIDE DEF w
  <2> QED  BY <2>3, SeqDef
<1>10. Without(s, S) = w  BY DEF Without, at
<1> HIDE DEF w
<1> QED  BY <1>7, <1>8, <1>9, <1>10 DEF Lists
(* rtems_chain_append_unprotected of a buffer that is not on the list. *)
LEMMA AppendLists ==
    ASSUME NEW S, NEW s, Lists(s, S), NEW b, b \notin S
    PROVE  Lists(Append(s, b), S \cup {b})
<1>1. s \in Seq(S) /\ IsInjective(s) /\ ToSet(s) = S  BY DEF Lists
<1>2. s \in Seq(S \cup {b}) /\ Len(s) \in Nat /\ DOMAIN s = 1 .. Len(s)
  BY <1>1, LenProperties, SeqMonotonic
<1> DEFINE t == Append(s, b)
<1>3. /\ t \in Seq(S \cup {b}) /\ Len(t) = Len(s) + 1
      /\ \A i \in 1 .. Len(s) : t[i] = s[i]
      /\ t[Len(s) + 1] = b
  BY <1>2, AppendProperties
<1> HIDE DEF t
<1>4. DOMAIN t = 1 .. Len(s) + 1  BY <1>3, LenProperties
<1>5. \A i \in 1 .. Len(s) : s[i] \in S  BY <1>1, ElementOfSeq
<1>6. IsInjective(t)
  <2> SUFFICES ASSUME NEW i \in DOMAIN t, NEW j \in DOMAIN t, t[i] = t[j]  PROVE i = j
    BY DEF IsInjective
  <2>1. CASE i = Len(s) + 1 \/ j = Len(s) + 1  BY <2>1, <1>2, <1>3, <1>4, <1>5
  <2>2. CASE i \in 1 .. Len(s) /\ j \in 1 .. Len(s)
    BY <2>2, <1>1, <1>2, <1>3 DEF IsInjective
  <2> QED  BY <2>1, <2>2, <1>2, <1>4
<1>7. ToSet(t) = S \cup {b}
  <2>1. \A x \in ToSet(t) : x \in S \cup {b}  BY <1>2, <1>3, <1>4, <1>5 DEF ToSet
  <2>2. b \in ToSet(t)  
    <3>1. Len(s) + 1 \in DOMAIN t  BY <1>2, <1>4
    <3> QED BY <3>1, <1>3 DEF ToSet
  <2>3. \A x \in S : x \in ToSet(t)
    <3> TAKE x \in S
    <3>1. PICK i \in 1 .. Len(s) : s[i] = x  BY <1>1, <1>2 DEF ToSet
    <3>2. i \in DOMAIN t /\ t[i] = x  BY <3>1, <1>2, <1>3, <1>4
    <3> QED  BY <3>2 DEF ToSet
  <2> QED  BY <2>1, <2>2, <2>3
<1> QED  BY <1>3, <1>6, <1>7 DEF Lists, t

(* Two lists that share no buffer, one after the other. *)
LEMMA ConcatLists ==
    ASSUME NEW S, NEW T, NEW s, NEW t, Lists(s, S), Lists(t, T), S \cap T = {}
    PROVE  Lists(s \o t, S \cup T)
<1>1. /\ s \in Seq(S) /\ IsInjective(s) /\ ToSet(s) = S
      /\ t \in Seq(T) /\ IsInjective(t) /\ ToSet(t) = T  BY DEF Lists
<1>2. /\ s \in Seq(S \cup T) /\ Len(s) \in Nat /\ DOMAIN s = 1 .. Len(s)
      /\ t \in Seq(S \cup T) /\ Len(t) \in Nat /\ DOMAIN t = 1 .. Len(t)
  BY <1>1, LenProperties, SeqMonotonic
<1> DEFINE c == s \o t
<1>3. /\ c \in Seq(S \cup T) /\ Len(c) = Len(s) + Len(t)
      /\ \A i \in 1 .. Len(s) + Len(t) : c[i] = IF i <= Len(s) THEN s[i] ELSE t[i - Len(s)]
  BY <1>2, ConcatProperties
<1> HIDE DEF c
<1>4. DOMAIN c = 1 .. Len(s) + Len(t)  BY <1>3, LenProperties
<1>5. (\A i \in 1 .. Len(s) : s[i] \in S) /\ (\A i \in 1 .. Len(t) : t[i] \in T)
  BY <1>1, ElementOfSeq
<1>6. \A i \in DOMAIN c :
        \/ (i \in 1 .. Len(s) /\ c[i] = s[i])
        \/ (i > Len(s) /\ i - Len(s) \in 1 .. Len(t) /\ c[i] = t[i - Len(s)])
  BY <1>2, <1>3, <1>4, SMTT(30)
<1>7. IsInjective(c)
  <2> SUFFICES ASSUME NEW i \in DOMAIN c, NEW j \in DOMAIN c, c[i] = c[j]  PROVE i = j
    BY DEF IsInjective
  <2>1. CASE i \in 1 .. Len(s) /\ j \in 1 .. Len(s)  
    BY <2>1, <1>1, <1>2, <1>6 DEF IsInjective
  <2>2. CASE i > Len(s) /\ j > Len(s)
    <3>1. i - Len(s) \in DOMAIN t /\ j - Len(s) \in DOMAIN t /\ t[i - Len(s)] = t[j - Len(s)]
      BY <2>2, <1>2, <1>6
    <3>2. i - Len(s) = j - Len(s)  BY <3>1, <1>1 DEF IsInjective
    <3> QED  BY <3>2, <1>2, <1>4
  <2> QED  BY <2>1, <2>2, <1>2, <1>4, <1>5, <1>6
<1>8. ToSet(c) = S \cup T
  <2>1. \A x \in ToSet(c) : x \in S \cup T  BY <1>5, <1>6 DEF ToSet
  <2>2. \A x \in S : x \in ToSet(c)
    <3> TAKE x \in S
    <3>1. PICK i \in 1 .. Len(s) : s[i] = x  BY <1>1, <1>2 DEF ToSet
    <3>2. i \in DOMAIN c /\ c[i] = x  BY <3>1, <1>2, <1>3, <1>4
    <3> QED  BY <3>2 DEF ToSet
  <2>3. \A x \in T : x \in ToSet(c)
    <3> TAKE x \in T
    <3>1. PICK i \in 1 .. Len(t) : t[i] = x  BY <1>1, <1>2 DEF ToSet
    <3>2. i + Len(s) \in DOMAIN c /\ c[i + Len(s)] = x  BY <3>1, <1>2, <1>3, <1>4
    <3> QED  BY <3>2 DEF ToSet
  <2> QED  BY <2>1, <2>2, <2>3
<1> QED  BY <1>3, <1>7, <1>8 DEF Lists, c

(* A list turned round: buffers prepended one by one to the LRU list. *)
LEMMA ReverseLists ==
    ASSUME NEW S, NEW s, Lists(s, S)
    PROVE  Lists(Reverse(s), S)
<1>1. s \in Seq(S) /\ IsInjective(s) /\ ToSet(s) = S  BY DEF Lists
<1>2. Len(s) \in Nat /\ DOMAIN s = 1 .. Len(s)  BY <1>1, LenProperties
<1> DEFINE t == Reverse(s)
<1>3. DOMAIN t = 1 .. Len(s) /\ \A i \in 1 .. Len(s) : t[i] = s[Len(s) - i + 1]  BY DEF Reverse
<1>4. \A i \in 1 .. Len(s) : Len(s) - i + 1 \in 1 .. Len(s) /\ Len(s) - (Len(s) - i + 1) + 1 = i
  BY <1>2
<1>5. \A i \in 1 .. Len(s) : s[i] \in S  BY <1>1, ElementOfSeq
<1>6. t \in Seq(S)
  <2>1. t \in [1 .. Len(s) -> S]  BY <1>3, <1>4, <1>5 DEF Reverse
  <2>2. t \in UNION {[1 .. m -> S] : m \in Nat}  BY <2>1, <1>2
  <2> HIDE DEF t
  <2> QED  BY <2>2, SeqDef
<1> HIDE DEF t
<1>7. IsInjective(t)
  <2> SUFFICES ASSUME NEW i \in 1 .. Len(s), NEW j \in 1 .. Len(s), t[i] = t[j]  PROVE i = j
    BY <1>3 DEF IsInjective
  <2>1. Len(s) - i + 1 = Len(s) - j + 1  BY <1>1, <1>2, <1>3, <1>4 DEF IsInjective
  <2> QED  BY <2>1, <1>2
<1>8. ToSet(t) = S
  <2>1. \A x \in ToSet(t) : x \in S  BY <1>3, <1>4, <1>5 DEF ToSet
  <2>2. \A x \in S : x \in ToSet(t)
    <3> TAKE x \in S
    <3>1. PICK i \in 1 .. Len(s) : s[i] = x  BY <1>1, <1>2 DEF ToSet
    <3>2. Len(s) - i + 1 \in DOMAIN t /\ t[Len(s) - i + 1] = x  BY <3>1, <1>3, <1>4
    <3> QED  BY <3>2 DEF ToSet
  <2> QED  BY <2>1, <2>2
<1> QED  BY <1>6, <1>7, <1>8 DEF Lists, t

(* The modified list and the sync list are empty at first. *)
LEMMA EmptyLists == Lists(<<>>, {})
  BY DEF Lists, IsInjective, ToSet

(* A buffer prepended to the LRU list is a list of one. *)
LEMMA SingleLists == ASSUME NEW b PROVE Lists(<<b>>, {b})
  BY DEF Lists, IsInjective, ToSet

(* A list as it should be has each of its buffers once and no other: what   *)
(* FollowsTable counts.                                                     *)
LEMMA ListsCount ==
    ASSUME NEW S, NEW s, Lists(s, S), NEW b
    PROVE  Count(b, s) = IF b \in S THEN 1 ELSE 0
<1>1. s \in Seq(S) /\ IsInjective(s) /\ ToSet(s) = S  BY DEF Lists
<1>2. CASE b \in S
  <2>1. PICK i \in DOMAIN s : s[i] = b  BY <1>2, <1>1 DEF ToSet
  <2>2. {j \in DOMAIN s : s[j] = b} = {i}  BY <2>1, <1>1 DEF IsInjective
  <2>3. Cardinality({i}) = 1  BY FS_Singleton
  <2> QED  BY <2>2, <2>3, <1>2 DEF Count
<1>3. CASE b \notin S
  <2>1. {j \in DOMAIN s : s[j] = b} = {}  BY <1>3, <1>1 DEF ToSet
  <2> QED  BY <2>1, <1>3, FS_EmptySet DEF Count
<1> QED  BY <1>2, <1>3

-----------------------------------------------------------------------------
(* The control points at which a user has the mutex, those at which it has  *)
(* found its buffer, and those at which the buffer is its own               *)
Locked == {"find", "access", "recycle", "syncwait"}
At == {"access", "recycle", "syncwait"}
Own == {"hold", "reading", "synclock", "relock"}

(* The types of the variables, except for the lists *)
UserTypes ==
    /\ lock \in Users \cup {None, RA}
    /\ pc \in [Users -> UserPC] /\ bd \in [Users -> Bds \cup {None}]
    /\ op \in [Users -> {None, "get", "read", "syncdev", "resize"}]
    /\ want \in [Users -> Keys \cup Devices \cup {None}]
    /\ cv \in [Users -> {None, "access", "transfer", "buffer"}]
    /\ ret \in [Users -> {None, "find", "access", "recycle", "syncwait"}]

BufferTypes ==
    /\ state \in [Bds -> States] /\ key \in [Bds -> Keys \cup {None}]
    /\ hold \in [Bds -> 0 .. Hold] /\ tree \subseteq Bds
    /\ users \in [Groups -> Int]
    /\ per \in [Groups -> Sizes \cup {MaxPer}] /\ dsize \in [Devices -> Sizes]
    /\ cur \in [Bds -> BOOLEAN] /\ dcur \in [Keys -> BOOLEAN]

TaskTypes ==
    /\ synclock \in Users \cup {None} /\ sync_device \in Devices \cup {None}
    /\ sync_active \in BOOLEAN /\ sdone \in BOOLEAN /\ upd \in BOOLEAN
    /\ wlist \in [Writers -> SUBSET Bds]
    /\ wpc \in [Workers -> {"free", "busy", "lost"}]
    /\ spc \in {"scan", "write", "syncdone", "idle"}
    /\ rachain \subseteq Devices /\ rapc \in {"idle", "loop", "reading"}
    /\ rabd \in Bds \cup {None} /\ raevent \in BOOLEAN

HistoryTypes ==
    /\ raced \in BOOLEAN /\ resized \in BOOLEAN
    /\ calls \in 0 .. MaxCalls /\ promised \subseteq Keys /\ lost \subseteq Keys

(* The mutex bdbuf_cache.lock is with who runs under it. *)
LockInv ==
    /\ \A u \in Users : pc[u] \in Locked <=> lock = u
    /\ rapc = "loop" <=> lock = RA

(* A user that has found a buffer has one of the tree, of the block it      *)
(* wants; what it goes back to when it is woken says whether it has one.    *)
UserInv ==
    \A u \in Users :
        /\ bd[u] # None => bd[u] \in tree /\ key[bd[u]] = want[u]
        /\ pc[u] \in {"idle", "find", "request", "event", "resize"} => bd[u] = None
        /\ pc[u] \in Own \cup At => bd[u] # None
        /\ pc[u] = "find" => want[u] \in Keys
        /\ pc[u] \in {"request", "event", "resize"} => want[u] \in Devices
        /\ Asleep(u) => /\ ret[u] \in Locked
                        /\ bd[u] = None <=> ret[u] = "find"
                        /\ want[u] \in Keys

(* The tree has the buffers that are not FREE, one for a block at most, and *)
(* descriptors of the present divisions only.                               *)
TreeInv ==
    /\ \A b \in Bds : b \in tree <=> state[b] # "FREE"
    /\ \A b \in tree : key[b] \in Keys
    /\ \A b, c \in tree : key[b] = key[c] => b = c
    /\ tree \subseteq Valid

(* The LRU list has the FREE and CACHED buffers, the modified list and the  *)
(* sync list those of their states, each once.                              *)
InState(S) == {b \in Bds : state[b] \in S}
ListInv ==
    /\ Lists(lru, Valid \cap InState({"FREE", "CACHED"}))
    /\ Lists(modified, InState({"MODIFIED"}))
    /\ Lists(syncq, InState({"SYNC"}))

(* The state of a buffer that is with a user says so, and it is with one    *)
(* user only.  This is what a purge in the middle of another user's         *)
(* directive destroys.                                                      *)
OwnInv ==
    /\ \A u \in Users :
        /\ pc[u] = "hold" => state[bd[u]] \in InAccess
        /\ pc[u] = "reading" => state[bd[u]] = "TRANSFER"
        /\ pc[u] \in {"synclock", "relock"} => state[bd[u]] \in Modifiable
    /\ \A u, v \in Users : pc[u] \in Own /\ pc[v] \in Own /\ bd[u] = bd[v] => u = v

(* A buffer is in one transfer at most, of the swap-out task, a worker, the *)
(* read-ahead task or a user.                                               *)
Moving == {"TRANSFER", "TRANSFER_PURGED"}
WriterInv ==
    /\ \A w \in Writers :
        /\ ~Writing(w) => wlist[w] = {}
        /\ \A b \in wlist[w] : state[b] \in Moving
        /\ \A b, c \in wlist[w] : Dev(b) = Dev(c)
        /\ \A x \in Writers : \A b \in wlist[w] \cap wlist[x] : w = x
        /\ \A u \in Users : pc[u] = "reading" => bd[u] \notin wlist[w]
    /\ rapc = "reading" =>
        /\ rabd \in Bds /\ state[rabd] \in Moving
        /\ \A w \in Writers : rabd \notin wlist[w]
        /\ \A u \in Users : pc[u] = "reading" => bd[u] # rabd

(* An EMPTY buffer has somebody who waits for it or looks at it, and will   *)
(* take it or free it.                                                      *)
EmptyInv ==
    \A b \in Bds : state[b] = "EMPTY" =>
        \E u \in Users : bd[u] = b /\ (Asleep(u) \/ pc[u] \in At)

(* The user count of a group: its buffers in use and the sleepers on its    *)
(* buffers                                                                  *)
Busy(st, g) == {b \in Bds : b[1] = g /\ st[b] \in UsesGroup}
Sleepers(p, d, g) ==
    {u \in Users : p[u] \in {"sleep", "woken"} /\ d[u] # None /\ d[u][1] = g}
CountInv ==
    \A g \in Groups :
        users[g] = Cardinality(Busy(state, g)) + Cardinality(Sleepers(pc, bd, g))

(* As long as no block size was changed with buffers in the cache, a buffer *)
(* of the wrong size is EMPTY and waited for by users that synchronize it.  *)
Syncing(u) == pc[u] = "syncwait" \/ (Asleep(u) /\ ret[u] = "syncwait")
Fits(b) == per[b[1]] = dsize[Dev(b)]
SizeInv ==
    ~resized =>
        /\ \A b \in tree : ~Fits(b) =>
            /\ state[b] = "EMPTY"
            /\ \E u \in Users : bd[u] = b /\ Syncing(u)
            /\ \A u \in Users : bd[u] = b => Syncing(u) \/ pc[u] = "recycle"
        /\ \A u \in Users :
            /\ pc[u] = "recycle" => ~Fits(bd[u])
            /\ Asleep(u) => ret[u] # "recycle"

(* The only fatal error is that of an EMPTY buffer in                       *)
(* rtems_bdbuf_wait_for_recycle.                                            *)
FaultInv == fault = "none" \/ (resized /\ fault = "STATE_10")

(* One rtems_bdbuf_syncdev at a time; a block it was promised is in a       *)
(* buffer of its device that waits for the swap-out task or is being        *)
(* written by it or a worker, or its contents were discarded (lost).  When  *)
(* the swap-out task is done, only what a worker still writes and what is   *)
(* lost are left.                                                           *)
Unwritten(b) == state[b] \in {"MODIFIED", "SYNC"} \/ \E w \in Writers : b \in wlist[w]
Left(k) == k \in lost \/ \E w \in Workers, b \in Search(k) : b \in wlist[w]
SyncInv ==
    /\ \A u \in Users : pc[u] \in {"request", "event"} <=> synclock = u
    /\ sync_active \/ sdone => \E u \in Users : pc[u] = "event"
    /\ sync_active => ~sdone /\ sync_device \in Devices
    /\ spc = "syncdone" => sync_active
    /\ promised # {} => sync_active \/ sdone
    /\ \A k \in promised :
        /\ k[1] = sync_device
        /\ k \in lost \/ \E b \in Search(k) : Unwritten(b)
        /\ spc = "syncdone" \/ sdone => Left(k)

(* A modified buffer, and one being written, has the latest contents of its *)
(* block; a clean one has them unless they are lost.  Contents that are not *)
(* lost are on the disk or in a buffer that is still to be written.         *)
Clean == {"CACHED", "ACCESS_CACHED"}
Dirty == {"MODIFIED", "SYNC", "ACCESS_MODIFIED"}
Saved(b) ==
    \/ state[b] \in Dirty
    \/ \E w \in Writers : b \in wlist[w]
    \/ \E u \in Users : bd[u] = b /\ pc[u] \in {"synclock", "relock"}
DataInv ==
    /\ \A b \in Bds : state[b] \in Clean => cur[b] \/ key[b] \in lost
    /\ \A b \in Bds : state[b] \in Dirty => cur[b]
    /\ \A w \in Writers : \A b \in wlist[w] : cur[b]
    /\ \A u \in Users : pc[u] \in {"synclock", "relock"} => cur[bd[u]]
    /\ \A k \in Keys : dcur[k] \/ k \in lost \/ \E b \in Search(k) : cur[b] /\ Saved(b)

(* What holds even after the step that is a race, and what holds before *)
Always ==
    /\ UserTypes /\ BufferTypes /\ TaskTypes /\ HistoryTypes
    /\ LockInv /\ UserInv /\ TreeInv /\ ListInv /\ WriterInv /\ EmptyInv
    /\ CountInv /\ SizeInv /\ FaultInv /\ SyncInv /\ DataInv
Core == Always /\ OwnInv

-----------------------------------------------------------------------------
(* Types of the constants *)

(* There are finitely many buffers, and none stands for "no buffer". *)
LEMMA BdsFacts ==
    /\ IsFiniteSet(Bds) /\ None \notin Bds
    /\ \A b \in Bds : b[1] \in Groups
<1>1. IsFiniteSet(0 .. MaxPer - 1)  BY CacheAssumption, FS_Interval
<1>2. IsFiniteSet(Bds)  BY <1>1, CacheAssumption, FS_Product DEF Bds
<1>3. \A b \in Bds : b[1] \in Groups  BY DEF Bds
<1>4. None \notin Bds  BY NoneAssumption
<1> QED  BY <1>2, <1>3, <1>4

(* A block is known by its device and its number: the key of                *)
(* rtems_bdbuf_avl_search.                                                  *)
LEMMA KeysFacts ==
    /\ None \notin Keys
    /\ \A k \in Keys : k[1] \in Devices /\ k[2] \in Int
    /\ \A k, l \in Keys : k[1] = l[1] /\ k[2] = l[2] => k = l
<1>1. None \notin Keys  BY NoneAssumption
<1>2. \A k \in Keys : k[1] \in Devices /\ k[2] \in Int  BY CacheAssumption DEF Keys
<1>3. \A k, l \in Keys : k[1] = l[1] /\ k[2] = l[2] => k = l  BY DEF Keys
<1> QED  BY <1>1, <1>2, <1>3

(* What is known of a user that has found its buffer *)
LEMMA BdFacts ==
    ASSUME UserTypes, BufferTypes, UserInv, TreeInv, NEW u \in Users, bd[u] # None
    PROVE  /\ bd[u] \in Bds /\ bd[u] \in tree /\ bd[u] \in Valid
           /\ key[bd[u]] = want[u] /\ want[u] \in Keys /\ want[u][1] \in Devices
           /\ state[bd[u]] \in States \ {"FREE"} /\ bd[u][1] \in Groups
<1>1. bd[u] \in Bds /\ bd[u] \in tree /\ key[bd[u]] = want[u]
  BY DEF UserTypes, UserInv
<1>2. want[u] \in Keys /\ bd[u] \in Valid /\ state[bd[u]] # "FREE"  BY <1>1 DEF TreeInv
<1> QED  BY <1>1, <1>2, KeysFacts, BdsFacts DEF BufferTypes

(* Only one user has the mutex, and no other step of a user that needs it. *)
LEMMA LockFacts ==
    ASSUME LockInv
    PROVE  /\ lock = None => rapc # "loop" /\ \A u \in Users : pc[u] \notin Locked
           /\ lock = RA => \A u \in Users : pc[u] \notin Locked
           /\ \A u \in Users : pc[u] \in Locked =>
                lock = u /\ rapc # "loop" /\ \A v \in Users \ {u} : pc[v] \notin Locked
  BY NoneAssumption DEF LockInv, RA

(* Who does not own a buffer: its state says so. *)
LEMMA NotOwned ==
    ASSUME OwnInv, NEW b, state[b] \notin InAccess \cup {"TRANSFER"}
    PROVE  \A u \in Users : bd[u] = b => pc[u] \notin Own
  BY DEF OwnInv, Own, Modifiable, InAccess

(* The control points after a step of user u that may wake others *)
To(u, C) ==
    /\ pc'[u] \in C
    /\ \A v \in Users \ {u} : pc'[v] = pc[v] \/ (pc[v] = "sleep" /\ pc'[v] = "woken")
Woken == \A v \in Users : pc'[v] = pc[v] \/ (pc[v] = "sleep" /\ pc'[v] = "woken")

(* rtems_bdbuf_wake after a step of user u: sleepers become woken, u is     *)
(* where its step put it.                                                   *)
LEMMA WakeTo ==
    ASSUME UserTypes, NEW u \in Users, NEW c \in UserPC, NEW cs,
           pc' = Wake([pc EXCEPT ![u] = c], cs)
    PROVE  /\ pc' \in [Users -> UserPC]
           /\ c # "sleep" => To(u, {c})
           /\ c = "sleep" => To(u, {"sleep", "woken"})
<1>1. \A v \in Users : pc[v] \in UserPC  BY DEF UserTypes
<1>2. \A v \in Users \ {u} : pc'[v] = IF pc[v] = "sleep" /\ cv[v] \in cs THEN "woken" ELSE pc[v]
  BY DEF Wake, UserTypes
<1>3. pc'[u] = IF c = "sleep" /\ cv[u] \in cs THEN "woken" ELSE c  BY DEF Wake, UserTypes
<1>4. pc' \in [Users -> UserPC]
  <2>1. pc' = [v \in Users |-> pc'[v]]  BY DEF Wake
  <2>2. \A v \in Users : pc'[v] \in UserPC  BY <1>1, <1>2, <1>3 DEF UserPC
  <2> QED  BY <2>1, <2>2
<1> QED  BY <1>2, <1>3, <1>4 DEF To

(* rtems_bdbuf_wake by a task of the cache: sleepers become woken, nothing  *)
(* else.                                                                    *)
LEMMA WakeWoken ==
    ASSUME UserTypes, NEW cs, pc' = Wake(pc, cs)
    PROVE  pc' \in [Users -> UserPC] /\ Woken
<1>1. \A v \in Users : pc[v] \in UserPC  BY DEF UserTypes
<1>2. \A v \in Users : pc'[v] = IF pc[v] = "sleep" /\ cv[v] \in cs THEN "woken" ELSE pc[v]
  BY DEF Wake, UserTypes
<1>3. pc' \in [Users -> UserPC]
  <2>1. pc' = [v \in Users |-> pc'[v]]  BY DEF Wake
  <2>2. \A v \in Users : pc'[v] \in UserPC  BY <1>1, <1>2 DEF UserPC
  <2> QED  BY <2>1, <2>2
<1> QED  BY <1>2, <1>3 DEF Woken

(* A step of user u without a wake moves u only. *)
LEMMA MoveTo ==
    ASSUME UserTypes, NEW u \in Users, NEW c \in UserPC, pc' = [pc EXCEPT ![u] = c]
    PROVE  pc' \in [Users -> UserPC] /\ To(u, {c}) /\ \A v \in Users \ {u} : pc'[v] = pc[v]
  BY DEF UserTypes, To

-----------------------------------------------------------------------------
(* What an invariant needs of a step *)

(* The tree is right as long as states, keys, tree and divisions stay. *)
LEMMA TreeFrame == TreeInv /\ UNCHANGED <<state, key, tree, per>> => TreeInv'
  BY DEF TreeInv, Valid

(* The lists are right as long as lists, states and divisions stay. *)
LEMMA ListFrame ==
    ListInv /\ UNCHANGED <<lru, modified, syncq, state, per>> => ListInv'
  BY DEF ListInv, Valid, InState

(* A step that does not start or end a transfer keeps WriterInv if the      *)
(* buffers in transfer stay there and a new reader reads none of them.      *)
LEMMA WriterFrame ==
    ASSUME WriterInv, UNCHANGED <<wlist, wpc, rapc, rabd>>,
           spc' = "write" <=> spc = "write",
           \A w \in Writers : \A b \in wlist[w] : state'[b] \in Moving /\ key'[b] = key[b],
           rapc = "reading" => state'[rabd] \in Moving,
           \A v \in Users : pc'[v] = "reading" =>
                \/ pc[v] = "reading" /\ bd'[v] = bd[v]
                \/ (\A w \in Writers : bd'[v] \notin wlist[w]) /\ (rapc = "reading" => bd'[v] # rabd)
    PROVE  WriterInv'
<1>1. \A w : Writing(w)' <=> Writing(w)  BY DEF Writing
<1>2. \A w \in Writers : \A b \in wlist[w] : Dev(b)' = Dev(b)  BY DEF Dev
<1>3. ASSUME NEW w \in Writers'
      PROVE  /\ ~Writing(w)' => wlist'[w] = {}
             /\ \A b \in wlist'[w] : state'[b] \in Moving
             /\ \A b, c \in wlist'[w] : Dev(b)' = Dev(c)'
             /\ \A x \in Writers' : \A b \in wlist'[w] \cap wlist'[x] : w = x
             /\ \A u \in Users : pc'[u] = "reading" => bd'[u] \notin wlist'[w]
  BY <1>1, <1>2 DEF WriterInv, Writers
<1>4. rapc' = "reading" =>
        /\ rabd' \in Bds /\ state'[rabd'] \in Moving
        /\ \A w \in Writers : rabd' \notin wlist'[w]
        /\ \A u \in Users : pc'[u] = "reading" => bd'[u] # rabd'
  BY DEF WriterInv
<1> QED  BY <1>3, <1>4 DEF WriterInv, Writers, Bds

(* An EMPTY buffer still has somebody who will take it or free it, if who   *)
(* had found it stays with it.                                              *)
LEMMA EmptyFrame ==
    ASSUME EmptyInv,
           \A b \in Bds : state'[b] = "EMPTY" => state[b] = "EMPTY",
           \A v \in Users : (bd[v] \in Bds /\ state'[bd[v]] = "EMPTY" /\ (Asleep(v) \/ pc[v] \in At))
                => bd'[v] = bd[v] /\ (pc'[v] \in {"sleep", "woken"} \cup At)
    PROVE  EmptyInv'
<1> SUFFICES ASSUME NEW b \in Bds, state'[b] = "EMPTY"
             PROVE  \E u \in Users : bd'[u] = b /\ pc'[u] \in {"sleep", "woken"} \cup At
  BY DEF EmptyInv, Bds, Asleep, At
<1>1. PICK u \in Users : bd[u] = b /\ (Asleep(u) \/ pc[u] \in At)  BY DEF EmptyInv
<1> QED  BY <1>1

(* What rtems_bdbuf_syncdev was promised is still to be written or lost, if *)
(* the request stays and no buffer to be written goes unless its block      *)
(* counts as lost.                                                          *)
LEMMA SyncFrame ==
    ASSUME SyncInv, UNCHANGED <<synclock, sync_active, sync_device, sdone>>,
           spc' = "syncdone" => spc = "syncdone", promised' \subseteq promised,
           lost \cap promised' \subseteq lost',
           \A v \in Users : /\ pc'[v] \in {"request", "event"} <=> pc[v] \in {"request", "event"}
                            /\ pc[v] = "event" => pc'[v] = "event",
           \A b \in tree : key[b] \in promised' \ lost' /\ Unwritten(b) =>
                b \in tree' /\ key'[b] = key[b] /\ Unwritten(b)',
           \A w \in Workers : \A b \in wlist[w] :
                key[b] \in promised' \ lost' => b \in wlist'[w]
    PROVE  SyncInv'
<1>1. \A u \in Users : pc'[u] \in {"request", "event"} <=> synclock' = u  BY DEF SyncInv
<1>2. sync_active' \/ sdone' => \E u \in Users : pc'[u] = "event"  BY DEF SyncInv
<1>3. /\ sync_active' => ~sdone' /\ sync_device' \in Devices
      /\ spc' = "syncdone" => sync_active'
      /\ promised' # {} => sync_active' \/ sdone'
  BY DEF SyncInv
<1>4. ASSUME NEW k \in promised'
      PROVE  /\ k[1] = sync_device'
             /\ k \in lost' \/ \E b \in Search(k)' : Unwritten(b)'
             /\ spc' = "syncdone" \/ sdone' => Left(k)'
  <2>1. k \in promised /\ k[1] = sync_device'  BY DEF SyncInv
  <2>2. CASE k \in lost'  BY <2>1, <2>2 DEF Left
  <2>3. CASE k \notin lost'
    <3>1. k \notin lost  BY <2>3
    <3>2. PICK b \in Search(k) : Unwritten(b)  BY <2>1, <3>1 DEF SyncInv
    <3>3. b \in tree' /\ key'[b] = k /\ Unwritten(b)'  BY <3>2, <2>3 DEF Search
    <3>4. ASSUME spc' = "syncdone" \/ sdone'  PROVE Left(k)'
      <4>1. Left(k)  BY <3>4, <2>1 DEF SyncInv
      <4>2. PICK w \in Workers, x \in Search(k) : x \in wlist[w]  BY <4>1, <3>1 DEF Left
      <4>3. Unwritten(x)  BY <4>2 DEF Unwritten, Writers
      <4>4. x \in tree' /\ key'[x] = k /\ x \in wlist'[w]  BY <4>2, <4>3, <2>3 DEF Search
      <4> QED  BY <4>4 DEF Left, Search
    <3> QED  BY <2>1, <3>3, <3>4 DEF Search
  <2> QED  BY <2>2, <2>3
<1> QED  BY <1>1, <1>2, <1>3, <1>4 DEF SyncInv

(* The latest contents stay on the disk or to be written over a step that   *)
(* copies nothing and keeps who is to write them.                           *)
LEMMA DataFrame ==
    ASSUME DataInv, UNCHANGED <<cur, dcur, lost, wlist>>,
           \A b \in Bds : state'[b] \in Clean => state[b] \in Clean /\ key'[b] = key[b],
           \A b \in Bds : state'[b] \in Dirty => state[b] \in Dirty,
           \A v \in Users : pc'[v] \in {"synclock", "relock"} =>
                pc[v] \in {"synclock", "relock"} /\ bd'[v] = bd[v],
           \A b \in tree : Saved(b) => b \in tree' /\ key'[b] = key[b] /\ Saved(b)'
    PROVE  DataInv'
<1>1. /\ \A b \in Bds : state'[b] \in Clean => cur'[b] \/ key'[b] \in lost'
      /\ \A b \in Bds : state'[b] \in Dirty => cur'[b]
  BY DEF DataInv
<1>2. \A w \in Writers : \A b \in wlist'[w] : cur'[b]  BY DEF DataInv
<1>3. \A u \in Users : pc'[u] \in {"synclock", "relock"} => cur'[bd'[u]]  BY DEF DataInv
<1>4. ASSUME NEW k \in Keys, ~dcur'[k], k \notin lost'
      PROVE  \E b \in Search(k)' : cur'[b] /\ Saved(b)'
  <2>1. PICK b \in Search(k) : cur[b] /\ Saved(b)  BY <1>4 DEF DataInv
  <2>2. b \in tree' /\ key'[b] = k /\ Saved(b)'  BY <2>1 DEF Search
  <2> QED  BY <2>1, <2>2 DEF Search
<1> QED  BY <1>1, <1>2, <1>3, <1>4 DEF DataInv, Bds, Keys, Writers

(* Counting: the buffers in use and the sleepers of a group are finitely    *)
(* many.                                                                    *)
LEMMA CountTypes ==
    ASSUME NEW st, NEW p, NEW d, NEW g
    PROVE  /\ IsFiniteSet(Busy(st, g)) /\ Cardinality(Busy(st, g)) \in Nat
           /\ IsFiniteSet(Sleepers(p, d, g)) /\ Cardinality(Sleepers(p, d, g)) \in Nat
<1>1. Busy(st, g) \in SUBSET Bds /\ Sleepers(p, d, g) \in SUBSET Users  BY DEF Busy, Sleepers
<1>2. IsFiniteSet(Busy(st, g)) /\ IsFiniteSet(Sleepers(p, d, g))
  BY <1>1, BdsFacts, CacheAssumption, FS_Subset
<1> QED  BY <1>2, FS_CardinalityType

(* The buffers in use of a group: none comes or goes, ... *)
LEMMA BusySame ==
    ASSUME NEW g, \A b \in Bds : state'[b] \in UsesGroup <=> state[b] \in UsesGroup
    PROVE  Busy(state', g) = Busy(state, g)
  BY DEF Busy

(* ... buffer b comes into use (rtems_bdbuf_group_obtain), ... *)
LEMMA BusyMore ==
    ASSUME NEW b \in Bds, NEW g,
           state[b] \notin UsesGroup, state'[b] \in UsesGroup,
           \A x \in Bds \ {b} : state'[x] \in UsesGroup <=> state[x] \in UsesGroup
    PROVE  Cardinality(Busy(state', g)) = Cardinality(Busy(state, g)) + (IF g = b[1] THEN 1 ELSE 0)
<1>1. CASE g = b[1]
  <2>1. Busy(state', g) = Busy(state, g) \cup {b} /\ b \notin Busy(state, g)  BY <1>1 DEF Busy
  <2> QED  BY <2>1, <1>1, CountTypes, FS_AddElement
<1>2. CASE g # b[1]
  <2>1. Busy(state', g) = Busy(state, g)  BY <1>2 DEF Busy
  <2> QED  BY <2>1, <1>2, CountTypes
<1> QED  BY <1>1, <1>2

(* ... the buffers in S go out of use (rtems_bdbuf_group_release). *)
LEMMA BusyLess ==
    ASSUME NEW S \in SUBSET Bds, NEW g,
           \A b \in S : state[b] \in UsesGroup /\ state'[b] \notin UsesGroup,
           \A x \in Bds \ S : state'[x] \in UsesGroup <=> state[x] \in UsesGroup
    PROVE  Cardinality(Busy(state', g)) = Cardinality(Busy(state, g)) - Cardinality({b \in S : b[1] = g})
<1> DEFINE T == {b \in S : b[1] = g}
<1>1. Busy(state', g) = Busy(state, g) \ T /\ Busy(state, g) \cap T = T  BY DEF Busy
<1> HIDE DEF T
<1>2. Cardinality(Busy(state, g) \ T) = Cardinality(Busy(state, g)) - Cardinality(Busy(state, g) \cap T)
  BY CountTypes, FS_Difference
<1> QED  BY <1>1, <1>2 DEF T

(* The sleepers of a group: none comes or goes, ... *)
LEMMA SleepersSame ==
    ASSUME NEW p, NEW d, NEW p2, NEW d2, NEW g,
           \A v \in Users : /\ p2[v] \in {"sleep", "woken"} <=> p[v] \in {"sleep", "woken"}
                            /\ p[v] \in {"sleep", "woken"} => d2[v] = d[v]
    PROVE  Sleepers(p2, d2, g) = Sleepers(p, d, g)
  BY DEF Sleepers

(* ... user u goes to sleep on its buffer (rtems_bdbuf_wait: obtain), ... *)
LEMMA SleepersMore ==
    ASSUME NEW u \in Users, NEW g,
           pc[u] \notin {"sleep", "woken"}, pc'[u] \in {"sleep", "woken"}, bd'[u] # None,
           \A v \in Users \ {u} : /\ pc'[v] \in {"sleep", "woken"} <=> pc[v] \in {"sleep", "woken"}
                                  /\ bd'[v] = bd[v]
    PROVE  Cardinality(Sleepers(pc', bd', g)) =
             Cardinality(Sleepers(pc, bd, g)) + (IF g = bd'[u][1] THEN 1 ELSE 0)
<1>1. CASE g = bd'[u][1]
  <2>1. Sleepers(pc', bd', g) = Sleepers(pc, bd, g) \cup {u} /\ u \notin Sleepers(pc, bd, g)
    BY <1>1 DEF Sleepers
  <2> QED  BY <2>1, <1>1, CountTypes, FS_AddElement
<1>2. CASE g # bd'[u][1]
  <2>1. Sleepers(pc', bd', g) = Sleepers(pc, bd, g)  BY <1>2 DEF Sleepers
  <2> QED  BY <2>1, <1>2, CountTypes
<1> QED  BY <1>1, <1>2

(* ... user u has the mutex again (rtems_bdbuf_wait: release). *)
LEMMA SleepersLess ==
    ASSUME NEW u \in Users, NEW g,
           pc[u] \in {"sleep", "woken"}, pc'[u] \notin {"sleep", "woken"}, bd[u] # None,
           \A v \in Users \ {u} : /\ pc'[v] \in {"sleep", "woken"} <=> pc[v] \in {"sleep", "woken"}
                                  /\ bd'[v] = bd[v]
    PROVE  Cardinality(Sleepers(pc', bd', g)) =
             Cardinality(Sleepers(pc, bd, g)) - (IF g = bd[u][1] THEN 1 ELSE 0)
<1>1. CASE g = bd[u][1]
  <2>1. Sleepers(pc', bd', g) = Sleepers(pc, bd, g) \ {u} /\ u \in Sleepers(pc, bd, g)
    BY <1>1 DEF Sleepers
  <2> QED  BY <2>1, <1>1, CountTypes, FS_RemoveElement
<1>2. CASE g # bd[u][1]
  <2>1. Sleepers(pc', bd', g) = Sleepers(pc, bd, g)  BY <1>2 DEF Sleepers
  <2> QED  BY <2>1, <1>2, CountTypes
<1> QED  BY <1>1, <1>2

(* The parts of the invariant, to cite together. *)
LEMMA CoreParts ==
    ASSUME Core
    PROVE  /\ UserTypes /\ BufferTypes /\ TaskTypes /\ HistoryTypes
           /\ LockInv /\ UserInv /\ TreeInv /\ ListInv /\ WriterInv /\ EmptyInv
           /\ CountInv /\ SizeInv /\ FaultInv /\ SyncInv /\ DataInv /\ OwnInv
  BY DEF Core, Always

-----------------------------------------------------------------------------
(* Steps that leave the buffers alone, of users that have none *)
Away == {"idle", "find", "request", "event", "resize"}

(* Steps of users that have no buffer, or only pass the sync lock with one, *)
(* keep what the invariant says of buffers.                                 *)
LEMMA AsideStep ==
    ASSUME Core, pc' \in [Users -> UserPC],
           UNCHANGED <<state, key, hold, tree, lru, modified, syncq, users, per, dsize>>,
           UNCHANGED <<bd, cv, ret, wlist, wpc, rabd, cur, dcur, lost, fault, resized>>,
           \A v \in Users : \/ pc'[v] = pc[v]
                            \/ (pc[v] \in Away /\ pc'[v] \in Away)
                            \/ (pc[v] = "synclock" /\ pc'[v] = "relock")
    PROVE  BufferTypes' /\ TreeInv' /\ ListInv' /\ EmptyInv' /\ CountInv' /\ SizeInv'
           /\ FaultInv' /\ DataInv' /\ OwnInv'
<1>inv. BufferTypes /\ UserInv /\ TreeInv /\ ListInv /\ EmptyInv /\ CountInv /\ SizeInv
        /\ FaultInv /\ DataInv /\ OwnInv
  BY CoreParts
<1>buf. BufferTypes'  BY <1>inv DEF BufferTypes
<1>tree. TreeInv'  BY <1>inv, TreeFrame
<1>list. ListInv'  BY <1>inv, ListFrame
<1>sleep. \A v \in Users : /\ pc'[v] \in {"sleep", "woken"} <=> pc[v] \in {"sleep", "woken"}
                           /\ pc'[v] \in At <=> pc[v] \in At
  BY DEF Away, At
<1>empty. EmptyInv'  BY <1>inv, <1>sleep, EmptyFrame DEF Asleep
<1>count. CountInv'
  <2>1. \A g : Sleepers(pc', bd', g) = Sleepers(pc, bd, g)  BY <1>sleep DEF Sleepers
  <2> QED  BY <1>inv, <2>1 DEF CountInv
<1>size. SizeInv'
  <2>1. \A v \in Users : /\ Syncing(v)' <=> Syncing(v)
                         /\ pc'[v] = "recycle" <=> pc[v] = "recycle"
                         /\ Asleep(v)' <=> Asleep(v)
    BY <1>sleep DEF Syncing, Asleep, Away
  <2>2. \A b : Fits(b)' <=> Fits(b)  BY DEF Fits, Dev
  <2> QED  BY <1>inv, <2>1, <2>2 DEF SizeInv
<1>fault. FaultInv'  BY <1>inv DEF FaultInv
<1>rel. \A v \in Users : pc'[v] \in {"synclock", "relock"} <=> pc[v] \in {"synclock", "relock"}
  BY DEF Away
<1>data. DataInv'  BY <1>inv, <1>rel, DataFrame DEF Saved
<1>own. OwnInv'
  <2>1. \A v \in Users : /\ pc'[v] = "hold" <=> pc[v] = "hold"
                         /\ pc'[v] = "reading" <=> pc[v] = "reading"
                         /\ pc'[v] \in Own <=> pc[v] \in Own
    BY DEF Away, Own
  <2> QED  BY <1>inv, <1>rel, <2>1 DEF OwnInv
<1> QED  BY <1>buf, <1>tree, <1>list, <1>empty, <1>count, <1>size, <1>fault, <1>data, <1>own

(* Entering rtems_bdbuf_get or rtems_bdbuf_read keeps the invariant. *)
LEMMA CallStep ==
    ASSUME Core, NEW u \in Users, Call(u)
    PROVE  Always' /\ OwnInv'
<1> USE CoreParts DEF bufvars, listvars, grpvars, waitvars, syncvars, swapvars, ravars, datavars, racevars
<1>to. pc' \in [Users -> UserPC] /\ pc[u] = "idle" /\ pc'[u] = "find" /\ \A v \in Users \ {u} : pc'[v] = pc[v]
  BY DEF Call, UserTypes, UserPC
<1>want. want'[u] \in Keys /\ \A v \in Users \ {u} : want'[v] = want[v]
  BY DEF Call, UserTypes
<1>aside. BufferTypes' /\ TreeInv' /\ ListInv' /\ EmptyInv' /\ CountInv' /\ SizeInv'
           /\ FaultInv' /\ DataInv' /\ OwnInv'
  BY <1>to, AsideStep DEF Call, Away
<1>types. UserTypes' /\ TaskTypes' /\ HistoryTypes'
  BY <1>to, CacheAssumption DEF Call, UserTypes, TaskTypes, HistoryTypes
<1>lock. LockInv'  BY <1>to, NoneAssumption DEF Call, LockInv, Locked, RA
<1>user. UserInv'  BY <1>to, <1>want DEF Call, UserInv, Own, At, Asleep
<1>writer. WriterInv'  BY <1>to, WriterFrame DEF Call, WriterInv
<1>sync. SyncInv'  BY <1>to, SyncFrame DEF Call, Unwritten
<1> QED
  BY <1>aside, <1>types, <1>lock, <1>user, <1>writer, <1>sync DEF Always

(* rtems_bdbuf_syncdev getting the sync lock keeps the invariant: nobody    *)
(* else had it.                                                             *)
LEMMA SyncdevLockStep ==
    ASSUME Core, NEW u \in Users, SyncdevLock(u)
    PROVE  Always' /\ OwnInv'
<1> USE CoreParts DEF bufvars, listvars, grpvars, waitvars, swapvars, ravars, datavars, racevars
<1>to. pc' \in [Users -> UserPC] /\ pc[u] = "idle" /\ pc'[u] = "request" /\ \A v \in Users \ {u} : pc'[v] = pc[v]
  BY DEF SyncdevLock, UserTypes, UserPC
<1>want. want'[u] \in Devices /\ \A v \in Users \ {u} : want'[v] = want[v]
  BY DEF SyncdevLock, UserTypes
<1>aside. BufferTypes' /\ TreeInv' /\ ListInv' /\ EmptyInv' /\ CountInv' /\ SizeInv'
          /\ FaultInv' /\ DataInv' /\ OwnInv'
  BY <1>to, AsideStep DEF SyncdevLock, Away
<1>types. UserTypes' /\ TaskTypes' /\ HistoryTypes'
  BY <1>to, CacheAssumption DEF SyncdevLock, UserTypes, TaskTypes, HistoryTypes
<1>lock. LockInv'  BY <1>to DEF SyncdevLock, LockInv, Locked
<1>user. UserInv'  BY <1>to, <1>want DEF SyncdevLock, UserInv, Own, At, Asleep
<1>writer. WriterInv'  BY <1>to, WriterFrame DEF SyncdevLock, WriterInv
<1>sync. SyncInv'
  <2>1. \A v \in Users : pc[v] \notin {"request", "event"}
    BY NoneAssumption DEF SyncdevLock, SyncInv
  <2>2. ~sync_active /\ ~sdone /\ promised = {} /\ spc # "syncdone"  BY <2>1 DEF SyncInv
  <2>3. \A v \in Users : pc'[v] \in {"request", "event"} <=> synclock' = v
    BY <2>1, <1>to DEF SyncdevLock
  <2> QED  BY <2>2, <2>3 DEF SyncdevLock, SyncInv
<1> QED
  BY <1>aside, <1>types, <1>lock, <1>user, <1>writer, <1>sync DEF Always

(* rtems_bdbuf_syncdev filing its request keeps the invariant: each block   *)
(* promised is in a buffer that the scan will find.                         *)
LEMMA SyncdevRequestStep ==
    ASSUME Core, NEW u \in Users, SyncdevRequest(u)
    PROVE  Always' /\ OwnInv'
<1> USE CoreParts DEF bufvars, listvars, grpvars, waitvars, swapvars, ravars, datavars, racevars
<1>to. pc' \in [Users -> UserPC] /\ pc[u] = "request" /\ pc'[u] = "event" /\ \A v \in Users \ {u} : pc'[v] = pc[v]
  BY DEF SyncdevRequest, UserTypes, UserPC
<1>want. want[u] \in Devices  BY <1>to DEF UserInv
<1>aside. BufferTypes' /\ TreeInv' /\ ListInv' /\ EmptyInv' /\ CountInv' /\ SizeInv'
          /\ FaultInv' /\ DataInv' /\ OwnInv'
  BY <1>to, AsideStep DEF SyncdevRequest, Away
<1>promise. /\ promised' \subseteq Keys
            /\ \A k \in promised' : k[1] = want[u] /\ \E b \in Search(k) : Unwritten(b)
  <2>1. promised' = SyncPromise(want[u])  BY DEF SyncdevRequest
  <2> SUFFICES ASSUME NEW k \in promised'
               PROVE  k \in Keys /\ k[1] = want[u] /\ \E b \in Search(k) : Unwritten(b)
    OBVIOUS
  <2>2. PICK b \in tree : /\ key[b] = k /\ Dev(b) = want[u]
                          /\ state[b] \in {"MODIFIED", "SYNC"} \/ \E w \in Writers : b \in wlist[w]
    BY <2>1 DEF SyncPromise
  <2> QED  BY <2>2 DEF Search, Unwritten, Dev, TreeInv
<1>types. UserTypes' /\ TaskTypes' /\ HistoryTypes'
  BY <1>to, <1>want, <1>promise DEF SyncdevRequest, UserTypes, TaskTypes, HistoryTypes
<1>lock. LockInv'  BY <1>to DEF SyncdevRequest, LockInv, Locked
<1>user. UserInv'  BY <1>to DEF SyncdevRequest, UserInv, Own, At, Asleep
<1>writer. WriterInv'  BY <1>to, WriterFrame DEF SyncdevRequest, WriterInv
<1>sync. SyncInv'
  <2>1. \A v \in Users : pc[v] # "event"  BY <1>to DEF SyncInv
  <2>2. ~sync_active /\ ~sdone /\ spc # "syncdone"  BY <2>1 DEF SyncInv
  <2>3. \A v \in Users : pc'[v] \in {"request", "event"} <=> synclock' = v
    BY <1>to DEF SyncdevRequest, SyncInv
  <2>4. \A k \in promised' : k[1] = sync_device' /\ \E b \in Search(k)' : Unwritten(b)'
    BY <1>promise DEF SyncdevRequest, Search, Unwritten
  <2> QED  BY <2>2, <2>3, <2>4, <1>want, <1>to DEF SyncdevRequest, SyncInv
<1> QED
  BY <1>aside, <1>types, <1>lock, <1>user, <1>writer, <1>sync DEF Always

(* rtems_bdbuf_syncdev returning keeps the invariant: the promise ends with *)
(* the request.                                                             *)
LEMMA SyncdevReturnStep ==
    ASSUME Core, NEW u \in Users, SyncdevReturn(u)
    PROVE  Always' /\ OwnInv'
<1> USE CoreParts DEF bufvars, listvars, grpvars, waitvars, swapvars, ravars, datavars, racevars
<1>to. pc' \in [Users -> UserPC] /\ pc[u] = "event" /\ pc'[u] \in {"idle", "resize"}
       /\ \A v \in Users \ {u} : pc'[v] = pc[v]
  BY DEF SyncdevReturn, UserTypes, UserPC
<1>want. /\ want' \in [Users -> Keys \cup Devices \cup {None}]
         /\ op' \in [Users -> {None, "get", "read", "syncdev", "resize"}]
         /\ \A v \in Users \ {u} : want'[v] = want[v]
         /\ pc'[u] = "resize" => want'[u] \in Devices
  <2>1. want[u] \in Devices  BY <1>to DEF UserInv
  <2>2. CASE op[u] = "resize"  BY <2>1, <2>2 DEF SyncdevReturn, UserTypes
  <2>3. CASE op[u] # "resize"  BY <2>3 DEF SyncdevReturn, UserTypes
  <2> QED  BY <2>2, <2>3
<1>aside. BufferTypes' /\ TreeInv' /\ ListInv' /\ EmptyInv' /\ CountInv' /\ SizeInv'
          /\ FaultInv' /\ DataInv' /\ OwnInv'
  BY <1>to, AsideStep DEF SyncdevReturn, Away
<1>types. UserTypes' /\ TaskTypes' /\ HistoryTypes'
  <2>1. UserTypes'  BY <1>to, <1>want DEF SyncdevReturn, UserTypes
  <2>2. TaskTypes'  BY DEF SyncdevReturn, TaskTypes
  <2>3. HistoryTypes'  BY DEF SyncdevReturn, HistoryTypes
  <2> QED  BY <2>1, <2>2, <2>3
<1>lock. LockInv'  BY <1>to DEF SyncdevReturn, LockInv, Locked
<1>user. UserInv'  BY <1>to, <1>want DEF SyncdevReturn, UserInv, Own, At, Asleep
<1>writer. WriterInv'  BY <1>to, WriterFrame DEF SyncdevReturn, WriterInv
<1>sync. SyncInv'
  <2>1. synclock = u /\ ~sync_active /\ spc # "syncdone"  BY <1>to DEF SyncdevReturn, SyncInv
  <2>2. \A v \in Users : pc'[v] \in {"request", "event"} <=> synclock' = v
    BY <2>1, <1>to, NoneAssumption DEF SyncdevReturn, SyncInv
  <2> QED  BY <2>1, <2>2 DEF SyncdevReturn, SyncInv
<1> QED
  BY <1>aside, <1>types, <1>lock, <1>user, <1>writer, <1>sync DEF Always

(* A release of a modified buffer getting and leaving the sync lock keeps   *)
(* the invariant: the buffer stays with the user.                           *)
LEMMA SyncLockedStep ==
    ASSUME Core, NEW u \in Users, SyncLocked(u)
    PROVE  Always' /\ OwnInv'
<1> USE CoreParts DEF bufvars, listvars, grpvars, waitvars, syncvars, swapvars, ravars, datavars, racevars
<1>to. pc' \in [Users -> UserPC] /\ pc[u] = "synclock" /\ pc'[u] = "relock" /\ \A v \in Users \ {u} : pc'[v] = pc[v]
  BY DEF SyncLocked, UserTypes, UserPC
<1>aside. BufferTypes' /\ TreeInv' /\ ListInv' /\ EmptyInv' /\ CountInv' /\ SizeInv'
          /\ FaultInv' /\ DataInv' /\ OwnInv'
  BY <1>to, AsideStep DEF SyncLocked, Away
<1>types. UserTypes' /\ TaskTypes' /\ HistoryTypes'
  BY <1>to DEF SyncLocked, UserTypes, TaskTypes, HistoryTypes
<1>lock. LockInv'  BY <1>to DEF SyncLocked, LockInv, Locked
<1>user. UserInv'  BY <1>to DEF SyncLocked, UserInv, Own, At, Asleep
<1>writer. WriterInv'  BY <1>to, WriterFrame DEF SyncLocked, WriterInv
<1>sync. SyncInv'  BY <1>to, SyncFrame DEF SyncLocked, Unwritten
<1> QED
  BY <1>aside, <1>types, <1>lock, <1>user, <1>writer, <1>sync DEF Always

(* The swap-out task sending the transfer-done event keeps the invariant. *)
LEMMA SyncEndStep ==
    ASSUME Core, SyncEnd
    PROVE  Always' /\ OwnInv'
<1> USE CoreParts DEF bufvars, listvars, grpvars, waitvars, syncvars, swapvars, ravars, datavars, racevars
<1>aside. BufferTypes' /\ TreeInv' /\ ListInv' /\ EmptyInv' /\ CountInv' /\ SizeInv'
          /\ FaultInv' /\ DataInv' /\ OwnInv'
  BY AsideStep DEF SyncEnd, UserTypes
<1>types. UserTypes' /\ TaskTypes' /\ HistoryTypes'
  BY DEF SyncEnd, UserTypes, TaskTypes, HistoryTypes
<1>lock. LockInv'  BY DEF SyncEnd, LockInv
<1>user. UserInv'  BY DEF SyncEnd, UserInv, Asleep
<1>writer. WriterInv'  BY WriterFrame DEF SyncEnd, WriterInv
<1>sync. SyncInv'
  <2>1. sync_active /\ \A k \in promised : Left(k)  BY DEF SyncEnd, SyncInv
  <2>2. \A k \in promised : /\ Left(k)' /\ k[1] = sync_device
                            /\ k \in lost \/ \E b \in Search(k)' : Unwritten(b)'
    BY <2>1 DEF SyncEnd, SyncInv, Left, Search, Unwritten
  <2> QED  BY <2>1, <2>2 DEF SyncEnd, SyncInv
<1> QED
  BY <1>aside, <1>types, <1>lock, <1>user, <1>writer, <1>sync DEF Always

(* The swap-out task waking up for its next scan keeps the invariant. *)
LEMMA SwapoutWakeStep ==
    ASSUME Core, SwapoutWake
    PROVE  Always' /\ OwnInv'
<1> USE CoreParts DEF bufvars, listvars, grpvars, waitvars, syncvars, swapvars, ravars, datavars, racevars
<1>aside. BufferTypes' /\ TreeInv' /\ ListInv' /\ EmptyInv' /\ CountInv' /\ SizeInv'
          /\ FaultInv' /\ DataInv' /\ OwnInv'
  BY AsideStep DEF SwapoutWake, UserTypes
<1>types. UserTypes' /\ TaskTypes' /\ HistoryTypes'
  BY DEF SwapoutWake, UserTypes, TaskTypes, HistoryTypes
<1>lock. LockInv'  BY DEF SwapoutWake, LockInv
<1>user. UserInv'  BY DEF SwapoutWake, UserInv, Asleep
<1>writer. WriterInv'  BY WriterFrame DEF SwapoutWake, WriterInv
<1>sync. SyncInv'  BY SyncFrame DEF SwapoutWake, Unwritten
<1> QED
  BY <1>aside, <1>types, <1>lock, <1>user, <1>writer, <1>sync DEF Always

(* rtems_bdbuf_peek keeps the invariant: it touches the read-ahead chain    *)
(* only.                                                                    *)
LEMMA PeekStep ==
    ASSUME Core, NEW u \in Users, Peek(u)
    PROVE  Always' /\ OwnInv'
<1> USE CoreParts DEF bufvars, listvars, grpvars, waitvars, syncvars, swapvars, ravars, datavars, racevars
<1>aside. BufferTypes' /\ TreeInv' /\ ListInv' /\ EmptyInv' /\ CountInv' /\ SizeInv'
          /\ FaultInv' /\ DataInv' /\ OwnInv'
  BY AsideStep DEF Peek, UserTypes
<1>types. UserTypes' /\ TaskTypes' /\ HistoryTypes'
  BY CacheAssumption DEF Peek, UserTypes, TaskTypes, HistoryTypes
<1>lock. LockInv'  BY DEF Peek, LockInv
<1>user. UserInv'  BY DEF Peek, UserInv, Asleep
<1>writer. WriterInv'  BY WriterFrame DEF Peek, WriterInv
<1>sync. SyncInv'  BY SyncFrame DEF Peek, Unwritten
<1> QED
  BY <1>aside, <1>types, <1>lock, <1>user, <1>writer, <1>sync DEF Always

(* The read-ahead task waking up and taking the mutex keeps the invariant. *)
LEMMA RaWakeStep ==
    ASSUME Core, RaWake
    PROVE  Always' /\ OwnInv'
<1> USE CoreParts DEF bufvars, listvars, grpvars, waitvars, syncvars, swapvars, ravars, datavars, racevars
<1>aside. BufferTypes' /\ TreeInv' /\ ListInv' /\ EmptyInv' /\ CountInv' /\ SizeInv'
          /\ FaultInv' /\ DataInv' /\ OwnInv'
  BY AsideStep DEF RaWake, UserTypes
<1>types. UserTypes' /\ TaskTypes' /\ HistoryTypes'
  BY DEF RaWake, UserTypes, TaskTypes, HistoryTypes
<1>lock. LockInv'  BY NoneAssumption DEF RaWake, LockInv
<1>user. UserInv'  BY DEF RaWake, UserInv, Asleep
<1>writer. WriterInv'
  <2>1. rapc' # "reading"  BY DEF RaWake
  <2> QED  BY <2>1 DEF RaWake, WriterInv, Writing, Dev
<1>sync. SyncInv'  BY SyncFrame DEF RaWake, Unwritten
<1> QED
  BY <1>aside, <1>types, <1>lock, <1>user, <1>writer, <1>sync DEF Always

(* The read-ahead task finding the block cached, or no buffer, keeps the    *)
(* invariant.                                                               *)
LEMMA RaSkipStep ==
    ASSUME Core, RaSkip
    PROVE  Always' /\ OwnInv'
<1> USE CoreParts DEF bufvars, listvars, grpvars, waitvars, syncvars, swapvars, ravars, datavars, racevars
<1>ra. /\ rapc = "loop" /\ lock = RA /\ rachain' \subseteq rachain
       /\ \/ rapc' = "idle" /\ lock' = None
          \/ rapc' = rapc /\ lock' = lock
  BY DEF RaSkip
<1>aside. BufferTypes' /\ TreeInv' /\ ListInv' /\ EmptyInv' /\ CountInv' /\ SizeInv'
          /\ FaultInv' /\ DataInv' /\ OwnInv'
  BY AsideStep DEF RaSkip, UserTypes
<1>types. UserTypes' /\ TaskTypes' /\ HistoryTypes'
  BY <1>ra DEF RaSkip, UserTypes, TaskTypes, HistoryTypes
<1>lock. LockInv'  BY <1>ra, NoneAssumption DEF RaSkip, LockInv
<1>user. UserInv'  BY DEF RaSkip, UserInv, Asleep
<1>writer. WriterInv'
  <2>1. rapc' # "reading"  BY <1>ra
  <2> QED  BY <2>1 DEF RaSkip, WriterInv, Writing, Dev
<1>sync. SyncInv'  BY SyncFrame DEF RaSkip, Unwritten
<1> QED
  BY <1>aside, <1>types, <1>lock, <1>user, <1>writer, <1>sync DEF Always

-----------------------------------------------------------------------------
(* Waiting, and having found the block in the cache *)

(* rtems_bdbuf_wait and rtems_bdbuf_anonymous_wait: a user that sleeps on a *)
(* buffer keeps it from being reused, one that sleeps for any buffer leaves *)
(* nothing behind that only it would have freed.                            *)
LEMMA SleepStep ==
    ASSUME Core, NEW u \in Users, NEW c \in {"access", "transfer", "buffer"}, NEW b, NEW r,
           Sleep(u, c, b, r), pc[u] \in Locked,
           UNCHANGED <<state, key, hold, tree, lru, modified, syncq, per, dsize, op, want>>,
           UNCHANGED <<synclock, sync_active, sync_device, sdone, wlist, wpc, spc, upd>>,
           UNCHANGED <<rachain, raevent, rapc, rabd, cur, dcur, lost, calls, fault, raced, resized, promised>>,
           \/ /\ b = None /\ r = "find"
              /\ bd[u] # None => \E v \in Users \ {u} : Asleep(v) /\ bd[v] = bd[u]
              /\ pc[u] # "syncwait"
           \/ /\ b = bd[u] /\ b # None /\ r = pc[u]
              /\ ~resized => pc[u] # "recycle"
    PROVE  Always' /\ OwnInv'
<1> USE CoreParts
<1>b. b \in Bds \cup {None} /\ r \in Locked  BY DEF UserTypes, Locked
<1>to. /\ pc' \in [Users -> UserPC] /\ pc'[u] = "sleep" /\ lock' = None /\ lock = u
       /\ \A v \in Users \ {u} : pc'[v] = pc[v] /\ bd'[v] = bd[v] /\ ret'[v] = ret[v]
       /\ bd'[u] = b /\ ret'[u] = r
  BY <1>b, LockFacts DEF Sleep, UserTypes, UserPC
<1>nb. bd[u] # None /\ b # None => b \in tree /\ key[b] = want[u]  BY DEF UserInv
<1>ut. UserTypes'  BY <1>to, <1>b DEF Sleep, UserTypes, Locked
<1>g. b # None => b \in Bds /\ b[1] \in Groups  BY <1>b, BdsFacts
<1>users. /\ users' \in [Groups -> Int]
          /\ b = None => users' = users
          /\ b # None => \A g \in Groups : users'[g] = users[g] + (IF g = b[1] THEN 1 ELSE 0)
  BY <1>g DEF Sleep, BufferTypes
<1>bt. BufferTypes'  BY <1>users DEF BufferTypes
<1>tt. TaskTypes' /\ HistoryTypes'  BY DEF TaskTypes, HistoryTypes
<1>lock. LockInv'  BY <1>to, NoneAssumption DEF LockInv, Locked, RA
<1>want. want[u] \in Keys
  <2>1. CASE pc[u] = "find"  BY <2>1 DEF UserInv
  <2>2. CASE pc[u] \in At
    <3>1. bd[u] # None  BY <2>2 DEF UserInv
    <3> QED  BY <3>1, BdFacts
  <2> QED  BY <2>1, <2>2 DEF Locked, At
<1>user. UserInv'
  BY <1>to, <1>b, <1>nb, <1>want DEF UserInv, Asleep, Own, At, Locked
<1>tree. TreeInv'  BY TreeFrame
<1>list. ListInv'  BY ListFrame
<1>writer. WriterInv'  BY <1>to, WriterFrame DEF WriterInv
<1>empty. EmptyInv'
  <2>1. SUFFICES ASSUME NEW x \in Bds, state[x] = "EMPTY"
                 PROVE  \E v \in Users : bd'[v] = x /\ pc'[v] \in {"sleep", "woken"} \cup At
    BY DEF EmptyInv, Bds, Asleep, At
  <2>2. PICK v \in Users : bd[v] = x /\ (Asleep(v) \/ pc[v] \in At)  BY <2>1 DEF EmptyInv
  <2>3. CASE v # u  BY <2>2, <2>3, <1>to DEF Asleep
  <2>4. CASE v = u /\ b # None  BY <2>2, <2>4, <1>to
  <2>5. CASE v = u /\ b = None
    <3>1. bd[u] # None  BY <2>2, <2>5, BdsFacts
    <3>2. PICK y \in Users \ {u} : Asleep(y) /\ bd[y] = bd[u]  BY <3>1, <2>5
    <3> QED  BY <3>2, <2>2, <2>5, <1>to DEF Asleep
  <2> QED  BY <2>3, <2>4, <2>5
<1>awake. pc[u] \notin {"sleep", "woken"}  BY DEF Locked
<1>count. CountInv'
  <2>1. CASE b = None
    <3>1. \A g : Sleepers(pc', bd', g) = Sleepers(pc, bd, g)
      BY <2>1, <1>to, <1>awake DEF Sleepers
    <3> QED  BY <3>1, <2>1, <1>users DEF CountInv
  <2>2. CASE b # None
    <3>1. \A g : Cardinality(Sleepers(pc', bd', g)) =
                    Cardinality(Sleepers(pc, bd, g)) + (IF g = b[1] THEN 1 ELSE 0)
      BY <2>2, <1>to, <1>awake, SleepersMore
    <3> QED  BY <3>1, <2>2, <1>users, CountTypes DEF CountInv, BufferTypes
  <2> QED  BY <2>1, <2>2
<1>size. SizeInv'
  <2> SUFFICES ASSUME ~resized  PROVE SizeInv'
    BY DEF SizeInv
  <2>1. \A x : Fits(x)' <=> Fits(x)  BY DEF Fits, Dev
  <2>2. \A v \in Users \ {u} : /\ Syncing(v)' <=> Syncing(v)
                               /\ Asleep(v)' <=> Asleep(v)
    BY <1>to DEF Syncing, Asleep
  <2>3. ASSUME NEW x \in tree, ~Fits(x)
        PROVE  /\ \E v \in Users : bd'[v] = x /\ Syncing(v)'
               /\ \A v \in Users : bd'[v] = x => Syncing(v)' \/ pc'[v] = "recycle"
    <3>1. x \in Bds /\ x # None  BY <2>3, BdsFacts DEF BufferTypes
    <3>2. PICK v \in Users : bd[v] = x /\ Syncing(v)  BY <2>3 DEF SizeInv
    <3>3. \A y \in Users : bd[y] = x => Syncing(y) \/ pc[y] = "recycle"  BY <2>3 DEF SizeInv
    <3>4. bd'[u] = x => Syncing(u)'
      BY <3>1, <3>3, <1>to DEF Syncing, Asleep, Locked
    <3>5. v = u => bd'[u] = x
      BY <3>2, <1>to, <1>awake DEF Syncing, Asleep
    <3> QED  BY <3>2, <3>3, <3>4, <3>5, <2>2, <1>to
  <2>4. \A v \in Users : /\ pc'[v] = "recycle" => ~Fits(bd'[v])
                         /\ Asleep(v)' => ret'[v] # "recycle"
    BY <1>to, <2>2 DEF SizeInv, Asleep
  <2> QED  BY <2>1, <2>3, <2>4 DEF SizeInv
<1>fault. FaultInv'  BY DEF FaultInv
<1>sync. SyncInv'  BY <1>to, SyncFrame DEF Unwritten, Locked
<1>data. DataInv'
  <2>1. \A v \in Users : pc[v] \in {"synclock", "relock"} => v # u  BY DEF Locked
  <2> QED  BY <2>1, <1>to, DataFrame DEF Saved
<1>own. OwnInv'  BY <1>to DEF OwnInv, Own
<1> QED
  BY <1>ut, <1>bt, <1>tt, <1>lock, <1>user, <1>tree, <1>list, <1>writer, <1>empty, <1>count,
     <1>size, <1>fault, <1>sync, <1>data, <1>own DEF Always

(* rtems_bdbuf_wait_for_buffer keeps the invariant. *)
LEMMA FindWaitStep ==
    ASSUME Core, NEW u \in Users, FindWait(u)
    PROVE  Always' /\ OwnInv'
<1>1. pc[u] = "find" /\ bd[u] = None  BY CoreParts DEF FindWait, UserInv
<1> QED
  BY <1>1, SleepStep DEF FindWait, Locked, bufvars, listvars, syncvars, swapvars, ravars,
     datavars, racevars

(* Waiting in rtems_bdbuf_wait_for_access keeps the invariant. *)
LEMMA AccessWaitStep ==
    ASSUME Core, NEW u \in Users, AccessWait(u)
    PROVE  Always' /\ OwnInv'
<1>1. pc[u] = "access" /\ bd[u] # None  BY CoreParts DEF AccessWait, UserInv, At
<1>2. Awaits(bd[u]) \in {"access", "transfer"}  BY DEF Awaits
<1> QED
  BY <1>1, <1>2, SleepStep DEF AccessWait, Locked, bufvars, listvars, syncvars, swapvars,
     ravars, datavars, racevars

(* Waiting in rtems_bdbuf_wait_for_sync_done keeps the invariant. *)
LEMMA SyncWaitStep ==
    ASSUME Core, NEW u \in Users, SyncWait(u)
    PROVE  Always' /\ OwnInv'
<1>1. pc[u] = "syncwait" /\ bd[u] # None  BY CoreParts DEF SyncWait, UserInv, At
<1> QED
  BY <1>1, SleepStep DEF SyncWait, Locked, bufvars, listvars, syncvars, swapvars, ravars,
     datavars, racevars

(* Waiting in rtems_bdbuf_wait_for_recycle keeps the invariant. *)
LEMMA RecycleWaitStep ==
    ASSUME Core, NEW u \in Users, RecycleWait(u)
    PROVE  Always' /\ OwnInv'
<1> USE CoreParts
<1>1. pc[u] = "recycle" /\ bd[u] # None  BY DEF RecycleWait, UserInv, At
<1>2. Awaits(bd[u]) \in {"access", "transfer"}  BY DEF Awaits
<1>3. ~resized => state[bd[u]] = "EMPTY"
  <2>1. bd[u] \in tree  BY <1>1, BdFacts
  <2> QED  BY <1>1, <2>1 DEF SizeInv
<1>4. CASE /\ state[bd[u]] \in InAccess \cup InTransfer
           /\ Sleep(u, Awaits(bd[u]), bd[u], "recycle")
  <2>1. resized  BY <1>3, <1>4 DEF InAccess, InTransfer
  <2> QED
    BY <1>1, <1>2, <1>4, <2>1, SleepStep DEF RecycleWait, Locked, bufvars, listvars, syncvars,
       swapvars, ravars, datavars, racevars
<1>5. CASE /\ state[bd[u]] \in {"CACHED", "EMPTY"} /\ Waited(bd[u])
           /\ Sleep(u, "buffer", None, "find")
  <2>1. \E v \in Users \ {u} : Asleep(v) /\ bd[v] = bd[u]
    BY <1>1, <1>5 DEF Waited, Asleep
  <2> QED
    BY <1>1, <1>5, <2>1, SleepStep DEF RecycleWait, Locked, bufvars, listvars, syncvars,
       swapvars, ravars, datavars, racevars
<1> QED  BY <1>4, <1>5 DEF RecycleWait

(* A woken user that has the mutex again keeps the invariant: it goes on    *)
(* where it slept, with the same buffer.                                    *)
LEMMA ResumeStep ==
    ASSUME Core, NEW u \in Users, Resume(u)
    PROVE  Always' /\ OwnInv'
<1> USE CoreParts DEF bufvars, listvars, syncvars, swapvars, ravars, datavars, racevars
<1>ret. /\ pc[u] = "woken" /\ ret[u] \in Locked /\ (bd[u] = None <=> ret[u] = "find")
        /\ want[u] \in Keys /\ lock = None
  BY DEF Resume, UserInv, Asleep
<1>to. /\ pc' \in [Users -> UserPC] /\ pc'[u] = ret[u] /\ lock' = u
       /\ \A v \in Users \ {u} : pc'[v] = pc[v] /\ ret'[v] = ret[v]
       /\ bd' = bd /\ want' = want
  BY <1>ret DEF Resume, UserTypes, UserPC, Locked
<1>others. \A v \in Users : pc[v] \notin Locked  BY <1>ret, LockFacts
<1>ut. UserTypes'  BY <1>to DEF Resume, UserTypes
<1>g. bd[u] # None => bd[u] \in Bds /\ bd[u][1] \in Groups  BY BdFacts
<1>users. /\ users' \in [Groups -> Int]
          /\ bd[u] = None => users' = users
          /\ bd[u] # None => \A g \in Groups : users'[g] = users[g] - (IF g = bd[u][1] THEN 1 ELSE 0)
  BY <1>g DEF Resume, BufferTypes
<1>bt. BufferTypes'  BY <1>users DEF Resume, BufferTypes
<1>tt. TaskTypes' /\ HistoryTypes'  BY DEF Resume, TaskTypes, HistoryTypes
<1>lock. LockInv'
  <2>1. \A v \in Users : pc'[v] \in Locked <=> lock' = v  BY <1>to, <1>ret, <1>others
  <2>2. rapc' # "loop" /\ lock' # RA  BY <1>to, <1>ret, LockFacts, NoneAssumption DEF Resume
  <2> QED  BY <2>1, <2>2 DEF LockInv
<1>user. UserInv'
  BY <1>to, <1>ret DEF Resume, UserInv, Asleep, Own, At, Locked
<1>tree. TreeInv'  BY TreeFrame DEF Resume
<1>list. ListInv'  BY ListFrame DEF Resume
<1>writer. WriterInv'  BY <1>to, <1>ret, WriterFrame DEF Resume, WriterInv, Locked
<1>empty. EmptyInv'
  <2>1. bd[u] # None => pc'[u] \in At  BY <1>to, <1>ret DEF Locked, At
  <2> QED  BY <1>to, <2>1, BdsFacts, EmptyFrame DEF Resume, Asleep
<1>count. CountInv'
  <2>1. CASE bd[u] = None
    <3>1. \A g : Sleepers(pc', bd', g) = Sleepers(pc, bd, g)
      BY <2>1, <1>to, <1>ret DEF Sleepers
    <3> QED  BY <3>1, <2>1, <1>users DEF Resume, CountInv
  <2>2. CASE bd[u] # None
    <3>1. \A g : Cardinality(Sleepers(pc', bd', g)) =
                    Cardinality(Sleepers(pc, bd, g)) - (IF g = bd[u][1] THEN 1 ELSE 0)
      <4>1. pc'[u] \notin {"sleep", "woken"}  BY <1>to, <1>ret DEF Locked
      <4>2. \A v \in Users \ {u} :
                /\ pc'[v] \in {"sleep", "woken"} <=> pc[v] \in {"sleep", "woken"}
                /\ bd'[v] = bd[v]
        BY <1>to
      <4>3. pc[u] \in {"sleep", "woken"}  BY <1>ret
      <4> TAKE g
      <4> QED  BY <2>2, <4>1, <4>2, <4>3, SleepersLess
    <3>2. state' = state  BY DEF Resume
    <3> QED  BY <3>1, <3>2, <2>2, <1>users, CountTypes DEF CountInv, BufferTypes
  <2> QED  BY <2>1, <2>2
<1>size. SizeInv'
  <2> SUFFICES ASSUME ~resized  PROVE SizeInv'
    BY DEF SizeInv, Resume
  <2>0. resized' = resized /\ tree' = tree /\ state' = state  BY DEF Resume
  <2>1. \A x : Fits(x)' <=> Fits(x)  BY DEF Resume, Fits, Dev
  <2>2. \A v \in Users : /\ v # u => (Syncing(v)' <=> Syncing(v)) /\ (Asleep(v)' <=> Asleep(v))
                         /\ Syncing(v) => Syncing(v)'
    BY <1>to, <1>ret DEF Syncing, Asleep
  <2>3. ret[u] # "recycle"  BY <1>ret DEF SizeInv, Asleep
  <2>4. ~Asleep(u)'  BY <1>to, <1>ret DEF Asleep, Locked
  <2>5. ASSUME NEW x \in tree, ~Fits(x)
        PROVE  /\ state[x] = "EMPTY"
               /\ \E v \in Users : bd'[v] = x /\ Syncing(v)'
               /\ \A v \in Users : bd'[v] = x => Syncing(v)' \/ pc'[v] = "recycle"
    BY <2>5, <2>2, <1>to, <1>ret DEF SizeInv
  <2>6. \A v \in Users : /\ pc'[v] = "recycle" => ~Fits(bd'[v])
                         /\ Asleep(v)' => ret'[v] # "recycle"
    BY <2>2, <2>3, <2>4, <1>to DEF SizeInv
  <2> QED  BY <2>0, <2>1, <2>5, <2>6 DEF SizeInv
<1>fault. FaultInv'  BY DEF Resume, FaultInv
<1>sync. SyncInv'  BY <1>to, <1>ret, SyncFrame DEF Resume, Unwritten, Locked
<1>data. DataInv'  BY <1>to, <1>ret, DataFrame DEF Resume, Saved, Locked
<1>own. OwnInv'  BY <1>to, <1>ret DEF Resume, OwnInv, Own, Locked
<1> QED
  BY <1>ut, <1>bt, <1>tt, <1>lock, <1>user, <1>tree, <1>list, <1>writer, <1>empty, <1>count,
     <1>size, <1>fault, <1>sync, <1>data, <1>own DEF Always

(* rtems_bdbuf_get_buffer_for_access finding the block in the tree keeps    *)
(* the invariant.                                                           *)
LEMMA FindHitStep ==
    ASSUME Core, NEW u \in Users, FindHit(u)
    PROVE  Always' /\ OwnInv'
<1> USE CoreParts DEF bufvars, listvars, grpvars, waitvars, syncvars, swapvars, ravars, datavars, racevars
<1>b. PICK b \in Search(want[u]) :
        /\ bd' = [bd EXCEPT ![u] = b]
        /\ pc' = [pc EXCEPT ![u] =
                    IF per[b[1]] = dsize[want[u][1]] THEN "access" ELSE "recycle"]
  BY DEF FindHit
<1>t. b \in tree /\ b \in Bds /\ b # None /\ key[b] = want[u]
  BY <1>b, BdsFacts DEF Search, BufferTypes
<1>pc. pc[u] = "find" /\ lock = u  BY LockFacts DEF FindHit, Locked
<1>to. /\ pc' \in [Users -> UserPC] /\ bd'[u] = b
       /\ Fits(b) => pc'[u] = "access"
       /\ ~Fits(b) => pc'[u] = "recycle"
       /\ \A v \in Users \ {u} : pc'[v] = pc[v] /\ bd'[v] = bd[v]
  BY <1>b, <1>t DEF UserTypes, UserPC, Fits, Dev
<1>in. pc'[u] \in {"access", "recycle"}  BY <1>to
<1>ut. UserTypes'  BY <1>to, <1>b, <1>t DEF FindHit, UserTypes
<1>bt. BufferTypes'  BY DEF FindHit, BufferTypes
<1>tt. TaskTypes' /\ HistoryTypes'  BY DEF FindHit, TaskTypes, HistoryTypes
<1>lock. LockInv'  BY <1>to, <1>in, <1>pc DEF FindHit, LockInv, Locked
<1>user. UserInv'  BY <1>to, <1>in, <1>t DEF FindHit, UserInv, Asleep, Own, At
<1>tree. TreeInv'  BY TreeFrame DEF FindHit
<1>list. ListInv'  BY ListFrame DEF FindHit
<1>writer. WriterInv'  BY <1>to, <1>in, WriterFrame DEF FindHit, WriterInv
<1>empty. EmptyInv'  BY <1>to, <1>pc, EmptyFrame DEF FindHit, Asleep, At
<1>count. CountInv'
  <2>1. \A g : Sleepers(pc', bd', g) = Sleepers(pc, bd, g)
    BY <1>to, <1>in, <1>pc DEF Sleepers
  <2> QED  BY <2>1 DEF FindHit, CountInv
<1>size. SizeInv'
  <2> SUFFICES ASSUME ~resized  PROVE SizeInv'
    BY DEF SizeInv, FindHit
  <2>0. resized' = resized /\ tree' = tree /\ state' = state /\ ret' = ret  BY DEF FindHit
  <2>1. \A x : Fits(x)' <=> Fits(x)  BY DEF FindHit, Fits, Dev
  <2>2. \A v \in Users : (Syncing(v)' <=> Syncing(v)) /\ (Asleep(v)' <=> Asleep(v))
    BY <1>to, <1>in, <1>pc, <2>0 DEF Syncing, Asleep
  <2>3. ~Syncing(u) /\ ~Asleep(u)  BY <1>pc DEF Syncing, Asleep
  <2>4. ASSUME NEW x \in tree, ~Fits(x)
        PROVE  /\ state[x] = "EMPTY"
               /\ \E v \in Users : bd'[v] = x /\ Syncing(v)'
               /\ \A v \in Users : bd'[v] = x => Syncing(v)' \/ pc'[v] = "recycle"
    BY <2>4, <2>2, <2>3, <1>to DEF SizeInv
  <2>5. \A v \in Users : /\ pc'[v] = "recycle" => ~Fits(bd'[v])
                         /\ Asleep(v)' => ret'[v] # "recycle"
    BY <2>0, <2>2, <1>to DEF SizeInv
  <2> QED  BY <2>0, <2>1, <2>4, <2>5 DEF SizeInv
<1>fault. FaultInv'  BY DEF FindHit, FaultInv
<1>sync. SyncInv'  BY <1>to, <1>in, <1>pc, SyncFrame DEF FindHit, Unwritten
<1>data. DataInv'  BY <1>to, <1>in, <1>pc, DataFrame DEF FindHit, Saved
<1>own. OwnInv'  BY <1>to, <1>in, <1>pc DEF FindHit, OwnInv, Own
<1> QED
  BY <1>ut, <1>bt, <1>tt, <1>lock, <1>user, <1>tree, <1>list, <1>writer, <1>empty, <1>count,
     <1>size, <1>fault, <1>sync, <1>data, <1>own DEF Always

-----------------------------------------------------------------------------
(* Steps of a user that change the state of one buffer *)

(* Only buffer b changes its state, to s; it is taken off the tree if it    *)
(* becomes free.                                                            *)
OneState(b, s) ==
    /\ state' \in [Bds -> States] /\ state'[b] = s
    /\ \A x \in Bds \ {b} : state'[x] = state[x] /\ key'[x] = key[x]
    /\ \/ s # "FREE" /\ tree' = tree /\ key'[b] = key[b]
       \/ s = "FREE" /\ tree' = tree \ {b}

(* The tree is right after one buffer of it changes its state. *)
LEMMA TreeOne ==
    ASSUME BufferTypes, TreeInv, NEW b \in tree, NEW s, OneState(b, s), per' = per
    PROVE  TreeInv'
<1>1. \A x \in Bds : x \in tree' <=> state'[x] # "FREE"
  BY DEF TreeInv, BufferTypes, OneState
<1>2. \A x \in tree' : x \in tree /\ x \in Bds /\ key'[x] = key[x]
  BY DEF OneState, BufferTypes
<1>3. Valid' = Valid  BY DEF Valid
<1> QED  BY <1>1, <1>2, <1>3 DEF TreeInv, Bds

(* The lists of the buffers in states S, before and after *)
LEMMA InStateOne ==
    ASSUME NEW b \in Bds, NEW s, OneState(b, s), NEW S
    PROVE  /\ s \in S /\ state[b] \notin S =>
                b \notin InState(S) /\ InState(S)' = InState(S) \cup {b}
           /\ s \notin S /\ state[b] \in S =>
                b \in InState(S) /\ InState(S)' = InState(S) \ {b}
           /\ s \notin S /\ state[b] \notin S => InState(S)' = InState(S) /\ b \notin InState(S)
           /\ s \in S /\ state[b] \in S => InState(S)' = InState(S) /\ b \in InState(S)
<1>1. \A x \in Bds \ {b} : state'[x] = state[x]  BY DEF OneState
<1>2. state'[b] = s  BY DEF OneState
<1>3. InState(S)' = {x \in Bds : state'[x] \in S}  BY DEF InState
<1> QED  BY <1>1, <1>2, <1>3 DEF InState

(* A moving buffer of a task is not one of the buffers a user has. *)
LEMMA WriterOne ==
    ASSUME WriterInv, TaskTypes, NEW b \in Bds, NEW s, OneState(b, s),
           UNCHANGED <<wlist, wpc, rapc, rabd, spc>>,
           \A w \in Writers : b \notin wlist[w],
           rapc = "reading" => b # rabd,
           \A v \in Users : pc'[v] = "reading" =>
                \/ pc[v] = "reading" /\ bd'[v] = bd[v]
                \/ bd'[v] = b
    PROVE  WriterInv'
<1>1. \A w \in Writers : wlist[w] \subseteq Bds  BY DEF TaskTypes
<1>2. \A w \in Writers : \A x \in wlist[w] : state'[x] \in Moving /\ key'[x] = key[x]
  BY <1>1 DEF OneState, WriterInv
<1>3. rapc = "reading" => state'[rabd] \in Moving  BY DEF OneState, WriterInv
<1> QED  BY <1>2, <1>3, WriterFrame

(* A buffer that is not in a transfer state is in no transfer. *)
LEMMA NotMoving ==
    ASSUME WriterInv, NEW b, state[b] \notin Moving
    PROVE  (\A w \in Writers : b \notin wlist[w]) /\ (rapc = "reading" => b # rabd)
  BY DEF WriterInv

(* What was promised is still to be written after one buffer changes its    *)
(* state, if that buffer was not to be written, still is, or is not         *)
(* promised any more.                                                       *)
LEMMA SyncOne ==
    ASSUME SyncInv, BufferTypes, NEW b \in Bds, NEW s, OneState(b, s),
           UNCHANGED <<synclock, sync_active, sync_device, sdone, spc, wlist>>,
           promised' \subseteq promised, lost \cap promised' \subseteq lost',
           \A v \in Users : /\ pc'[v] \in {"request", "event"} <=> pc[v] \in {"request", "event"}
                            /\ pc[v] = "event" => pc'[v] = "event",
           \/ state[b] \notin {"MODIFIED", "SYNC"} /\ \A w \in Writers : b \notin wlist[w]
           \/ s \in {"MODIFIED", "SYNC"}
           \/ key[b] \notin promised'
    PROVE  SyncInv'
<1>1. \A x \in tree : key[x] \in promised' /\ Unwritten(x) =>
        x \in tree' /\ key'[x] = key[x] /\ Unwritten(x)'
  BY DEF OneState, Unwritten, BufferTypes
<1> QED  BY <1>1, SyncFrame

(* Nothing about a size changes for other buffers than b. *)
LEMMA SizeOne ==
    ASSUME SizeInv, BufferTypes, UserInv, NEW u \in Users, NEW b \in tree, NEW s, OneState(b, s),
           UNCHANGED <<per, dsize, resized>>, bd[u] = b,
           ~resized => Fits(b) \/ b \notin tree',
           \A v \in Users \ {u} : /\ bd'[v] = bd[v] /\ ret'[v] = ret[v]
                                  /\ pc'[v] \in {"sleep", "woken"} <=> pc[v] \in {"sleep", "woken"}
                                  /\ pc'[v] \in Locked => pc[v] = pc'[v]
                                  /\ pc[v] \in Locked => pc[v] = pc'[v],
           bd'[u] \in {b, None}, pc'[u] # "recycle",
           pc'[u] \in {"sleep", "woken"} => ret'[u] # "recycle",
           \A v \in Users \ {u} : bd[v] = b => b \in tree'
    PROVE  SizeInv'
<1> SUFFICES ASSUME ~resized  PROVE SizeInv'
  BY DEF SizeInv
<1>1. \A x \in tree' : x \in tree /\ x \in Bds /\ key'[x] = key[x] /\ (x # b => state'[x] = state[x])
  BY DEF OneState, BufferTypes
<1>2. \A x \in tree' : Fits(x)' <=> Fits(x)  BY <1>1 DEF Fits, Dev
<1>3. \A v \in Users \ {u} : /\ Syncing(v)' <=> Syncing(v)
                             /\ Asleep(v)' <=> Asleep(v)
                             /\ pc'[v] = "recycle" <=> pc[v] = "recycle"
  BY DEF Syncing, Asleep, Locked
<1>4. ASSUME NEW x \in tree', ~Fits(x)'
      PROVE  /\ state'[x] = "EMPTY"
             /\ \E v \in Users : bd'[v] = x /\ Syncing(v)'
             /\ \A v \in Users : bd'[v] = x => Syncing(v)' \/ pc'[v] = "recycle"
  <2>1. x # b /\ x \in tree /\ ~Fits(x) /\ state'[x] = state[x]  BY <1>1, <1>2, <1>4
  <2>2. PICK v \in Users : bd[v] = x /\ Syncing(v)  BY <2>1 DEF SizeInv
  <2>3. \A y \in Users : bd[y] = x => Syncing(y) \/ pc[y] = "recycle"  BY <2>1 DEF SizeInv
  <2>4. x # None  BY <2>1, BdsFacts DEF BufferTypes
  <2> QED  BY <2>1, <2>2, <2>3, <2>4, <1>3 DEF SizeInv
<1>5. \A v \in Users : /\ pc'[v] = "recycle" => ~Fits(bd[v])'
                       /\ Asleep(v)' => ret'[v] # "recycle"
  <2>1. ASSUME NEW v \in Users, v # u, pc'[v] = "recycle"  PROVE ~Fits(bd[v])'
    <3>1. pc[v] = "recycle" /\ bd'[v] = bd[v] /\ ~Fits(bd[v])  BY <2>1, <1>3 DEF SizeInv
    <3>2. bd[v] # None  BY <3>1 DEF UserInv, At
    <3>3. bd[v] \in tree  BY <3>2 DEF UserInv
    <3>4. bd[v] \in tree'  BY <3>3, <2>1 DEF OneState
    <3> QED  BY <3>1, <3>4, <1>2 DEF Fits, Dev
  <2>2. ASSUME NEW v \in Users  PROVE Asleep(v)' => ret'[v] # "recycle"
    BY <1>3 DEF SizeInv, Asleep
  <2> QED  BY <2>1, <2>2
<1> QED  BY <1>4, <1>5 DEF SizeInv

(* User u is rid of its buffer; others may have been woken. *)
Gives(u) ==
    /\ pc' \in [Users -> UserPC] /\ pc'[u] = "idle" /\ bd'[u] = None /\ ret' = ret
    /\ \A v \in Users \ {u} :
        /\ bd'[v] = bd[v] /\ want'[v] = want[v]
        /\ pc[v] \notin {"sleep", "woken"} => pc'[v] = pc[v]
        /\ pc[v] \in {"sleep", "woken"} => pc'[v] \in {"sleep", "woken"}

(* The assignments with which a user gives its buffer back. *)
LEMMA ToGives ==
    ASSUME UserTypes, NEW u \in Users, NEW cs, pc' = Wake([pc EXCEPT ![u] = "idle"], cs), ret' = ret,
           bd' = [bd EXCEPT ![u] = None], want' = [want EXCEPT ![u] = None]
    PROVE  /\ Gives(u)
           /\ (op' = op \/ op' = [op EXCEPT ![u] = None]) /\ cv' = cv /\ lock' \in {lock, None} => UserTypes'
<1>1. pc' \in [Users -> UserPC] /\ To(u, {"idle"})  BY WakeTo DEF UserPC
<1>2. pc'[u] = "idle" /\ \A v \in Users \ {u} : pc'[v] = pc[v] \/ (pc[v] = "sleep" /\ pc'[v] = "woken")
  BY <1>1 DEF To
<1>3. bd'[u] = None /\ \A v \in Users \ {u} : bd'[v] = bd[v] /\ want'[v] = want[v]
  BY DEF UserTypes
<1>4. Gives(u)  BY <1>1, <1>2, <1>3 DEF Gives
<1>5. (op' = op \/ op' = [op EXCEPT ![u] = None]) /\ cv' = cv /\ lock' \in {lock, None} => UserTypes'
  BY <1>1 DEF UserTypes
<1> QED  BY <1>4, <1>5

(* A buffer given back has no owner left; it becomes FREE only if nobody    *)
(* waits for it and EMPTY only if somebody does                             *)
(* (rtems_bdbuf_discard_buffer_after_access).                               *)
LEMMA GiveBack ==
    ASSUME Core, NEW u \in Users, NEW s, pc[u] \in Own, lock = None, Gives(u),
           OneState(bd[u], s), s = "FREE" => ~Waited(bd[u]), s = "EMPTY" => Waited(bd[u]),
           UNCHANGED <<lock, per, dsize, resized, wlist, wpc, spc, rapc, rabd>>
    PROVE  /\ LockInv' /\ UserInv' /\ TreeInv' /\ WriterInv' /\ EmptyInv' /\ SizeInv' /\ OwnInv'
           /\ \A v \in Users \ {u} : bd[v] = bd[u] => Asleep(v)
           /\ \A w \in Writers : bd[u] \notin wlist[w]
<1> USE CoreParts
<1> DEFINE b == bd[u]
<1>b. b # None /\ b \in Bds /\ b \in tree  
  <2>1. bd[u] # None  BY DEF UserInv
  <2> QED  BY <2>1, BdFacts
<1>locked. \A v \in Users : pc[v] \notin Locked  BY LockFacts
<1>others. \A v \in Users \ {u} : bd[v] = b => Asleep(v) 
  <2> SUFFICES ASSUME NEW v \in Users \ {u}, bd[v] = b, ~Asleep(v)  PROVE FALSE
    OBVIOUS
  <2>1. pc[v] \notin Own  BY DEF OwnInv
  <2>2. pc[v] \in {"idle", "find", "request", "event", "resize"}
    BY <2>1, <1>locked DEF UserTypes, UserPC, Own, Locked, Asleep
  <2> QED  BY <2>2, <1>b DEF UserInv
<1>free. s = "FREE" => \A v \in Users \ {u} : bd[v] # b  BY <1>others DEF Waited
<1>lock. LockInv'
  <2>1. \A v \in Users : pc'[v] \notin Locked  BY <1>locked DEF Gives, Locked
  <2> QED  BY <2>1, NoneAssumption, LockFacts DEF LockInv, RA
<1>user. UserInv'
  <2>1. ASSUME NEW v \in Users, v # u, bd'[v] # None  PROVE bd'[v] \in tree' /\ key'[bd'[v]] = want'[v]
    <3>1. bd'[v] = bd[v] /\ want'[v] = want[v] /\ bd[v] \in tree /\ key[bd[v]] = want[v] /\ bd[v] \in Bds
      BY <2>1 DEF Gives, UserInv, BufferTypes
    <3> QED  BY <3>1, <2>1, <1>free DEF OneState
  <2>2. ASSUME NEW v \in Users, v # u
        PROVE  /\ pc'[v] \in {"idle", "find", "request", "event", "resize"} => bd'[v] = None
               /\ pc'[v] \in Own \cup At => bd'[v] # None
               /\ pc'[v] = "find" => want'[v] \in Keys
               /\ pc'[v] \in {"request", "event", "resize"} => want'[v] \in Devices
               /\ Asleep(v)' => /\ ret'[v] \in Locked
                                /\ bd'[v] = None <=> ret'[v] = "find"
                                /\ want'[v] \in Keys
    BY <2>2 DEF Gives, UserInv, Asleep, Own, At
  <2>3. pc'[u] = "idle" /\ bd'[u] = None  BY DEF Gives
  <2>4. pc'[u] \notin Own \cup At \cup {"find", "request", "event", "resize", "sleep", "woken"}
    BY <2>3 DEF Own, At
  <2>5. ASSUME NEW v \in Users
        PROVE  /\ bd'[v] # None => bd'[v] \in tree' /\ key'[bd'[v]] = want'[v]
               /\ pc'[v] \in {"idle", "find", "request", "event", "resize"} => bd'[v] = None
               /\ pc'[v] \in Own \cup At => bd'[v] # None
               /\ pc'[v] = "find" => want'[v] \in Keys
               /\ pc'[v] \in {"request", "event", "resize"} => want'[v] \in Devices
               /\ Asleep(v)' => /\ ret'[v] \in Locked
                                /\ bd'[v] = None <=> ret'[v] = "find"
                                /\ want'[v] \in Keys
    <3>1. CASE v = u  BY <3>1, <2>3, <2>4 DEF Asleep
    <3>2. CASE v # u  BY <3>2, <2>1, <2>2
    <3> QED  BY <3>1, <3>2
  <2> QED  BY <2>5 DEF UserInv, Asleep
<1>tree. TreeInv'  BY <1>b, TreeOne
<1>nw. (\A w \in Writers : b \notin wlist[w]) /\ (rapc = "reading" => b # rabd)
  <2>1. CASE pc[u] = "reading"  BY <2>1 DEF WriterInv
  <2>2. CASE pc[u] # "reading"
    <3>1. state[b] \in InAccess  BY <2>2 DEF OwnInv, Own, Modifiable, InAccess
    <3> QED  BY <3>1, NotMoving DEF InAccess, Moving
  <2> QED  BY <2>1, <2>2
<1>writer. WriterInv'  
  <2>1. \A v \in Users : pc'[v] = "reading" => pc[v] = "reading" /\ bd'[v] = bd[v]  BY DEF Gives
  <2> QED  BY <1>b, <1>nw, <2>1, WriterOne
<1>empty. EmptyInv'
  <2>1. SUFFICES ASSUME NEW x \in Bds, state'[x] = "EMPTY"
                 PROVE  \E v \in Users : bd'[v] = x /\ pc'[v] \in {"sleep", "woken"} \cup At
    BY DEF EmptyInv, Bds, Asleep, At
  <2>2. CASE x = b
    <3>1. PICK v \in Users : Asleep(v) /\ bd[v] = b  BY <2>1, <2>2 DEF OneState, Waited
    <3> QED  BY <3>1, <2>2 DEF Gives, Asleep, Own
  <2>3. CASE x # b
    <3>1. state[x] = "EMPTY"  BY <2>1, <2>3 DEF OneState
    <3>2. PICK v \in Users : bd[v] = x /\ (Asleep(v) \/ pc[v] \in At)  BY <3>1 DEF EmptyInv
    <3>3. pc[v] \in {"sleep", "woken"}  BY <3>2, <1>locked DEF Asleep, At, Locked
    <3> QED  BY <3>2, <3>3, <2>3 DEF Gives
  <2> QED  BY <2>2, <2>3
<1>size. SizeInv'
  <2>1. ~resized => Fits(b)
    <3>1. state[b] # "EMPTY"  BY DEF OwnInv, Own, Modifiable, InAccess
    <3> QED  BY <3>1, <1>b DEF SizeInv
  <2>2. \A v \in Users \ {u} : /\ bd'[v] = bd[v] /\ ret'[v] = ret[v]
                               /\ pc'[v] \in {"sleep", "woken"} <=> pc[v] \in {"sleep", "woken"}
                               /\ pc'[v] \in Locked => pc[v] = pc'[v]
                               /\ pc[v] \in Locked => pc[v] = pc'[v]
                               /\ bd[v] = b => b \in tree'
    BY <1>free, <1>b DEF Gives, Locked, OneState
  <2>3. bd'[u] \in {b, None} /\ pc'[u] # "recycle" /\ pc'[u] \notin {"sleep", "woken"}
    BY DEF Gives
  <2> HIDE DEF b
  <2>4. bd[u] = b /\ OneState(b, s)  BY DEF b
  <2> QED  BY <1>b, <2>1, <2>2, <2>3, <2>4, SizeOne
<1>own. OwnInv'
  <2>1. ASSUME NEW v \in Users, pc'[v] \in Own
        PROVE  v # u /\ pc'[v] = pc[v] /\ bd'[v] = bd[v] /\ bd[v] # b
    BY <2>1, <1>others DEF Gives, Own, Asleep
  <2>2. ASSUME NEW v \in Users, pc[v] \in Own  PROVE bd[v] \in Bds
    BY <2>2, BdsFacts DEF UserInv, UserTypes
  <2> HIDE DEF b
  <2>3. \A v \in Users : pc'[v] \in Own => state'[bd[v]] = state[bd[v]]
    BY <2>1, <2>2 DEF OneState, b
  <2> QED  BY <2>1, <2>3 DEF OwnInv, Own
<1> QED  BY <1>lock, <1>user, <1>tree, <1>nw, <1>writer, <1>empty, <1>size, <1>own, <1>others

-----------------------------------------------------------------------------
(* A list of the buffers in states S when buffer b goes to state s *)
Relisted(l, m, b, S, s) ==
    IF s \in S
    THEN \/ state[b] \in S /\ m = l
         \/ state[b] \notin S /\ m = Append(l, b)
         \/ \E q : /\ Lists(q, {b})
                   /\ m = q \o Without(l, {b}) \/ (state[b] \notin S /\ m = q \o l)
    ELSE m = Without(l, {b}) \/ (state[b] \notin S /\ m = l)

(* A list is right after buffer b was put on it or taken off it. *)
LEMMA ListsRelisted ==
    ASSUME NEW l, NEW m, NEW b, NEW S, NEW s, NEW T, Lists(l, T), b \in T <=> state[b] \in S,
           Relisted(l, m, b, S, s)
    PROVE  Lists(m, IF s \in S THEN T \cup {b} ELSE T \ {b})
<1>1. l \in Seq(T) /\ IsInjective(l) /\ ToSet(l) = T  BY DEF Lists
<1>2. Lists(Without(l, {b}), T \ {b})  BY <1>1, WithoutLists
<1>3. CASE s \notin S
  <2>1. CASE m = Without(l, {b})  BY <2>1, <1>2, <1>3
  <2>2. CASE state[b] \notin S /\ m = l
    <3>1. T \ {b} = T  BY <2>2
    <3> QED  BY <2>2, <3>1, <1>3
  <2> QED  BY <2>1, <2>2, <1>3 DEF Relisted
<1>4. CASE s \in S
  <2>1. CASE state[b] \in S /\ m = l
    <3>1. T \cup {b} = T  BY <2>1
    <3> QED  BY <2>1, <3>1, <1>4
  <2>2. CASE state[b] \notin S /\ m = Append(l, b)  BY <2>2, <1>4, AppendLists
  <2>3. CASE \E q : Lists(q, {b}) /\ m = q \o Without(l, {b})
    <3>1. PICK q : Lists(q, {b}) /\ m = q \o Without(l, {b})  BY <2>3
    <3>2. {b} \cap (T \ {b}) = {} /\ {b} \cup (T \ {b}) = T \cup {b}  OBVIOUS
    <3>3. Lists(m, {b} \cup (T \ {b}))  BY <3>1, <3>2, <1>2, ConcatLists
    <3> QED  BY <3>2, <3>3, <1>4
  <2>4. CASE \E q : Lists(q, {b}) /\ state[b] \notin S /\ m = q \o l
    <3>1. PICK q : Lists(q, {b}) /\ state[b] \notin S /\ m = q \o l  BY <2>4
    <3>2. {b} \cap T = {} /\ {b} \cup T = T \cup {b}  BY <3>1
    <3>3. Lists(m, {b} \cup T)  BY <3>1, <3>2, ConcatLists
    <3> QED  BY <3>2, <3>3, <1>4
  <2> QED  BY <2>1, <2>2, <2>3, <2>4, <1>4 DEF Relisted
<1> QED  BY <1>3, <1>4

(* The three lists are right after one buffer changes its state and is      *)
(* moved accordingly.                                                       *)
LEMMA ListOne ==
    ASSUME ListInv, NEW b \in Bds, b \in Valid, NEW s, OneState(b, s), per' = per,
           Relisted(lru, lru', b, {"FREE", "CACHED"}, s),
           Relisted(modified, modified', b, {"MODIFIED"}, s),
           Relisted(syncq, syncq', b, {"SYNC"}, s)
    PROVE  ListInv'
<1> DEFINE After(T, S) == IF s \in S THEN T \cup {b} ELSE T \ {b}
<1>1. \A S : b \in InState(S) <=> state[b] \in S  BY DEF InState
<1>2. \A S : InState(S)' = After(InState(S), S)
  <2> TAKE S
  <2>1. \A x \in Bds \ {b} : state'[x] = state[x]  BY DEF OneState
  <2>2. state'[b] = s  BY DEF OneState
  <2>3. InState(S)' = {x \in Bds : state'[x] \in S}  BY DEF InState
  <2> QED  BY <2>1, <2>2, <2>3 DEF InState
<1>3. Valid' = Valid  BY DEF Valid
<1>4. /\ Lists(lru, Valid \cap InState({"FREE", "CACHED"}))
      /\ Lists(modified, InState({"MODIFIED"})) /\ Lists(syncq, InState({"SYNC"}))
  BY DEF ListInv
<1>5. b \in Valid \cap InState({"FREE", "CACHED"}) <=> state[b] \in {"FREE", "CACHED"}  BY <1>1
<1>6. Lists(lru', After(Valid \cap InState({"FREE", "CACHED"}), {"FREE", "CACHED"}))
  <2>1. \A T : Lists(lru, T) /\ (b \in T <=> state[b] \in {"FREE", "CACHED"})
                => Lists(lru', After(T, {"FREE", "CACHED"}))
    BY ListsRelisted
  <2> QED  BY <1>4, <1>5, <2>1
<1>7. Lists(modified', After(InState({"MODIFIED"}), {"MODIFIED"}))  BY <1>4, <1>1, ListsRelisted
<1>8. Lists(syncq', After(InState({"SYNC"}), {"SYNC"}))  BY <1>4, <1>1, ListsRelisted
<1>9. (Valid \cap InState({"FREE", "CACHED"}))'
        = After(Valid \cap InState({"FREE", "CACHED"}), {"FREE", "CACHED"})
  <2>1. (Valid \cap InState({"FREE", "CACHED"}))' = Valid \cap InState({"FREE", "CACHED"})'
    BY <1>3
  <2>2. InState({"FREE", "CACHED"})' = After(InState({"FREE", "CACHED"}), {"FREE", "CACHED"})
    BY <1>2
  <2>3. Valid \cap After(InState({"FREE", "CACHED"}), {"FREE", "CACHED"})
           = After(Valid \cap InState({"FREE", "CACHED"}), {"FREE", "CACHED"})
    OBVIOUS
  <2> QED  BY <2>1, <2>2, <2>3
<1>10. InState({"MODIFIED"})' = After(InState({"MODIFIED"}), {"MODIFIED"})
       /\ InState({"SYNC"})' = After(InState({"SYNC"}), {"SYNC"})
  BY <1>2
<1> HIDE DEF After
<1>11. /\ Lists(lru', (Valid \cap InState({"FREE", "CACHED"}))')
       /\ Lists(modified', InState({"MODIFIED"})') /\ Lists(syncq', InState({"SYNC"})')
  BY <1>6, <1>7, <1>8, <1>9, <1>10
<1> QED  BY <1>11 DEF ListInv

(* rtems_bdbuf_group_release for each buffer of S. *)
LEMMA UsersLessTypes ==
    ASSUME BufferTypes, NEW S \in SUBSET Bds, users' = UsersLess(S)
    PROVE  /\ users' \in [Groups -> Int]
           /\ \A g \in Groups : users'[g] = users[g] - Cardinality({b \in S : b[1] = g})
           /\ \A g : Cardinality({b \in S : b[1] = g}) \in Nat
<1> DEFINE c(g) == Cardinality({b \in S : b[1] = g})
<1>1. \A g : c(g) \in Nat
  <2> TAKE g
  <2>1. {b \in S : b[1] = g} \in SUBSET Bds  OBVIOUS
  <2>2. IsFiniteSet({b \in S : b[1] = g})  BY <2>1, BdsFacts, FS_Subset
  <2> QED  BY <2>2, FS_CardinalityType
<1>2. \A g \in Groups : users[g] \in Int  BY DEF BufferTypes
<1>3. users' = [g \in Groups |-> users[g] - c(g)]  BY DEF UsersLess
<1> HIDE DEF c
<1>4. \A g \in Groups : users[g] - c(g) \in Int  BY <1>1, <1>2
<1>5. users' \in [Groups -> Int] /\ \A g \in Groups : users'[g] = users[g] - c(g)
  BY <1>3, <1>4
<1> QED  BY <1>1, <1>5 DEF c

(* The buffers in S are given back, the groups' counts go down. *)
LEMMA CountLess ==
    ASSUME CountInv, BufferTypes, NEW S \in SUBSET Bds, users' = UsersLess(S),
           \A b \in S : state[b] \in UsesGroup /\ state'[b] \notin UsesGroup,
           \A x \in Bds \ S : state'[x] \in UsesGroup <=> state[x] \in UsesGroup,
           \A g : Sleepers(pc', bd', g) = Sleepers(pc, bd, g)
    PROVE  CountInv' /\ users' \in [Groups -> Int]
<1> DEFINE c(g) == Cardinality({b \in S : b[1] = g})
<1>1. ASSUME NEW g  PROVE Cardinality(Busy(state', g)) = Cardinality(Busy(state, g)) - c(g)
  BY BusyLess
<1>2. /\ users' \in [Groups -> Int]
      /\ \A g \in Groups : users'[g] = users[g] - c(g)
      /\ \A g : c(g) \in Nat
  BY UsersLessTypes
<1> HIDE DEF c
<1>3. ASSUME NEW g \in Groups
      PROVE  users'[g] = Cardinality(Busy(state', g)) + Cardinality(Sleepers(pc', bd', g))
  <2>1. users[g] = Cardinality(Busy(state, g)) + Cardinality(Sleepers(pc, bd, g))  BY DEF CountInv
  <2>2. Cardinality(Busy(state, g)) \in Nat /\ Cardinality(Sleepers(pc, bd, g)) \in Nat
    BY CountTypes
  <2> QED  BY <1>1, <1>2, <2>1, <2>2
<1> QED  BY <1>2, <1>3 DEF CountInv

(* The user count of the group is right after a buffer is given back. *)
LEMMA GiveCount ==
    ASSUME Core, NEW u \in Users, NEW b \in Bds, NEW s, pc[u] \notin {"sleep", "woken"}, Gives(u),
           OneState(b, s), state[b] \in UsesGroup,
           \/ s \notin UsesGroup /\ users' = UsersLess({b})
           \/ s \in UsesGroup /\ users' = users
    PROVE  CountInv' /\ users' \in [Groups -> Int]
<1> USE CoreParts
<1>1. \A g : Sleepers(pc', bd', g) = Sleepers(pc, bd, g)
  <2>1. pc'[u] \notin {"sleep", "woken"}  BY DEF Gives
  <2>2. \A v \in Users \ {u} : /\ pc'[v] \in {"sleep", "woken"} <=> pc[v] \in {"sleep", "woken"}
                               /\ bd'[v] = bd[v]
    BY DEF Gives
  <2> QED  BY <2>1, <2>2 DEF Sleepers
<1>2. \A x \in Bds \ {b} : state'[x] = state[x]  BY DEF OneState
<1>3. state'[b] = s  BY DEF OneState
<1>4. CASE s \notin UsesGroup /\ users' = UsersLess({b})
  <2> DEFINE S == {b}
  <2>1. S \in SUBSET Bds /\ users' = UsersLess(S)  BY <1>4
  <2>2. \A x \in S : state[x] \in UsesGroup /\ state'[x] \notin UsesGroup  BY <1>3, <1>4
  <2>3. \A x \in Bds \ S : state'[x] \in UsesGroup <=> state[x] \in UsesGroup  BY <1>2
  <2> HIDE DEF S
  <2> QED  BY <1>1, <2>1, <2>2, <2>3, CountLess
<1>5. CASE s \in UsesGroup /\ users' = users
  <2>1. \A g : Busy(state', g) = Busy(state, g)  BY <1>2, <1>3, <1>5 DEF Busy
  <2> QED  BY <1>1, <1>5, <2>1 DEF CountInv, BufferTypes
<1> QED  BY <1>4, <1>5

(* A user that owns a buffer has one that is not waiting to be written. *)
LEMMA GiveSync ==
    ASSUME Core, NEW u \in Users, NEW b \in Bds, NEW s, pc[u] \in Own, Gives(u),
           OneState(b, s), state[b] \notin {"MODIFIED", "SYNC"}, \A w \in Writers : b \notin wlist[w],
           UNCHANGED <<synclock, sync_active, sync_device, sdone, spc, wlist>>,
           promised' \subseteq promised, lost \cap promised' \subseteq lost'
    PROVE  SyncInv'
<1> USE CoreParts
<1>1. \A v \in Users : /\ pc'[v] \in {"request", "event"} <=> pc[v] \in {"request", "event"}
                       /\ pc[v] = "event" => pc'[v] = "event"
  BY DEF Gives, Own
<1> QED  BY <1>1, SyncOne

(* rtems_bdbuf_discard_buffer of one buffer: EMPTY for those who wait,      *)
(* otherwise FREE, off the tree and on the LRU list.                        *)
LEMMA DiscardOne ==
    ASSUME BufferTypes, TreeInv, ListInv, NEW b \in tree, Discard({b}), state[b] \notin {"FREE", "CACHED"}
    PROVE  /\ OneState(b, Discarded(b)) /\ fault' = fault
           /\ Relisted(lru, lru', b, {"FREE", "CACHED"}, Discarded(b))
           /\ Discarded(b) \in {"FREE", "EMPTY"}
           /\ Discarded(b) = "FREE" => ~Waited(b)
           /\ Discarded(b) = "EMPTY" => Waited(b)
<1>1. b \in Bds /\ Discarded(b) \in {"FREE", "EMPTY"}  BY DEF BufferTypes, Discarded
<1>2. CASE Waited(b)
  <2>1. FreeOf({b}) = {} /\ Discarded(b) = "EMPTY"  BY <1>2 DEF FreeOf, Discarded
  <2>2. state' \in [Bds -> States] /\ state'[b] = "EMPTY" /\ tree' = tree /\ fault' = fault
    BY <1>1, <2>1 DEF Discard, Untree, BufferTypes, States
  <2>3. \A x \in Bds : (x # b => state'[x] = state[x]) /\ key'[x] = key[x]  BY <2>1 DEF Discard
  <2>4. OneState(b, "EMPTY")  BY <1>1, <2>2, <2>3 DEF OneState
  <2>5. SetToSeq({}) \in Seq({})  BY FS_EmptySet, SetToSeqLists DEF Lists
  <2>6. SetToSeq({}) = <<>>  BY <2>5
  <2>7. lru' = <<>> \o lru  BY <2>1, <2>6 DEF Discard
  <2>8. lru \in Seq(Valid \cap InState({"FREE", "CACHED"}))  BY DEF ListInv, Lists
  <2>9. lru' = lru  BY <2>7, <2>8
  <2> QED  BY <2>9, <2>1, <2>2, <2>4, <1>2 DEF Relisted
<1>3. CASE ~Waited(b)
  <2>1. FreeOf({b}) = {b} /\ Discarded(b) = "FREE"  BY <1>3 DEF FreeOf, Discarded
  <2>2. state' \in [Bds -> States] /\ state'[b] = "FREE" /\ tree' = tree \ {b} /\ fault' = fault
    BY <1>1, <2>1 DEF Discard, Untree, BufferTypes, States
  <2>3. \A x \in Bds : (x # b => state'[x] = state[x] /\ key'[x] = key[x])  BY <2>1 DEF Discard
  <2>4. OneState(b, "FREE")  BY <1>1, <2>2, <2>3 DEF OneState
  <2>5. Lists(SetToSeq({b}), {b}) /\ lru' = SetToSeq({b}) \o lru
    BY <2>1, FS_Singleton, SetToSeqLists DEF Discard
  <2>6. Relisted(lru, lru', b, {"FREE", "CACHED"}, "FREE")  BY <2>5 DEF Relisted
  <2> QED  BY <2>1, <2>2, <2>4, <2>6, <1>3
<1> QED  BY <1>2, <1>3

(* Giving back a buffer that was not modified loses nothing. *)
LEMMA GiveData ==
    ASSUME Core, NEW u \in Users, NEW s, pc[u] \in {"hold", "reading"}, Gives(u),
           OneState(bd[u], s), state[bd[u]] \notin Dirty, s \notin Dirty,
           s \in Clean => state[bd[u]] \in Clean /\ key'[bd[u]] = key[bd[u]], \A w \in Writers : bd[u] \notin wlist[w],
           UNCHANGED <<cur, dcur, lost, wlist>>
    PROVE  DataInv'
<1> USE CoreParts
<1> DEFINE b == bd[u]
<1>1. \A v \in Users : pc[v] \in {"synclock", "relock"} => bd[v] # b  BY DEF OwnInv, Own
<1>2. ~Saved(b)  BY <1>1 DEF Saved
<1> HIDE DEF b
<1>3. ASSUME NEW x \in tree, Saved(x)  PROVE x \in tree' /\ key'[x] = key[x] /\ Saved(x)'
  <2>1. x # b /\ x \in Bds  BY <1>2, <1>3 DEF BufferTypes
  <2>2. x \in tree' /\ key'[x] = key[x] /\ state'[x] = state[x]  BY <2>1 DEF OneState, b
  <2>3. \A v \in Users : pc[v] \in {"synclock", "relock"} => pc'[v] = pc[v] /\ bd'[v] = bd[v]
    BY DEF Gives
  <2>4. Saved(x)'  BY <1>3, <2>2, <2>3 DEF Saved, Writers
  <2> QED  BY <2>2, <2>4
<1>4. /\ \A x \in Bds : state'[x] \in Clean => state[x] \in Clean /\ key'[x] = key[x]
      /\ \A x \in Bds : state'[x] \in Dirty => state[x] \in Dirty
  BY DEF OneState
<1>5. \A v \in Users : pc'[v] \in {"synclock", "relock"} =>
                pc[v] \in {"synclock", "relock"} /\ bd'[v] = bd[v]
  BY DEF Gives
<1> QED  BY <1>3, <1>4, <1>5, DataFrame

(* Buffer b gets new contents, or keeps its modified ones. *)
Fills(b) ==
    /\ cur' \in [Bds -> BOOLEAN] /\ dcur' \in [Keys -> BOOLEAN] /\ cur'[b]
    /\ \A x \in tree \ {b} : cur'[x] = cur[x]
    /\ \A k \in Keys \ {key[b]} : dcur'[k] = dcur[k] /\ (k \in lost => k \in lost')
    /\ promised' \subseteq promised /\ lost' \subseteq lost /\ lost \cap promised' \subseteq lost'

(* New contents of the buffer that user u has, or its modified contents *)
LEMMA FilledFacts ==
    ASSUME Core, NEW u \in Users, pc[u] = "hold", state[bd[u]] \in Modifiable,
           \E new \in NewContents(u) : Filled(u, new)
    PROVE  Fills(bd[u])
<1> USE CoreParts
<1> DEFINE b == bd[u]
<1>b. b \in Bds /\ b \in tree /\ key[b] \in Keys
  <2>1. bd[u] # None  BY DEF UserInv, Own
  <2> QED  BY <2>1, BdFacts
<1>1. PICK new \in NewContents(u) : Filled(u, new)  OBVIOUS
<1>2. CASE new
  <2>1. cur' = [x \in Bds |-> x = b \/ (cur[x] /\ key[x] # key[b])]  BY <1>1, <1>2 DEF Filled
  <2>2. dcur' = [dcur EXCEPT ![key[b]] = FALSE]  BY <1>1, <1>2 DEF Filled
  <2>3. cur \in [Bds -> BOOLEAN] /\ dcur \in [Keys -> BOOLEAN]  BY DEF BufferTypes
  <2>4. \A x \in tree \ {b} : key[x] # key[b] /\ x \in Bds  BY <1>b DEF TreeInv, BufferTypes
  <2>5. cur' \in [Bds -> BOOLEAN] /\ cur'[b]  BY <2>1, <2>3, <1>b
  <2>6. ASSUME NEW x \in tree \ {b}  PROVE cur'[x] = cur[x]
    <3>1. x \in Bds /\ key[x] # key[b] /\ cur[x] \in BOOLEAN  BY <2>3, <2>4
    <3>2. cur'[x] = (x = b \/ (cur[x] /\ key[x] # key[b]))  BY <2>1, <3>1
    <3> QED  BY <3>1, <3>2
  <2>7. dcur' \in [Keys -> BOOLEAN] /\ \A k \in Keys \ {key[b]} : dcur'[k] = dcur[k]
    BY <2>2, <2>3
  <2>8. lost' = lost \ {key[b]} /\ promised' = promised \ {key[b]}  BY <1>1, <1>2 DEF Filled
  <2> QED  BY <2>5, <2>6, <2>7, <2>8 DEF Fills
<1>3. CASE ~new
  <2>1. UNCHANGED <<cur, dcur, lost, promised>>  BY <1>1, <1>3 DEF Filled, datavars
  <2>2. state[b] = "ACCESS_MODIFIED"  BY <1>1, <1>3 DEF NewContents
  <2>3. cur[b]  BY <1>b, <2>2 DEF DataInv, Dirty
  <2> QED  BY <2>1, <2>3 DEF BufferTypes, Fills
<1>4. new \in BOOLEAN  BY <1>1 DEF NewContents
<1> QED  BY <1>2, <1>3, <1>4

(* Buffer b has the latest contents of its block, and they are or will be   *)
(* written, or they are lost.                                               *)
LEMMA SaveData ==
    ASSUME Core, NEW b \in tree, tree' = tree, key' = key, wlist' = wlist,
           \/ cur'[b] /\ (Saved(b)' \/ dcur'[key[b]])
           \/ /\ key[b] \in lost' /\ state'[b] \notin Dirty /\ \A w \in Writers : b \notin wlist[w]
              /\ \A v \in Users : pc'[v] \in {"synclock", "relock"} => bd'[v] # b,
           \A x \in tree \ {b} : cur'[x] = cur[x] /\ state'[x] = state[x],
           \A x \in Bds \ tree : state'[x] = state[x],
           \A k \in Keys \ {key[b]} : dcur'[k] = dcur[k] /\ (k \in lost => k \in lost'),
           \A v \in Users : pc'[v] \in {"synclock", "relock"} => bd'[v] = b \/
                (pc[v] \in {"synclock", "relock"} /\ bd'[v] = bd[v] /\ bd[v] \in tree),
           \A v \in Users : pc[v] \in {"synclock", "relock"} /\ bd[v] # b =>
                pc'[v] = pc[v] /\ bd'[v] = bd[v]
    PROVE  DataInv'
<1> USE CoreParts
<1>0. \A x \in Bds \ {b} : state'[x] \in Clean \cup Dirty =>
        x \in tree /\ state[x] = state'[x] /\ cur'[x] = cur[x] /\ key[x] \in Keys \ {key[b]}
  BY DEF TreeInv, Clean, Dirty
<1>1. ASSUME NEW x \in Bds
      PROVE  /\ state'[x] \in Clean => cur'[x] \/ key'[x] \in lost'
             /\ state'[x] \in Dirty => cur'[x]
  <2>1. CASE x = b  BY <2>1
  <2>2. CASE x # b  BY <2>2, <1>0 DEF DataInv
  <2> QED  BY <2>1, <2>2
<1>2. ASSUME NEW w \in Writers, NEW x \in wlist'[w]  PROVE cur'[x]
  <2>1. x \in Bds /\ state[x] \in Moving /\ cur[x]  BY <1>2 DEF WriterInv, TaskTypes, DataInv
  <2>2. x \in tree  BY <2>1 DEF TreeInv, Moving
  <2> QED  BY <2>1, <2>2
<1>3. ASSUME NEW v \in Users, pc'[v] \in {"synclock", "relock"}  PROVE cur'[bd'[v]]
  BY <1>3 DEF DataInv
<1>4. ASSUME NEW k \in Keys, ~dcur'[k], k \notin lost'
      PROVE  \E x \in Search(k)' : cur'[x] /\ Saved(x)'
  <2>1. CASE k = key[b]  BY <2>1, <1>4 DEF Search
  <2>2. CASE k # key[b]
    <3>1. PICK x \in Search(k) : cur[x] /\ Saved(x)  BY <1>4, <2>2 DEF DataInv
    <3>2. x \in tree /\ x # b /\ key[x] = k  BY <3>1, <2>2 DEF Search
    <3>3. Saved(x)'  BY <3>1, <3>2 DEF Saved, Writers
    <3> QED  BY <3>1, <3>2, <3>3 DEF Search
  <2> QED  BY <2>1, <2>2
<1> QED  BY <1>1, <1>2, <1>3, <1>4 DEF DataInv, Bds, Keys, Writers

-----------------------------------------------------------------------------
(* The actions that give a buffer back *)

(* What is known of a user that owns a buffer. *)
LEMMA OwnFacts ==
    ASSUME Core, NEW u \in Users, pc[u] \in Own
    PROVE  /\ bd[u] # None /\ bd[u] \in Bds /\ bd[u] \in tree /\ bd[u] \in Valid
           /\ key[bd[u]] = want[u] /\ want[u] \in Keys /\ want[u][1] \in Devices
           /\ bd[u][1] \in Groups
           /\ state[bd[u]] \in InAccess \cup {"TRANSFER"} /\ state[bd[u]] \in UsesGroup
           /\ state[bd[u]] \notin {"FREE", "CACHED", "MODIFIED", "SYNC", "EMPTY"}
<1> USE CoreParts
<1>1. bd[u] # None  BY DEF UserInv
<1>2. state[bd[u]] \in InAccess \cup {"TRANSFER"}  BY DEF OwnInv, Own, Modifiable, InAccess
<1>3. state[bd[u]] \in UsesGroup  BY <1>2 DEF UsesGroup, InTransfer
<1>4. state[bd[u]] \notin {"FREE", "CACHED", "MODIFIED", "SYNC", "EMPTY"}  BY <1>2 DEF InAccess
<1> QED  BY <1>1, <1>2, <1>3, <1>4, BdFacts

(* rtems_bdbuf_release of an unmodified buffer keeps the invariant. *)
LEMMA ReleaseStep ==
    ASSUME Core, NEW u \in Users, Release(u)
    PROVE  Always' /\ OwnInv'
<1> USE CoreParts DEF bufvars, listvars, grpvars, waitvars, syncvars, swapvars, ravars, datavars, racevars
<1> DEFINE b == bd[u]
<1>pc. pc[u] = "hold" /\ lock = None /\ state[b] = "ACCESS_CACHED" /\ pc[u] \in Own
  BY DEF Release, Own
<1>same. UNCHANGED <<lock, key, hold, tree, modified, syncq, per, dsize, op, cv, ret,
                     synclock, sync_active, sync_device, sdone, wlist, wpc, spc, upd,
                     rachain, raevent, rapc, rabd, cur, dcur, lost, calls, fault, raced, resized, promised>>
  BY DEF Release
<1>b. b \in Bds /\ b \in Valid /\ state[b] \in UsesGroup  BY <1>pc, OwnFacts
<1>to. Gives(u) /\ UserTypes'
  <2>1. /\ pc' = Wake([pc EXCEPT ![u] = "idle"], Waker(bd[u], "access"))
        /\ bd' = [bd EXCEPT ![u] = None] /\ want' = [want EXCEPT ![u] = None]
    BY DEF Release, Idle
  <2> QED  BY <2>1, <1>same, ToGives
<1>s. OneState(b, "CACHED")  BY <1>b DEF Release, OneState, BufferTypes, States
<1>give. /\ LockInv' /\ UserInv' /\ TreeInv' /\ WriterInv' /\ EmptyInv' /\ SizeInv' /\ OwnInv'
         /\ \A w \in Writers : bd[u] \notin wlist[w]
  BY <1>pc, <1>to, <1>s, <1>same, GiveBack
<1>count. CountInv' /\ users' \in [Groups -> Int]
  <2>1. "CACHED" \notin UsesGroup  BY DEF UsesGroup, InAccess, InTransfer
  <2>2. users' = UsersLess({b})  BY DEF Release
  <2>3. pc[u] \notin {"sleep", "woken"}  BY <1>pc
  <2> QED  BY <2>1, <2>2, <2>3, <1>b, <1>to, <1>s, GiveCount
<1>bt. BufferTypes'  BY <1>s, <1>count, <1>same DEF BufferTypes, OneState
<1>tt. TaskTypes' /\ HistoryTypes'  BY <1>same DEF TaskTypes, HistoryTypes
<1>list. ListInv'
  <2>1. lru' = Append(lru, b)  BY DEF Release
  <2> HIDE DEF b
  <2>2. /\ Relisted(lru, lru', b, {"FREE", "CACHED"}, "CACHED")
        /\ Relisted(modified, modified', b, {"MODIFIED"}, "CACHED")
        /\ Relisted(syncq, syncq', b, {"SYNC"}, "CACHED")
    BY <2>1, <1>pc, <1>same DEF Relisted
  <2> QED  BY <2>2, <1>b, <1>s, <1>same, ListOne
<1>fault. FaultInv'  BY <1>same DEF FaultInv
<1>sync. SyncInv'  BY <1>b, <1>pc, <1>to, <1>s, <1>same, <1>give, GiveSync
<1>data. DataInv'
  <2>1. /\ state[bd[u]] \notin Dirty /\ state[bd[u]] \in Clean
        /\ "CACHED" \notin Dirty /\ key'[bd[u]] = key[bd[u]]
    BY <1>pc, <1>same DEF Clean, Dirty
  <2> QED  BY <2>1, <1>pc, <1>to, <1>s, <1>same, <1>give, GiveData
<1> QED
  BY <1>to, <1>bt, <1>tt, <1>give, <1>list, <1>count, <1>fault, <1>sync, <1>data DEF Always

(* Discarding the buffer that user u has *)
LEMMA DiscardStep ==
    ASSUME Core, NEW u \in Users, pc[u] \in {"hold", "reading"}, lock = None,
           state[bd[u]] \in {"ACCESS_EMPTY", "ACCESS_PURGED", "TRANSFER"},
           Discard({bd[u]}), users' = UsersLess({bd[u]}), Gives(u), UserTypes', TaskTypes',
           UNCHANGED <<lock, hold, modified, syncq, per, dsize, synclock, sync_active, sync_device,
                       sdone, wlist, wpc, spc, rapc, rabd, cur, dcur, lost, calls, raced, resized, promised>>
    PROVE  Always' /\ OwnInv'
<1> USE CoreParts
<1> DEFINE b == bd[u]
<1>pc. pc[u] \in Own /\ pc[u] \notin {"sleep", "woken"}  BY DEF Own
<1>b. b \in Bds /\ b \in Valid /\ state[b] \in UsesGroup /\ b \in tree
  BY <1>pc, OwnFacts
<1>1. PICK s \in {"FREE", "EMPTY"} : s = Discarded(b)  BY DEF Discarded
<1>d. /\ OneState(b, s) /\ fault' = fault
      /\ Relisted(lru, lru', b, {"FREE", "CACHED"}, s)
      /\ s = "FREE" => ~Waited(b)
      /\ s = "EMPTY" => Waited(b)
  BY <1>1, <1>b, DiscardOne
<1>give. /\ LockInv' /\ UserInv' /\ TreeInv' /\ WriterInv' /\ EmptyInv' /\ SizeInv' /\ OwnInv'
         /\ \A w \in Writers : bd[u] \notin wlist[w]
  BY <1>pc, <1>d, GiveBack
<1>count. CountInv' /\ users' \in [Groups -> Int]
  <2>1. s \notin UsesGroup  BY DEF UsesGroup, InAccess, InTransfer
  <2> QED  BY <2>1, <1>pc, <1>b, <1>d, GiveCount
<1>key. key' \in [Bds -> Keys \cup {None}] /\ tree' \subseteq Bds
  BY DEF Discard, Untree, BufferTypes
<1>bt. BufferTypes'  BY <1>d, <1>key, <1>count DEF BufferTypes, OneState
<1>tt. HistoryTypes'  BY DEF HistoryTypes
<1>list. ListInv'
  <2> HIDE DEF b
  <2>1. state[b] \in {"ACCESS_EMPTY", "ACCESS_PURGED", "TRANSFER"}  BY DEF b
  <2>2. /\ Relisted(modified, modified', b, {"MODIFIED"}, s)
        /\ Relisted(syncq, syncq', b, {"SYNC"}, s)
    BY <2>1 DEF Relisted
  <2> QED  BY <2>2, <1>b, <1>d, ListOne
<1>fault. FaultInv'  BY <1>d DEF FaultInv
<1>sync. SyncInv'  BY <1>b, <1>pc, <1>d, <1>give, GiveSync
<1>data. DataInv'
  <2>1. state[bd[u]] \notin Dirty /\ s \notin Dirty /\ s \notin Clean  BY DEF Clean, Dirty
  <2> QED  BY <2>1, <1>d, <1>give, GiveData
<1> QED
  BY <1>bt, <1>tt, <1>give, <1>list, <1>count, <1>fault, <1>sync, <1>data DEF Always

(* Releasing a purged or never filled buffer keeps the invariant. *)
LEMMA ReleaseDiscardStep ==
    ASSUME Core, NEW u \in Users, ReleaseDiscard(u)
    PROVE  Always' /\ OwnInv'
<1> USE CoreParts DEF bufvars, listvars, grpvars, waitvars, syncvars, swapvars, ravars, datavars, racevars
<1>same. UNCHANGED <<lock, hold, modified, syncq, per, dsize, op, cv, ret,
                     synclock, sync_active, sync_device, sdone, wlist, wpc, spc, upd,
                     rachain, raevent, rapc, rabd, cur, dcur, lost, calls, raced, resized, promised>>
  BY DEF ReleaseDiscard
<1>to. Gives(u) /\ UserTypes'
  <2>1. /\ pc' = Wake([pc EXCEPT ![u] = "idle"], Waker(bd[u], "access"))
        /\ bd' = [bd EXCEPT ![u] = None] /\ want' = [want EXCEPT ![u] = None]
    BY DEF ReleaseDiscard, Idle
  <2> QED  BY <2>1, <1>same, ToGives
<1>tt. TaskTypes'  BY <1>same DEF TaskTypes
<1> QED  BY <1>same, <1>to, <1>tt, DiscardStep DEF ReleaseDiscard

(* rtems_bdbuf_check_read_ahead_trigger puts a device on the read-ahead     *)
(* chain.                                                                   *)
LEMMA TriggerTypes ==
    ASSUME TaskTypes, NEW d \in Devices, Trigger(d)
    PROVE  rachain' \subseteq Devices /\ raevent' \in BOOLEAN
  BY DEF TaskTypes, Trigger

(* A failed read of rtems_bdbuf_read keeps the invariant: the buffer is     *)
(* discarded.                                                               *)
LEMMA ReadErrorStep ==
    ASSUME Core, NEW u \in Users, ReadError(u)
    PROVE  Always' /\ OwnInv'
<1> USE CoreParts DEF bufvars, listvars, grpvars, waitvars, syncvars, swapvars, ravars, datavars, racevars
<1>same. UNCHANGED <<lock, hold, modified, syncq, per, dsize, cv, ret,
                     synclock, sync_active, sync_device, sdone, wlist, wpc, spc, upd,
                     rapc, rabd, cur, dcur, lost, calls, raced, resized, promised>>
  BY DEF ReadError
<1>pc. pc[u] = "reading" /\ lock = None /\ pc[u] \in Own  BY DEF ReadError, Own
<1>state. state[bd[u]] = "TRANSFER"  BY <1>pc DEF OwnInv
<1>to. Gives(u) /\ UserTypes'
  <2>1. /\ pc' = Wake([pc EXCEPT ![u] = "idle"], Waker(bd[u], "transfer"))
        /\ bd' = [bd EXCEPT ![u] = None] /\ want' = [want EXCEPT ![u] = None]
        /\ op' = [op EXCEPT ![u] = None]
    BY DEF ReadError
  <2> QED  BY <2>1, <1>same, ToGives
<1>tt. TaskTypes'
  <2>1. want[u][1] \in Devices  BY <1>pc, OwnFacts
  <2>2. Trigger(want[u][1])  BY DEF ReadError
  <2>3. rachain' \subseteq Devices /\ raevent' \in BOOLEAN  BY <2>1, <2>2, TriggerTypes
  <2> QED  BY <1>same, <2>3 DEF TaskTypes
<1>d. Discard({bd[u]}) /\ users' = UsersLess({bd[u]})  BY DEF ReadError
<1> QED  BY <1>same, <1>pc, <1>state, <1>to, <1>tt, <1>d, DiscardStep

(* The modified buffer of user u goes to the list. *)
LEMMA ModifiedStep ==
    ASSUME Core, NEW u \in Users, pc[u] \in {"hold", "relock"}, lock = None,
           state[bd[u]] \in Modifiable, Modified(u),
           Fills(bd[u]),
           UNCHANGED <<lock, key, tree, lru, syncq, users, per, dsize, op, cv, ret>>,
           UNCHANGED <<synclock, sync_active, sync_device, sdone, wlist, wpc, spc, upd, rachain,
                       raevent, rapc, rabd, calls, fault, raced, resized>>
    PROVE  Always' /\ OwnInv'
<1> USE CoreParts
<1> DEFINE b == bd[u]
<1>pc. pc[u] \in Own /\ pc[u] \notin {"sleep", "woken"}  BY DEF Own
<1>b. b \in Bds /\ b \in Valid /\ state[b] \in UsesGroup /\ b \in tree
  BY <1>pc, OwnFacts
<1>to. Gives(u) /\ UserTypes'
  <2>1. /\ pc' = Wake([pc EXCEPT ![u] = "idle"], IF Waited(bd[u]) THEN {"access"} ELSE {})
        /\ bd' = [bd EXCEPT ![u] = None] /\ want' = [want EXCEPT ![u] = None]
    BY DEF Modified, Idle
  <2> QED  BY <2>1, ToGives
<1>s. OneState(b, "MODIFIED")  BY <1>b DEF Modified, OneState, BufferTypes, States
<1>give. /\ LockInv' /\ UserInv' /\ TreeInv' /\ WriterInv' /\ EmptyInv' /\ SizeInv' /\ OwnInv'
         /\ \A v \in Users \ {u} : bd[v] = bd[u] => Asleep(v)
         /\ \A w \in Writers : bd[u] \notin wlist[w]
  BY <1>pc, <1>to, <1>s, GiveBack
<1>count. CountInv'
  <2>1. "MODIFIED" \in UsesGroup  BY DEF UsesGroup
  <2> QED  BY <2>1, <1>pc, <1>b, <1>to, <1>s, GiveCount
<1>bt. BufferTypes'
  <2>1. hold' \in [Bds -> 0 .. Hold]
    <3>1. Hold \in 0 .. Hold  BY CacheAssumption
    <3> QED  BY <3>1 DEF Modified, BufferTypes
  <2> QED  BY <1>s, <2>1 DEF BufferTypes, OneState, Fills
<1>tt. TaskTypes' /\ HistoryTypes'  BY DEF TaskTypes, HistoryTypes, Fills
<1>list. ListInv'
  <2>1. modified' = Append(modified, b)  BY DEF Modified
  <2>2. state[b] \in {"ACCESS_CACHED", "ACCESS_MODIFIED", "ACCESS_EMPTY"}  BY DEF Modifiable
  <2> HIDE DEF b
  <2>3. /\ Relisted(lru, lru', b, {"FREE", "CACHED"}, "MODIFIED")
        /\ Relisted(modified, modified', b, {"MODIFIED"}, "MODIFIED")
        /\ Relisted(syncq, syncq', b, {"SYNC"}, "MODIFIED")
    BY <2>1, <2>2 DEF Relisted
  <2> QED  BY <2>3, <1>b, <1>s, ListOne
<1>fault. FaultInv'  BY DEF FaultInv
<1>sync. SyncInv'  BY <1>b, <1>pc, <1>to, <1>s, <1>give, GiveSync DEF Modifiable, Fills
<1>data. DataInv'
  <2>0. PICK c \in tree : c = bd[u]  BY <1>b
  <2>1. Saved(c)'  BY <1>s, <2>0 DEF Saved, OneState, Dirty
  <2>2. \A x \in Bds \ {c} : state'[x] = state[x]  BY <1>s, <2>0 DEF OneState
  <2>3. \A v \in Users : pc[v] \in {"synclock", "relock"} /\ bd[v] # c =>
                pc'[v] = pc[v] /\ bd'[v] = bd[v]
    BY <1>to, <2>0 DEF Gives
  <2>4. \A v \in Users : pc'[v] \in {"synclock", "relock"} =>
                pc[v] \in {"synclock", "relock"} /\ bd'[v] = bd[v] /\ bd[v] \in tree
    BY <1>to, OwnFacts DEF Gives, Own
  <2>5. tree \subseteq Bds  BY DEF BufferTypes
  <2> QED  BY <2>0, <2>1, <2>2, <2>3, <2>4, <2>5, <1>b, SaveData DEF Fills
<1> QED
  BY <1>to, <1>bt, <1>tt, <1>give, <1>list, <1>count, <1>fault, <1>sync, <1>data DEF Always

(* rtems_bdbuf_release_modified keeps the invariant: the contents are on    *)
(* the modified list.                                                       *)
LEMMA ReleaseModifiedStep ==
    ASSUME Core, NEW u \in Users, ReleaseModified(u)
    PROVE  Always' /\ OwnInv'
<1> USE DEF bufvars, listvars, grpvars, waitvars, syncvars, swapvars, ravars, datavars, racevars
<1>1. pc[u] = "hold" /\ lock = None /\ state[bd[u]] \in Modifiable  BY DEF ReleaseModified
<1>2. \E new \in NewContents(u) : Filled(u, new)  BY DEF ReleaseModified
<1>3. Fills(bd[u])  BY <1>1, <1>2, FilledFacts
<1>4. Modified(u)  BY DEF ReleaseModified
<1>5. UNCHANGED <<lock, key, tree, lru, syncq, users, per, dsize, op, cv, ret>>
  BY DEF ReleaseModified
<1>6. UNCHANGED <<synclock, sync_active, sync_device, sdone, wlist, wpc, spc, upd, rachain,
                  raevent, rapc, rabd, calls, fault, raced, resized>>
  BY DEF ReleaseModified
<1> QED  BY <1>1, <1>3, <1>4, <1>5, <1>6, ModifiedStep

(* The second half of a release that waited for the sync lock keeps the     *)
(* invariant: no purge has come between, so the buffer is still the user's  *)
(* and modifiable.                                                          *)
LEMMA ReleaseUnblockedStep ==
    ASSUME Core, NEW u \in Users, ReleaseUnblocked(u)
    PROVE  Always' /\ OwnInv'
<1> USE CoreParts DEF bufvars, listvars, grpvars, waitvars, syncvars, swapvars, ravars, datavars, racevars
<1>1. pc[u] = "relock" /\ lock = None  BY DEF ReleaseUnblocked
<1>2. state[bd[u]] \in Modifiable  BY <1>1 DEF OwnInv
<1>3. UNCHANGED <<cur, dcur, lost, promised>>  BY DEF ReleaseUnblocked
<1>4. Modified(u)  BY DEF ReleaseUnblocked
<1>5. UNCHANGED <<lock, key, tree, lru, syncq, users, per, dsize, op, cv, ret>>
  BY DEF ReleaseUnblocked
<1>6. UNCHANGED <<synclock, sync_active, sync_device, sdone, wlist, wpc, spc, upd, rachain,
                  raevent, rapc, rabd, calls, fault, raced, resized>>
  BY DEF ReleaseUnblocked
<1>7. cur'[bd[u]]  BY <1>1, <1>3 DEF DataInv
<1>8. Fills(bd[u])  BY <1>3, <1>7 DEF BufferTypes, Fills
<1> QED  BY <1>1, <1>2, <1>4, <1>5, <1>6, <1>8, ModifiedStep

-----------------------------------------------------------------------------
(* Steps of a user that keeps its buffer *)
Keeps(u, s) ==
    /\ pc' \in [Users -> UserPC] /\ pc'[u] \in Own \cup At \cup {"sleep", "woken"}
    /\ bd' = bd /\ want' = want
    /\ \A v \in Users \ {u} : /\ pc'[v] = pc[v] \/ (pc[v] = "sleep" /\ pc'[v] = "woken")
                              /\ ret'[v] = ret[v]
    /\ pc'[u] \in {"sleep", "woken"} => ret'[u] \in At
    /\ pc'[u] = "hold" => s \in InAccess
    /\ pc'[u] = "reading" => s = "TRANSFER"
    /\ pc'[u] \in {"synclock", "relock"} => s \in Modifiable

(* A step with which user u keeps, or takes, its buffer: nobody else owns   *)
(* it.                                                                      *)
LEMMA Keep ==
    ASSUME Core, NEW u \in Users, NEW b \in Bds, bd[u] = b, NEW s, s \notin {"FREE", "EMPTY"},
           pc[u] \in At \cup Own, OneState(b, s), Keeps(u, s),
           \A v \in Users \ {u} : bd[v] = b => pc[v] \notin Own,
           \/ resized
           \/ Fits(b) /\ pc'[u] # "recycle" /\ (pc'[u] \in {"sleep", "woken"} => ret'[u] # "recycle"),
           UNCHANGED <<per, dsize, resized>>
    PROVE  UserInv' /\ TreeInv' /\ EmptyInv' /\ SizeInv' /\ OwnInv'
<1> USE CoreParts
<1>b. b # None /\ b \in tree /\ key[b] = want[u] /\ want[u] \in Keys  BY BdsFacts, BdFacts
<1>one. /\ tree' = tree /\ key'[b] = key[b] /\ state'[b] = s
        /\ \A x \in Bds \ {b} : state'[x] = state[x] /\ key'[x] = key[x]
  BY DEF OneState
<1>u. /\ pc'[u] \notin {"idle", "find", "request", "event", "resize"}
      /\ pc'[u] \in {"sleep", "woken"} => ret'[u] \in Locked /\ ret'[u] # "find"
  BY DEF Keeps, Own, At, Locked
<1>v. \A v \in Users \ {u} : /\ pc'[v] \in {"sleep", "woken"} <=> pc[v] \in {"sleep", "woken"}
                             /\ pc'[v] \in Locked => pc[v] = pc'[v]
                             /\ pc[v] \in Locked => pc[v] = pc'[v]
                             /\ pc'[v] \notin {"sleep", "woken"} => pc'[v] = pc[v]
  BY DEF Keeps, Locked
<1>user. UserInv'
  <2>1. ASSUME NEW v \in Users, bd'[v] # None  PROVE bd'[v] \in tree' /\ key'[bd'[v]] = want'[v]
    <3>1. bd'[v] = bd[v] /\ want'[v] = want[v]  BY DEF Keeps
    <3>2. bd[v] \in tree /\ key[bd[v]] = want[v] /\ bd[v] \in Bds  BY <2>1, <3>1, BdFacts
    <3> QED  BY <3>1, <3>2, <1>one
  <2>2. ASSUME NEW v \in Users, v # u
        PROVE  /\ pc'[v] \in {"idle", "find", "request", "event", "resize"} => bd'[v] = None
               /\ pc'[v] \in Own \cup At => bd'[v] # None
               /\ pc'[v] = "find" => want'[v] \in Keys
               /\ pc'[v] \in {"request", "event", "resize"} => want'[v] \in Devices
               /\ Asleep(v)' => ret'[v] \in Locked /\ (bd'[v] = None <=> ret'[v] = "find") /\ want'[v] \in Keys
    BY <2>2, <1>v DEF Keeps, UserInv, Asleep, Own, At
  <2>3. /\ pc'[u] \notin {"idle", "find", "request", "event", "resize"} /\ bd'[u] # None
        /\ Asleep(u)' => ret'[u] \in Locked /\ (bd'[u] = None <=> ret'[u] = "find") /\ want'[u] \in Keys
    BY <1>b, <1>u DEF Keeps, Asleep
  <2>4. ASSUME NEW v \in Users
        PROVE  /\ bd'[v] # None => bd'[v] \in tree' /\ key'[bd'[v]] = want'[v]
               /\ pc'[v] \in {"idle", "find", "request", "event", "resize"} => bd'[v] = None
               /\ pc'[v] \in Own \cup At => bd'[v] # None
               /\ pc'[v] = "find" => want'[v] \in Keys
               /\ pc'[v] \in {"request", "event", "resize"} => want'[v] \in Devices
               /\ Asleep(v)' => ret'[v] \in Locked /\ (bd'[v] = None <=> ret'[v] = "find") /\ want'[v] \in Keys
    <3>1. CASE v = u  BY <3>1, <2>1, <2>3
    <3>2. CASE v # u  BY <3>2, <2>1, <2>2
    <3> QED  BY <3>1, <3>2
  <2> QED  BY <2>4 DEF UserInv, Asleep
<1>tree. TreeInv'  BY <1>b, TreeOne
<1>empty. EmptyInv'
  <2>1. SUFFICES ASSUME NEW x \in Bds, state'[x] = "EMPTY"
                 PROVE  \E v \in Users : bd'[v] = x /\ pc'[v] \in {"sleep", "woken"} \cup At
    BY DEF EmptyInv, Bds, Asleep, At
  <2>2. x # b /\ state[x] = "EMPTY"  BY <2>1, <1>one
  <2>3. PICK v \in Users : bd[v] = x /\ (Asleep(v) \/ pc[v] \in At)  BY <2>2 DEF EmptyInv
  <2>4. v # u /\ bd'[v] = x  BY <2>2, <2>3 DEF Keeps
  <2>5. pc'[v] \in {"sleep", "woken"} \cup At  BY <2>3, <2>4, <1>v DEF Asleep, At, Locked
  <2> QED  BY <2>4, <2>5
<1>size. SizeInv'
  <2>1. CASE resized  BY <2>1 DEF SizeInv
  <2>2. CASE ~resized
    <3>1. bd'[u] \in {b, None} /\ pc'[u] # "recycle" /\ Fits(b)  BY <2>2 DEF Keeps
    <3>2. \A v \in Users \ {u} : /\ bd'[v] = bd[v] /\ ret'[v] = ret[v]
                                 /\ pc'[v] \in {"sleep", "woken"} <=> pc[v] \in {"sleep", "woken"}
                                 /\ pc'[v] \in Locked => pc[v] = pc'[v]
                                 /\ pc[v] \in Locked => pc[v] = pc'[v]
                                 /\ bd[v] = b => b \in tree'
      BY <1>b, <1>one, <1>v DEF Keeps
    <3> QED  BY <2>2, <3>1, <3>2, <1>b, SizeOne
  <2> QED  BY <2>1, <2>2
<1>own. OwnInv'
  <2>1. ASSUME NEW v \in Users, v # u, pc'[v] \in Own
        PROVE  pc'[v] = pc[v] /\ bd'[v] = bd[v] /\ bd[v] # b /\ state'[bd[v]] = state[bd[v]]
    <3>1. pc'[v] = pc[v] /\ bd'[v] = bd[v] /\ bd[v] # b  BY <2>1 DEF Keeps, Own
    <3>2. bd[v] \in Bds  BY <2>1, <3>1, OwnFacts
    <3> QED  BY <3>1, <3>2, <1>one
  <2>2. ASSUME NEW v \in Users
        PROVE  /\ pc'[v] = "hold" => state'[bd'[v]] \in InAccess
               /\ pc'[v] = "reading" => state'[bd'[v]] = "TRANSFER"
               /\ pc'[v] \in {"synclock", "relock"} => state'[bd'[v]] \in Modifiable
    <3>1. CASE v = u  BY <3>1, <1>one DEF Keeps
    <3>2. CASE v # u  BY <3>2, <2>1 DEF OwnInv, Own
    <3> QED  BY <3>1, <3>2
  <2>3. \A v, x \in Users : pc'[v] \in Own /\ pc'[x] \in Own /\ bd'[v] = bd'[x] => v = x
    <3>1. bd'[u] = b  BY DEF Keeps
    <3> QED  BY <2>1, <3>1 DEF OwnInv
  <2> QED  BY <2>2, <2>3 DEF OwnInv
<1> QED  BY <1>user, <1>tree, <1>empty, <1>size, <1>own

(* rtems_bdbuf_group_obtain. *)
LEMMA UsersMoreTypes ==
    ASSUME BufferTypes, NEW h \in Groups, users' = [users EXCEPT ![h] = @ + 1]
    PROVE  /\ users' \in [Groups -> Int]
           /\ \A g \in Groups : users'[g] = users[g] + (IF g = h THEN 1 ELSE 0)
<1>1. users \in [Groups -> Int]  BY DEF BufferTypes
<1> QED  BY <1>1

(* Buffer b is taken from the cache. *)
LEMMA CountMore ==
    ASSUME CountInv, BufferTypes, NEW b \in Bds, users' = [users EXCEPT ![b[1]] = @ + 1],
           state[b] \notin UsesGroup, state'[b] \in UsesGroup,
           \A x \in Bds \ {b} : state'[x] \in UsesGroup <=> state[x] \in UsesGroup,
           \A g : Sleepers(pc', bd', g) = Sleepers(pc, bd, g)
    PROVE  CountInv' /\ users' \in [Groups -> Int]
<1>1. /\ users' \in [Groups -> Int]
      /\ \A g \in Groups : users'[g] = users[g] + (IF g = b[1] THEN 1 ELSE 0)
  BY BdsFacts, UsersMoreTypes
<1>2. ASSUME NEW g \in Groups
      PROVE  users'[g] = Cardinality(Busy(state', g)) + Cardinality(Sleepers(pc', bd', g))
  <2>1. users[g] = Cardinality(Busy(state, g)) + Cardinality(Sleepers(pc, bd, g))  BY DEF CountInv
  <2>2. Cardinality(Busy(state, g)) \in Nat /\ Cardinality(Sleepers(pc, bd, g)) \in Nat
    BY CountTypes
  <2>3. Cardinality(Busy(state', g)) = Cardinality(Busy(state, g)) + (IF g = b[1] THEN 1 ELSE 0)
    BY BusyMore
  <2> QED  BY <1>1, <2>1, <2>2, <2>3
<1> QED  BY <1>1, <1>2 DEF CountInv

(* The user counts are right as long as no buffer and no sleeper comes or   *)
(* goes.                                                                    *)
LEMMA CountSame ==
    ASSUME CountInv, users' = users,
           \A x \in Bds : state'[x] \in UsesGroup <=> state[x] \in UsesGroup,
           \A g : Sleepers(pc', bd', g) = Sleepers(pc, bd, g)
    PROVE  CountInv'
<1>1. \A g : Busy(state', g) = Busy(state, g)  BY BusySame
<1> QED  BY <1>1 DEF CountInv

(* A user that is not asleep before or after changes no set of sleepers. *)
LEMMA KeepSleepers ==
    ASSUME NEW u \in Users, NEW s, Keeps(u, s), pc[u] \notin {"sleep", "woken"}, pc'[u] \notin {"sleep", "woken"}
    PROVE  \A g : Sleepers(pc', bd', g) = Sleepers(pc, bd, g)
<1>1. \A v \in Users : /\ pc'[v] \in {"sleep", "woken"} <=> pc[v] \in {"sleep", "woken"}
                       /\ bd'[v] = bd[v]
  BY DEF Keeps
<1> QED  BY <1>1 DEF Sleepers

(* A user with a buffer has nothing to do with the requests of              *)
(* rtems_bdbuf_syncdev.                                                     *)
LEMMA KeepRequests ==
    ASSUME NEW u \in Users, NEW s, Keeps(u, s), pc[u] \in Own \cup At
    PROVE  \A v \in Users : /\ pc'[v] \in {"request", "event"} <=> pc[v] \in {"request", "event"}
                            /\ pc[v] = "event" => pc'[v] = "event"
<1>1. pc'[u] \notin {"request", "event"} /\ pc[u] \notin {"request", "event"}
  BY DEF Keeps, Own, At
<1>2. \A v \in Users \ {u} : /\ pc'[v] \in {"request", "event"} <=> pc[v] \in {"request", "event"}
                             /\ pc[v] = "event" => pc'[v] = "event"
  BY DEF Keeps
<1> QED  BY <1>1, <1>2

(* Giving back a modified buffer while its device is synchronized keeps the *)
(* invariant: the user owns the buffer while it waits for the sync lock.    *)
LEMMA ReleaseBlockedStep ==
    ASSUME Core, NEW u \in Users, ReleaseBlocked(u)
    PROVE  Always' /\ OwnInv'
<1> USE CoreParts DEF bufvars, listvars, grpvars, waitvars, syncvars, swapvars, ravars, datavars, racevars
<1>pc. /\ pc[u] = "hold" /\ lock = None /\ state[bd[u]] \in Modifiable
       /\ pc[u] \in Own /\ pc[u] \notin {"sleep", "woken"}
  BY DEF ReleaseBlocked, Own
<1>b. PICK b \in Bds : b = bd[u] /\ b \in tree  BY <1>pc, OwnFacts
<1>same. UNCHANGED <<lock, state, key, hold, tree, lru, modified, syncq, users, per, dsize, op, want,
                     bd, cv, ret, synclock, sync_active, sync_device, sdone, wlist, wpc, spc, upd,
                     rachain, raevent, rapc, rabd, calls, fault, raced, resized>>
  BY DEF ReleaseBlocked
<1>cur. Fills(bd[u])
  <2>1. \E new \in NewContents(u) : Filled(u, new)  BY DEF ReleaseBlocked
  <2> QED  BY <1>pc, <2>1, FilledFacts
<1>to. /\ pc' \in [Users -> UserPC] /\ pc'[u] = "synclock"
       /\ \A v \in Users \ {u} : pc'[v] = pc[v]
  BY DEF ReleaseBlocked, UserTypes, UserPC
<1>keeps. Keeps(u, state[b]) /\ pc'[u] \notin {"sleep", "woken"} /\ pc'[u] # "recycle"
  BY <1>to, <1>pc, <1>same, <1>b DEF Keeps, Own
<1>one. OneState(b, state[b]) /\ state[b] \notin {"FREE", "EMPTY"}
  BY <1>pc, <1>same, <1>b DEF OneState, BufferTypes, Modifiable
<1>own. \A v \in Users \ {u} : bd[v] = b => pc[v] \notin Own  BY <1>pc, <1>b DEF OwnInv
<1>fits. resized \/ Fits(b)  BY <1>one, <1>b DEF SizeInv
<1>keep. UserInv' /\ TreeInv' /\ EmptyInv' /\ SizeInv' /\ OwnInv'
  BY <1>pc, <1>b, <1>same, <1>keeps, <1>one, <1>own, <1>fits, Keep
<1>ut. UserTypes' /\ TaskTypes' /\ HistoryTypes'
  BY <1>to, <1>same, <1>cur DEF UserTypes, TaskTypes, HistoryTypes, Fills
<1>bt. BufferTypes'  BY <1>cur, <1>same DEF BufferTypes, Fills
<1>lock. LockInv'
  <2>1. \A v \in Users : pc'[v] \in Locked <=> pc[v] \in Locked  BY <1>to, <1>pc DEF Locked
  <2> QED  BY <2>1, <1>same DEF LockInv
<1>list. ListInv'  BY <1>same, ListFrame
<1>writer. WriterInv'
  <2>1. \A v \in Users : pc'[v] = "reading" => pc[v] = "reading" /\ bd'[v] = bd[v]
    BY <1>to, <1>same
  <2> QED  BY <2>1, <1>same, WriterFrame DEF WriterInv
<1>count. CountInv'
  <2>1. \A g : Sleepers(pc', bd', g) = Sleepers(pc, bd, g)  BY <1>keeps, <1>pc, KeepSleepers
  <2> QED  BY <2>1, <1>same, CountSame
<1>fault. FaultInv'  BY <1>same DEF FaultInv
<1>sync. SyncInv'
  <2>1. \A v \in Users : /\ pc'[v] \in {"request", "event"} <=> pc[v] \in {"request", "event"}
                         /\ pc[v] = "event" => pc'[v] = "event"
    BY <1>keeps, <1>pc, KeepRequests
  <2>2. \A x \in tree : key[x] \in promised' /\ Unwritten(x) =>
          x \in tree' /\ key'[x] = key[x] /\ Unwritten(x)'
    BY <1>same DEF Unwritten
  <2> QED  BY <2>1, <2>2, <1>same, <1>cur, SyncFrame DEF Fills
<1>data. DataInv'
  <2>1. Saved(b)'  BY <1>b, <1>same, <1>to DEF Saved
  <2>2. \A v \in Users : pc'[v] \in {"synclock", "relock"} => bd'[v] = b \/
                (pc[v] \in {"synclock", "relock"} /\ bd'[v] = bd[v] /\ bd[v] \in tree)
    BY <1>b, <1>same, <1>to, OwnFacts DEF Own
  <2>3. \A v \in Users : pc[v] \in {"synclock", "relock"} /\ bd[v] # b =>
                pc'[v] = pc[v] /\ bd'[v] = bd[v]
    BY <1>b, <1>same, <1>to
  <2> QED  BY <2>1, <2>2, <2>3, <1>b, <1>same, <1>cur, SaveData DEF Fills
<1> QED
  BY <1>ut, <1>bt, <1>keep, <1>lock, <1>list, <1>writer, <1>count, <1>fault, <1>sync, <1>data
     DEF Always

(* rtems_bdbuf_sync putting its buffer on the sync list keeps the           *)
(* invariant.                                                               *)
LEMMA SyncStep ==
    ASSUME Core, NEW u \in Users, Sync(u)
    PROVE  Always' /\ OwnInv'
<1> USE CoreParts DEF bufvars, listvars, grpvars, waitvars, syncvars, swapvars, ravars, datavars, racevars
<1>pc. /\ pc[u] = "hold" /\ lock = None /\ state[bd[u]] \in Modifiable
       /\ pc[u] \in Own /\ pc[u] \notin {"sleep", "woken"}
  BY DEF Sync, Own
<1>b. PICK b \in Bds : b = bd[u] /\ b \in tree /\ b \in Valid /\ b[1] \in Groups /\ b # None
                       /\ state[b] \in UsesGroup /\ state[b] \notin {"FREE", "CACHED", "MODIFIED", "SYNC", "EMPTY"}
  BY <1>pc, OwnFacts
<1>same. UNCHANGED <<lock, key, hold, tree, lru, modified, per, dsize, op, want, bd,
                     synclock, sync_active, sync_device, sdone, wlist, wpc, spc, upd,
                     rachain, raevent, rapc, rabd, calls, fault, raced, resized>>
  BY DEF Sync
<1>cur. Fills(bd[u])
  <2>1. \E new \in NewContents(u) : Filled(u, new)  BY DEF Sync
  <2> QED  BY <1>pc, <2>1, FilledFacts
<1>to. /\ pc' \in [Users -> UserPC] /\ pc'[u] \in {"sleep", "woken"}
       /\ \A v \in Users \ {u} : pc'[v] = pc[v] \/ (pc[v] = "sleep" /\ pc'[v] = "woken")
  <2>1. pc' = Wake([pc EXCEPT ![u] = "sleep"], IF Waited(bd[u]) THEN {"access"} ELSE {})
    BY DEF Sync
  <2>2. "sleep" \in UserPC  BY DEF UserPC
  <2> QED  BY <2>1, <2>2, WakeTo DEF To
<1>w. /\ cv' \in [Users -> {None, "access", "transfer", "buffer"}]
      /\ ret' \in [Users -> {None, "find", "access", "recycle", "syncwait"}]
      /\ ret'[u] = "syncwait" /\ \A v \in Users \ {u} : ret'[v] = ret[v]
  BY DEF Sync, UserTypes
<1>s. state' = [state EXCEPT ![b] = "SYNC"] /\ syncq' = Append(syncq, b)
      /\ users' = [users EXCEPT ![b[1]] = @ + 1]
  BY <1>b DEF Sync
<1>keeps. Keeps(u, "SYNC")
  BY <1>to, <1>w, <1>same DEF Keeps, Own, At
<1>one. OneState(b, "SYNC")  BY <1>s, <1>same DEF OneState, BufferTypes, States, InTransfer
<1>own. \A v \in Users \ {u} : bd[v] = b => pc[v] \notin Own  BY <1>pc, <1>b DEF OwnInv
<1>fits. resized \/ (Fits(b) /\ pc'[u] # "recycle" /\ (pc'[u] \in {"sleep", "woken"} => ret'[u] # "recycle"))
  BY <1>b, <1>to, <1>w DEF SizeInv
<1>keep. UserInv' /\ TreeInv' /\ EmptyInv' /\ SizeInv' /\ OwnInv'
  BY <1>pc, <1>b, <1>same, <1>keeps, <1>one, <1>own, <1>fits, Keep
<1>ut. UserTypes' /\ TaskTypes' /\ HistoryTypes'
  BY <1>to, <1>w, <1>same, <1>cur DEF UserTypes, TaskTypes, HistoryTypes, Fills
<1>users. /\ users' \in [Groups -> Int]
          /\ \A g \in Groups : users'[g] = users[g] + (IF g = b[1] THEN 1 ELSE 0)
  BY <1>s, <1>b, UsersMoreTypes
<1>bt. BufferTypes'  BY <1>cur, <1>same, <1>one, <1>users DEF BufferTypes, OneState, Fills
<1>lock. LockInv'
  <2>1. \A v \in Users : pc'[v] \in Locked <=> pc[v] \in Locked  BY <1>to, <1>pc DEF Locked
  <2> QED  BY <2>1, <1>same DEF LockInv
<1>list. ListInv'
  <2>1. /\ Relisted(lru, lru', b, {"FREE", "CACHED"}, "SYNC")
        /\ Relisted(modified, modified', b, {"MODIFIED"}, "SYNC")
        /\ Relisted(syncq, syncq', b, {"SYNC"}, "SYNC")
    BY <1>b, <1>s, <1>same DEF Relisted
  <2> QED  BY <2>1, <1>b, <1>one, <1>same, ListOne
<1>nm. (\A w \in Writers : b \notin wlist[w]) /\ (rapc = "reading" => b # rabd)
  BY <1>pc, <1>b, NotMoving DEF Modifiable, Moving
<1>writer. WriterInv'
  <2>1. \A v \in Users : pc'[v] = "reading" => pc[v] = "reading" /\ bd'[v] = bd[v]
    BY <1>to, <1>same
  <2> QED  BY <2>1, <1>nm, <1>one, <1>same, WriterOne
<1>count. CountInv'
  <2>1. \A g : Busy(state', g) = Busy(state, g)
    BY <1>b, <1>s, BusySame DEF BufferTypes, UsesGroup, InTransfer
  <2>2. ASSUME NEW g  PROVE Cardinality(Sleepers(pc', bd', g)) =
             Cardinality(Sleepers(pc, bd, g)) + (IF g = b[1] THEN 1 ELSE 0)
    <3>1. \A v \in Users \ {u} : /\ pc'[v] \in {"sleep", "woken"} <=> pc[v] \in {"sleep", "woken"}
                                 /\ bd'[v] = bd[v]
      BY <1>to, <1>same
    <3>2. bd'[u] = b  BY <1>b, <1>same
    <3> QED  BY <3>1, <3>2, <1>b, <1>pc, <1>to, SleepersMore
  <2>3. ASSUME NEW g \in Groups
        PROVE  users'[g] = Cardinality(Busy(state', g)) + Cardinality(Sleepers(pc', bd', g))
    <3>1. users[g] = Cardinality(Busy(state, g)) + Cardinality(Sleepers(pc, bd, g))
      BY DEF CountInv
    <3>2. Cardinality(Busy(state, g)) \in Nat /\ Cardinality(Sleepers(pc, bd, g)) \in Nat
      BY CountTypes
    <3> QED  BY <3>1, <3>2, <2>1, <2>2, <1>users
  <2> QED  BY <2>3 DEF CountInv
<1>fault. FaultInv'  BY <1>same DEF FaultInv
<1>sync. SyncInv'
  <2>1. \A v \in Users : /\ pc'[v] \in {"request", "event"} <=> pc[v] \in {"request", "event"}
                         /\ pc[v] = "event" => pc'[v] = "event"
    BY <1>keeps, <1>pc, KeepRequests
  <2> QED  BY <2>1, <1>same, <1>cur, <1>one, SyncOne DEF Fills
<1>data. DataInv'
  <2>1. Saved(b)'  BY <1>one DEF Saved, OneState, Dirty
  <2>2. \A v \in Users : pc'[v] \in {"synclock", "relock"} =>
                pc[v] \in {"synclock", "relock"} /\ bd'[v] = bd[v] /\ bd[v] \in tree
    BY <1>same, <1>to, OwnFacts DEF Own
  <2>3. \A v \in Users : pc[v] \in {"synclock", "relock"} /\ bd[v] # b =>
                pc'[v] = pc[v] /\ bd'[v] = bd[v]
    BY <1>b, <1>same, <1>to
  <2>4. \A x \in Bds \ {b} : state'[x] = state[x]  BY <1>one DEF OneState
  <2>5. tree \subseteq Bds  BY DEF BufferTypes
  <2> QED  BY <2>1, <2>2, <2>3, <2>4, <2>5, <1>b, <1>same, <1>cur, SaveData DEF Fills
<1> QED
  BY <1>ut, <1>bt, <1>keep, <1>lock, <1>list, <1>writer, <1>count, <1>fault, <1>sync, <1>data
     DEF Always

(* rtems_bdbuf_wait_for_recycle sending a modified buffer of the wrong size *)
(* to the sync list keeps the invariant.                                    *)
LEMMA RecycleSyncStep ==
    ASSUME Core, NEW u \in Users, RecycleSync(u)
    PROVE  Always' /\ OwnInv'
<1> USE CoreParts DEF bufvars, listvars, grpvars, waitvars, syncvars, swapvars, ravars, datavars, racevars
<1>pc. pc[u] = "recycle" /\ state[bd[u]] = "MODIFIED" /\ pc[u] \in At /\ bd[u] # None
  BY DEF RecycleSync, At, UserInv
<1>b. PICK b \in Bds : b = bd[u] /\ b \in tree /\ b \in Valid /\ b[1] \in Groups
  BY <1>pc, BdFacts
<1>same. UNCHANGED <<lock, key, hold, tree, lru, users, per, dsize, pc, op, want, bd, cv, ret,
                     synclock, sync_active, sync_device, sdone, wlist, wpc, spc, upd,
                     rachain, raevent, rapc, rabd, cur, dcur, lost, calls, fault, raced, resized, promised>>
  BY DEF RecycleSync
<1>s. /\ state' = [state EXCEPT ![b] = "SYNC"] /\ syncq' = Append(syncq, b)
      /\ modified' = Without(modified, {b})
  BY <1>b DEF RecycleSync
<1>keeps. Keeps(u, "SYNC")  BY <1>pc, <1>same DEF Keeps, Own, At, UserTypes
<1>one. OneState(b, "SYNC")  BY <1>s, <1>same DEF OneState, BufferTypes, States, InTransfer
<1>own. \A v \in Users \ {u} : bd[v] = b => pc[v] \notin Own
  BY <1>pc, <1>b, NotOwned DEF InAccess
<1>fits. resized  BY <1>pc, <1>b DEF SizeInv
<1>keep. UserInv' /\ TreeInv' /\ EmptyInv' /\ SizeInv' /\ OwnInv'
  BY <1>pc, <1>b, <1>same, <1>keeps, <1>one, <1>own, <1>fits, Keep
<1>ut. UserTypes' /\ TaskTypes' /\ HistoryTypes'
  BY <1>same DEF UserTypes, TaskTypes, HistoryTypes
<1>bt. BufferTypes'  BY <1>same, <1>one DEF BufferTypes, OneState
<1>lock. LockInv'  BY <1>same DEF LockInv
<1>list. ListInv'
  <2>1. /\ Relisted(lru, lru', b, {"FREE", "CACHED"}, "SYNC")
        /\ Relisted(modified, modified', b, {"MODIFIED"}, "SYNC")
        /\ Relisted(syncq, syncq', b, {"SYNC"}, "SYNC")
    BY <1>pc, <1>b, <1>s, <1>same DEF Relisted
  <2> QED  BY <2>1, <1>b, <1>one, <1>same, ListOne
<1>nm. (\A w \in Writers : b \notin wlist[w]) /\ (rapc = "reading" => b # rabd)
  BY <1>pc, <1>b, NotMoving DEF Moving
<1>writer. WriterInv'
  <2>1. \A v \in Users : pc'[v] = "reading" => pc[v] = "reading" /\ bd'[v] = bd[v]  BY <1>same
  <2> QED  BY <2>1, <1>nm, <1>one, <1>same, WriterOne
<1>count. CountInv'
  <2>1. \A x \in Bds : state'[x] \in UsesGroup <=> state[x] \in UsesGroup
    BY <1>b, <1>pc, <1>s DEF BufferTypes, UsesGroup, InTransfer
  <2>2. \A g : Sleepers(pc', bd', g) = Sleepers(pc, bd, g)  BY <1>same
  <2> QED  BY <2>1, <2>2, <1>same, CountSame
<1>fault. FaultInv'  BY <1>same DEF FaultInv
<1>sync. SyncInv'  BY <1>same, <1>one, SyncOne
<1>data. DataInv'
  <2>1. \A x \in tree : Saved(x) => x \in tree' /\ key'[x] = key[x] /\ Saved(x)'
    <3> SUFFICES ASSUME NEW x \in tree, Saved(x)  PROVE Saved(x)'
      BY <1>same
    <3>1. x \in Bds  BY DEF BufferTypes
    <3> QED  BY <3>1, <1>one, <1>same DEF Saved, OneState, Writers, Dirty
  <2>2. /\ \A x \in Bds : state'[x] \in Clean => state[x] \in Clean
        /\ \A x \in Bds : state'[x] \in Dirty => state[x] \in Dirty
    BY <1>one, <1>pc, <1>b DEF OneState, Clean, Dirty
  <2> QED  BY <2>1, <2>2, <1>same, DataFrame
<1> QED
  BY <1>ut, <1>bt, <1>keep, <1>lock, <1>list, <1>writer, <1>count, <1>fault, <1>sync, <1>data
     DEF Always

-----------------------------------------------------------------------------
(* Taking the buffer: it is in no use and not being moved. *)

(* What is known of a user that has found its buffer and has the mutex. *)
LEMMA AtFacts ==
    ASSUME Core, NEW u \in Users, pc[u] \in At
    PROVE  /\ bd[u] # None /\ bd[u] \in Bds /\ bd[u] \in tree /\ bd[u] \in Valid /\ bd[u][1] \in Groups
           /\ key[bd[u]] = want[u] /\ want[u] \in Keys /\ want[u][1] \in Devices
           /\ state[bd[u]] # "FREE"
           /\ lock = u /\ rapc # "loop" /\ pc[u] \notin {"sleep", "woken"}
           /\ \A v \in Users \ {u} : pc[v] \notin Locked
<1> USE CoreParts
<1>1. bd[u] # None  BY DEF UserInv
<1>2. pc[u] \in Locked /\ pc[u] \notin {"sleep", "woken"}  BY DEF At, Locked
<1> QED  BY <1>1, <1>2, BdFacts, LockFacts

(* The mutex is given up by the user that had it. *)
LEMMA Unlocked ==
    ASSUME Core, NEW u \in Users, pc[u] \in Locked, lock' = None, rapc' = rapc, pc'[u] \notin Locked,
           \A v \in Users \ {u} : pc'[v] = pc[v] \/ pc'[v] \notin Locked
    PROVE  LockInv'
<1> USE CoreParts
<1>1. rapc # "loop" /\ \A v \in Users \ {u} : pc[v] \notin Locked  BY LockFacts
<1>2. \A v \in Users : pc'[v] \notin Locked  BY <1>1
<1> QED  BY <1>1, <1>2, NoneAssumption DEF LockInv, RA

(* Taking a buffer that is in no use and not being moved makes user u its   *)
(* owner (rtems_bdbuf_get, rtems_bdbuf_read).                               *)
LEMMA TakeStep ==
    ASSUME Core, NEW u \in Users, NEW b \in Bds, bd[u] = b, NEW s, pc[u] = "access",
           state[b] \in {"MODIFIED", "CACHED", "EMPTY"},
           \/ state[b] = "MODIFIED" /\ s = "ACCESS_MODIFIED" /\ pc'[u] = "hold" /\ users' = users
           \/ state[b] = "CACHED" /\ s = "ACCESS_CACHED" /\ pc'[u] = "hold"
                /\ users' = [users EXCEPT ![b[1]] = @ + 1]
           \/ state[b] = "EMPTY" /\ s = "ACCESS_EMPTY" /\ pc'[u] = "hold"
                /\ users' = [users EXCEPT ![b[1]] = @ + 1]
           \/ state[b] = "EMPTY" /\ s = "TRANSFER" /\ pc'[u] = "reading"
                /\ users' = [users EXCEPT ![b[1]] = @ + 1],
           state' = [state EXCEPT ![b] = s], pc' = [pc EXCEPT ![u] = pc'[u]],
           \/ lru' = Without(lru, {b}) /\ modified' = Without(modified, {b})
           \/ UNCHANGED <<lru, modified>> /\ state[b] = "EMPTY",
           op' \in [Users -> {None, "get", "read", "syncdev", "resize"}], lock' = None,
           promised' = promised \ {key[b]} \/ (promised' = promised /\ state[b] = "EMPTY"),
           rachain' \subseteq Devices, raevent' \in BOOLEAN,
           UNCHANGED <<key, hold, tree, syncq, per, dsize, want, bd, cv, ret>>,
           UNCHANGED <<synclock, sync_active, sync_device, sdone, wlist, wpc, spc, upd, rapc, rabd,
                       cur, dcur, lost, calls, fault, raced, resized>>
    PROVE  Always' /\ OwnInv'
<1> USE CoreParts
<1>pc. pc[u] \in At /\ pc[u] \in Locked /\ pc'[u] \in {"hold", "reading"} /\ pc[u] \notin {"sleep", "woken"}
  BY DEF At, Locked
<1>b. b \in tree /\ b \in Valid /\ b[1] \in Groups  BY <1>pc, AtFacts
<1>s. s \in {"ACCESS_MODIFIED", "ACCESS_CACHED", "ACCESS_EMPTY", "TRANSFER"}  OBVIOUS
<1>to. /\ pc' \in [Users -> UserPC]
       /\ \A v \in Users \ {u} : pc'[v] = pc[v]
  BY <1>pc DEF UserTypes, UserPC
<1>keeps. Keeps(u, s) /\ pc'[u] \notin {"sleep", "woken", "recycle"}
  BY <1>to, <1>pc DEF Keeps, Own, InAccess
<1>one. OneState(b, s)  BY <1>s DEF OneState, BufferTypes, States, InTransfer, InAccess
<1>own. \A v \in Users \ {u} : bd[v] = b => pc[v] \notin Own
  BY NotOwned DEF InAccess
<1>fits. resized \/ Fits(b)
  <2>1. ~Syncing(u) /\ pc[u] # "recycle"  BY <1>pc DEF Syncing, Asleep
  <2> QED  BY <2>1, <1>b DEF SizeInv
<1>keep. UserInv' /\ TreeInv' /\ EmptyInv' /\ SizeInv' /\ OwnInv'
  BY <1>pc, <1>b, <1>s, <1>keeps, <1>one, <1>own, <1>fits, Keep
<1>ut. UserTypes' /\ TaskTypes' /\ HistoryTypes'
  BY <1>to DEF UserTypes, TaskTypes, HistoryTypes
<1>lock. LockInv'
  <2>1. pc'[u] \notin Locked  BY <1>pc DEF Locked
  <2> QED  BY <2>1, <1>pc, <1>to, Unlocked
<1>list. ListInv'
  <2>1. /\ Relisted(lru, lru', b, {"FREE", "CACHED"}, s)
        /\ Relisted(modified, modified', b, {"MODIFIED"}, s)
        /\ Relisted(syncq, syncq', b, {"SYNC"}, s)
    BY <1>s DEF Relisted
  <2> QED  BY <2>1, <1>b, <1>one, ListOne
<1>nm. (\A w \in Writers : b \notin wlist[w]) /\ (rapc = "reading" => b # rabd)
  BY NotMoving DEF Moving
<1>writer. WriterInv'
  <2>1. \A v \in Users : pc'[v] = "reading" => (pc[v] = "reading" /\ bd'[v] = bd[v]) \/ bd'[v] = b
    BY <1>to
  <2> QED  BY <2>1, <1>nm, <1>one, WriterOne
<1>count. CountInv' /\ users' \in [Groups -> Int]
  <2>1. \A g : Sleepers(pc', bd', g) = Sleepers(pc, bd, g)  BY <1>keeps, <1>pc, KeepSleepers
  <2>2. state'[b] = s /\ \A x \in Bds \ {b} : state'[x] = state[x]  BY <1>one DEF OneState
  <2>3. s \in UsesGroup  BY <1>s DEF UsesGroup, InAccess, InTransfer
  <2>4. CASE state[b] = "MODIFIED" /\ users' = users
    <3>1. \A x \in Bds : state'[x] \in UsesGroup <=> state[x] \in UsesGroup
      BY <2>2, <2>3, <2>4 DEF UsesGroup
    <3> QED  BY <3>1, <2>1, <2>4, CountSame DEF BufferTypes
  <2>5. CASE state[b] \in {"CACHED", "EMPTY"} /\ users' = [users EXCEPT ![b[1]] = @ + 1]
    <3>1. state[b] \notin UsesGroup  BY <2>5 DEF UsesGroup, InAccess, InTransfer
    <3>2. state'[b] \in UsesGroup  BY <2>2, <2>3
    <3>3. \A x \in Bds \ {b} : state'[x] \in UsesGroup <=> state[x] \in UsesGroup  BY <2>2
    <3>4. users' = [users EXCEPT ![b[1]] = @ + 1]  BY <2>5
    <3> HIDE DEF UsesGroup
    <3> QED  BY <3>1, <3>2, <3>3, <3>4, <2>1, CountMore
  <2> QED  BY <2>4, <2>5
<1>bt. BufferTypes'  BY <1>one, <1>count DEF BufferTypes, OneState
<1>fault. FaultInv'  BY DEF FaultInv
<1>sync. SyncInv'
  <2>1. \A v \in Users : /\ pc'[v] \in {"request", "event"} <=> pc[v] \in {"request", "event"}
                         /\ pc[v] = "event" => pc'[v] = "event"
    BY <1>keeps, <1>pc, KeepRequests
  <2> QED  BY <2>1, <1>nm, <1>one, SyncOne
<1>data. DataInv'
  <2>1. \A x \in tree : Saved(x) => x \in tree' /\ key'[x] = key[x] /\ Saved(x)'
    <3> SUFFICES ASSUME NEW x \in tree, Saved(x)  PROVE Saved(x)'
      OBVIOUS
    <3>1. x \in Bds  BY DEF BufferTypes
    <3>2. \A v \in Users : pc[v] \in {"synclock", "relock"} => pc'[v] = pc[v]  BY <1>to, <1>pc
    <3> QED  BY <3>1, <3>2, <1>one DEF Saved, OneState, Writers, Dirty
  <2>2. /\ \A x \in Bds : state'[x] \in Clean => state[x] \in Clean
        /\ \A x \in Bds : state'[x] \in Dirty => state[x] \in Dirty
    BY <1>one DEF OneState, Clean, Dirty
  <2>3. \A v \in Users : pc'[v] \in {"synclock", "relock"} => pc[v] \in {"synclock", "relock"}
    BY <1>to, <1>pc
  <2> QED  BY <2>1, <2>2, <2>3, DataFrame
<1> QED
  BY <1>ut, <1>bt, <1>keep, <1>lock, <1>list, <1>writer, <1>count, <1>fault, <1>sync, <1>data
     DEF Always

(* rtems_bdbuf_get and rtems_bdbuf_read taking a buffer from the cache keep *)
(* the invariant.                                                           *)
LEMMA AccessTakeStep ==
    ASSUME Core, NEW u \in Users, AccessTake(u)
    PROVE  Always' /\ OwnInv'
<1> USE CoreParts DEF bufvars, listvars, grpvars, waitvars, syncvars, swapvars, ravars, datavars, racevars
<1>1. pc[u] = "access" /\ pc[u] \in At  BY DEF AccessTake, At
<1>b. PICK b \in Bds : b = bd[u]  BY <1>1, AtFacts
<1>2. state[b] \in {"MODIFIED", "CACHED", "EMPTY"} /\ state' = [state EXCEPT ![b] = AccessState[state[b]]]
  BY <1>b DEF AccessTake, AccessState
<1>3. /\ users' = IF state[b] = "MODIFIED" THEN users ELSE [users EXCEPT ![b[1]] = @ + 1]
      /\ lru' = Without(lru, {b}) /\ modified' = Without(modified, {b})
      /\ promised' = promised \ {key[b]} /\ lock' = None /\ pc' = [pc EXCEPT ![u] = "hold"]
  BY <1>b DEF AccessTake
<1>4. pc'[u] = "hold" /\ pc' = [pc EXCEPT ![u] = pc'[u]]  BY <1>3 DEF UserTypes
<1>5. op' \in [Users -> {None, "get", "read", "syncdev", "resize"}]  BY DEF AccessTake, UserTypes
<1>6. rachain' \subseteq Devices /\ raevent' \in BOOLEAN
  <2>1. want[u][1] \in Devices  BY <1>1, AtFacts
  <2>2. Trigger(want[u][1]) \/ UNCHANGED <<rachain, raevent>>  BY DEF AccessTake
  <2> QED  BY <2>1, <2>2, TriggerTypes DEF TaskTypes
<1>7. UNCHANGED <<key, hold, tree, syncq, per, dsize, want, bd, cv, ret>>  BY DEF AccessTake
<1>8. UNCHANGED <<synclock, sync_active, sync_device, sdone, wlist, wpc, spc, upd, rapc, rabd,
                  cur, dcur, lost, calls, fault, raced, resized>>
  BY DEF AccessTake
<1>9. \/ state[b] = "MODIFIED" /\ AccessState[state[b]] = "ACCESS_MODIFIED"
      \/ state[b] = "CACHED" /\ AccessState[state[b]] = "ACCESS_CACHED"
      \/ state[b] = "EMPTY" /\ AccessState[state[b]] = "ACCESS_EMPTY"
  BY <1>2 DEF AccessState
<1> QED  BY <1>1, <1>b, <1>2, <1>3, <1>4, <1>5, <1>6, <1>7, <1>8, <1>9, TakeStep

(* rtems_bdbuf_read starting its transfer keeps the invariant: no task      *)
(* moves the same buffer.                                                   *)
LEMMA AccessReadStep ==
    ASSUME Core, NEW u \in Users, AccessRead(u)
    PROVE  Always' /\ OwnInv'
<1> USE CoreParts DEF bufvars, listvars, grpvars, waitvars, syncvars, swapvars, ravars, datavars, racevars
<1>1. pc[u] = "access" /\ pc[u] \in At  BY DEF AccessRead, At
<1>b. PICK b \in Bds : b = bd[u]  BY <1>1, AtFacts
<1>2. state[b] = "EMPTY" /\ state' = [state EXCEPT ![b] = "TRANSFER"]  BY <1>b DEF AccessRead
<1>3. /\ users' = [users EXCEPT ![b[1]] = @ + 1]
      /\ lock' = None /\ pc' = [pc EXCEPT ![u] = "reading"]
  BY <1>b DEF AccessRead
<1>4. pc'[u] = "reading" /\ pc' = [pc EXCEPT ![u] = pc'[u]]  BY <1>3 DEF UserTypes
<1>5. op' \in [Users -> {None, "get", "read", "syncdev", "resize"}]  BY DEF AccessRead, UserTypes
<1>6. rachain' \subseteq Devices /\ raevent' \in BOOLEAN  BY DEF AccessRead, TaskTypes
<1>7. UNCHANGED <<key, hold, tree, syncq, per, dsize, want, bd, cv, ret>>  BY DEF AccessRead
<1>8. UNCHANGED <<synclock, sync_active, sync_device, sdone, wlist, wpc, spc, upd, rapc, rabd,
                  cur, dcur, lost, calls, fault, raced, resized>>
  BY DEF AccessRead
<1>9. UNCHANGED <<lru, modified>> /\ promised' = promised  BY DEF AccessRead
<1> QED  BY <1>1, <1>b, <1>2, <1>3, <1>4, <1>5, <1>6, <1>7, <1>8, <1>9, TakeStep

(* The end of the transfer of rtems_bdbuf_read keeps the invariant: no      *)
(* purge has come between, so the buffer is still the user's and in         *)
(* transfer.                                                                *)
LEMMA ReadDoneStep ==
    ASSUME Core, NEW u \in Users, ReadDone(u)
    PROVE  Always' /\ OwnInv'
<1> USE CoreParts DEF bufvars, listvars, grpvars, waitvars, syncvars, swapvars, ravars, datavars, racevars
<1>pc. /\ pc[u] = "reading" /\ lock = None /\ pc[u] \in Own /\ pc[u] \notin {"sleep", "woken"}
  BY DEF ReadDone, Own
<1>b. PICK b \in Bds : b = bd[u] /\ b \in tree /\ b \in Valid /\ key[b] \in Keys /\ want[u][1] \in Devices
                       /\ state[b] = "TRANSFER"
  BY <1>pc, OwnFacts DEF OwnInv
<1>same. UNCHANGED <<lock, key, hold, tree, lru, modified, syncq, users, per, dsize, want,
                     bd, cv, ret, synclock, sync_active, sync_device, sdone, wlist, wpc, spc, upd,
                     rapc, rabd, dcur, lost, calls, fault, raced, resized, promised>>
  BY <1>b DEF ReadDone
<1>s. state' = [state EXCEPT ![b] = "ACCESS_CACHED"] /\ cur' = [cur EXCEPT ![b] = dcur[key[b]]]
  BY <1>b DEF ReadDone
<1>to. /\ pc' \in [Users -> UserPC] /\ pc'[u] = "hold"
       /\ \A v \in Users \ {u} : pc'[v] = pc[v] \/ (pc[v] = "sleep" /\ pc'[v] = "woken")
  <2>1. pc' = Wake([pc EXCEPT ![u] = "hold"], Waker(bd[u], "transfer"))  BY DEF ReadDone
  <2>2. "hold" \in UserPC  BY DEF UserPC
  <2> QED  BY <2>1, <2>2, WakeTo DEF To
<1>keeps. Keeps(u, "ACCESS_CACHED") /\ pc'[u] \notin {"sleep", "woken"} /\ pc'[u] # "recycle"
  BY <1>to, <1>same DEF Keeps, Own, InAccess
<1>one. OneState(b, "ACCESS_CACHED")
  BY <1>s, <1>same DEF OneState, BufferTypes, States, InAccess
<1>own. \A v \in Users \ {u} : bd[v] = b => pc[v] \notin Own  BY <1>pc, <1>b DEF OwnInv
<1>fits. resized \/ Fits(b)  BY <1>b DEF SizeInv
<1>keep. UserInv' /\ TreeInv' /\ EmptyInv' /\ SizeInv' /\ OwnInv'
  BY <1>pc, <1>b, <1>same, <1>keeps, <1>one, <1>own, <1>fits, Keep
<1>ut. UserTypes' /\ HistoryTypes'
  <2>1. op' \in [Users -> {None, "get", "read", "syncdev", "resize"}]  BY DEF ReadDone, UserTypes
  <2> QED  BY <1>to, <1>same, <2>1 DEF UserTypes, HistoryTypes
<1>tt. TaskTypes'
  <2>1. Trigger(want[u][1])  BY DEF ReadDone
  <2>2. rachain' \subseteq Devices /\ raevent' \in BOOLEAN  BY <2>1, <1>b, TriggerTypes
  <2> QED  BY <1>same, <2>2 DEF TaskTypes
<1>lock. LockInv'
  <2>1. \A v \in Users : pc'[v] \in Locked <=> pc[v] \in Locked  BY <1>to, <1>pc DEF Locked
  <2> QED  BY <2>1, <1>same DEF LockInv
<1>list. ListInv'
  <2>1. /\ Relisted(lru, lru', b, {"FREE", "CACHED"}, "ACCESS_CACHED")
        /\ Relisted(modified, modified', b, {"MODIFIED"}, "ACCESS_CACHED")
        /\ Relisted(syncq, syncq', b, {"SYNC"}, "ACCESS_CACHED")
    BY <1>b, <1>same DEF Relisted
  <2> QED  BY <2>1, <1>b, <1>one, <1>same, ListOne
<1>nm. (\A w \in Writers : b \notin wlist[w]) /\ (rapc = "reading" => b # rabd)
  BY <1>pc, <1>b DEF WriterInv
<1>writer. WriterInv'
  <2>1. \A v \in Users : pc'[v] = "reading" => pc[v] = "reading" /\ bd'[v] = bd[v]
    BY <1>to, <1>same
  <2> QED  BY <2>1, <1>nm, <1>one, <1>same, WriterOne
<1>count. CountInv'
  <2>1. \A g : Sleepers(pc', bd', g) = Sleepers(pc, bd, g)  BY <1>keeps, <1>pc, KeepSleepers
  <2>2. \A x \in Bds : state'[x] \in UsesGroup <=> state[x] \in UsesGroup
    BY <1>b, <1>s DEF BufferTypes, UsesGroup, InTransfer, InAccess
  <2> QED  BY <2>1, <2>2, <1>same, CountSame
<1>fault. FaultInv'  BY <1>same DEF FaultInv
<1>sync. SyncInv'
  <2>1. \A v \in Users : /\ pc'[v] \in {"request", "event"} <=> pc[v] \in {"request", "event"}
                         /\ pc[v] = "event" => pc'[v] = "event"
    BY <1>keeps, <1>pc, KeepRequests
  <2> QED  BY <2>1, <1>nm, <1>b, <1>same, <1>one, SyncOne
<1>dcur. dcur[key[b]] \/ key[b] \in lost
  <2>1. SUFFICES ASSUME ~dcur[key[b]], key[b] \notin lost  PROVE FALSE
    OBVIOUS
  <2>2. PICK x \in Search(key[b]) : cur[x] /\ Saved(x)  BY <1>b, <2>1 DEF DataInv
  <2>3. x = b  BY <2>2, <1>b DEF Search, TreeInv
  <2>4. ~Saved(b)  BY <1>b, <1>nm, <1>own, <1>pc DEF Saved, Own, Dirty
  <2> QED  BY <2>2, <2>3, <2>4
<1>cur. cur' \in [Bds -> BOOLEAN] /\ cur'[b] = dcur[key[b]] /\ \A x \in Bds \ {b} : cur'[x] = cur[x]
  BY <1>s, <1>b DEF BufferTypes
<1>bt. BufferTypes'  BY <1>cur, <1>same, <1>one DEF BufferTypes, OneState
<1>data. DataInv'
  <2>2. \A v \in Users : pc'[v] \in {"synclock", "relock"} =>
                pc[v] \in {"synclock", "relock"} /\ bd'[v] = bd[v] /\ bd[v] \in tree
    BY <1>same, <1>to, OwnFacts DEF Own
  <2>3. \A v \in Users : pc[v] \in {"synclock", "relock"} /\ bd[v] # b =>
                pc'[v] = pc[v] /\ bd'[v] = bd[v]
    BY <1>b, <1>same, <1>to
  <2>4. state'[b] \notin Dirty /\ \A x \in Bds \ {b} : state'[x] = state[x]
    BY <1>one DEF OneState, Dirty
  <2>6. \A v \in Users : pc'[v] \in {"synclock", "relock"} => bd'[v] # b
    BY <1>own, <1>same, <1>to DEF Own
  <2>5. tree \subseteq Bds  BY DEF BufferTypes
  <2> QED  BY <2>2, <2>3, <2>4, <2>5, <2>6, <1>b, <1>nm, <1>dcur, <1>same, <1>cur, SaveData
<1> QED
  BY <1>ut, <1>tt, <1>bt, <1>keep, <1>lock, <1>list, <1>writer, <1>count, <1>fault, <1>sync,
     <1>data DEF Always

-----------------------------------------------------------------------------
(* Steps of a user that had found its buffer and lets go of it *)
LEMMA Leave ==
    ASSUME Core, NEW u \in Users, NEW b \in Bds, bd[u] = b, pc[u] \in At,
           pc' \in [Users -> UserPC], pc'[u] \in {"idle", "find"}, pc'[u] = "find" => want'[u] \in Keys,
           bd'[u] = None,
           \A v \in Users \ {u} : /\ pc'[v] = pc[v] \/ (pc[v] = "sleep" /\ pc'[v] = "woken")
                                  /\ bd'[v] = bd[v] /\ want'[v] = want[v],
           \/ UNCHANGED <<state, key, tree>> /\ (state[b] = "EMPTY" => Waited(b))
           \/ OneState(b, "FREE") /\ ~Waited(b) /\ state[b] \in {"CACHED", "EMPTY"},
           UNCHANGED <<users, per, dsize, ret, resized, wlist, wpc, spc, rapc, rabd, cur, dcur, lost>>,
           UNCHANGED <<synclock, sync_active, sync_device, sdone, promised>>
    PROVE  /\ UserInv' /\ TreeInv' /\ WriterInv' /\ EmptyInv' /\ SizeInv' /\ OwnInv'
           /\ CountInv' /\ SyncInv' /\ DataInv'
<1> USE CoreParts
<1> DEFINE Freed == OneState(b, "FREE") /\ ~Waited(b) /\ state[b] \in {"CACHED", "EMPTY"}
<1>b. /\ b # None /\ b \in tree /\ b \in Valid
      /\ pc[u] \notin {"sleep", "woken"} /\ pc[u] \notin Own
      /\ \A v \in Users \ {u} : pc[v] \notin Locked
  BY AtFacts DEF At, Own
<1>v. \A v \in Users \ {u} : /\ pc'[v] \in {"sleep", "woken"} <=> pc[v] \in {"sleep", "woken"}
                             /\ pc'[v] \notin {"sleep", "woken"} => pc'[v] = pc[v]
                             /\ pc[v] \notin {"sleep", "woken"} => pc'[v] = pc[v]
  OBVIOUS
<1>u. pc'[u] \notin Own \cup At \cup {"request", "event", "resize", "sleep", "woken"}
  BY DEF Own, At
<1>free. Freed => \A v \in Users \ {u} : bd[v] # b
  <2> SUFFICES ASSUME Freed, NEW v \in Users \ {u}, bd[v] = b  PROVE FALSE
    OBVIOUS
  <2>1. pc[v] \notin Own  BY NotOwned DEF InAccess
  <2>2. ~Asleep(v)  BY DEF Waited
  <2>3. pc[v] \in {"idle", "find", "request", "event", "resize"}
    BY <2>1, <2>2, <1>b DEF UserTypes, UserPC, Own, Locked, Asleep
  <2> QED  BY <2>3, <1>b DEF UserInv
<1>nm. Freed => (\A w \in Writers : b \notin wlist[w]) /\ (rapc = "reading" => b # rabd)
  BY NotMoving DEF Moving
<1>tk. \A x \in tree : (x # b \/ ~Freed) => x \in tree' /\ key'[x] = key[x] /\ state'[x] = state[x]
  <2>1. \A x \in tree : x \in Bds  BY DEF BufferTypes
  <2> QED  BY <2>1 DEF OneState
<1>user. UserInv'
  <2>1. ASSUME NEW v \in Users, v # u, bd'[v] # None  PROVE bd'[v] \in tree' /\ key'[bd'[v]] = want'[v]
    <3>1. bd'[v] = bd[v] /\ want'[v] = want[v] /\ bd[v] \in tree /\ key[bd[v]] = want[v]
      BY <2>1 DEF UserInv
    <3> QED  BY <3>1, <2>1, <1>free, <1>tk
  <2>2. ASSUME NEW v \in Users, v # u
        PROVE  /\ pc'[v] \in {"idle", "find", "request", "event", "resize"} => bd'[v] = None
               /\ pc'[v] \in Own \cup At => bd'[v] # None
               /\ pc'[v] = "find" => want'[v] \in Keys
               /\ pc'[v] \in {"request", "event", "resize"} => want'[v] \in Devices
               /\ Asleep(v)' => ret'[v] \in Locked /\ (bd'[v] = None <=> ret'[v] = "find") /\ want'[v] \in Keys
    BY <2>2, <1>v DEF UserInv, Asleep, Own, At
  <2>4. ASSUME NEW v \in Users
        PROVE  /\ bd'[v] # None => bd'[v] \in tree' /\ key'[bd'[v]] = want'[v]
               /\ pc'[v] \in {"idle", "find", "request", "event", "resize"} => bd'[v] = None
               /\ pc'[v] \in Own \cup At => bd'[v] # None
               /\ pc'[v] = "find" => want'[v] \in Keys
               /\ pc'[v] \in {"request", "event", "resize"} => want'[v] \in Devices
               /\ Asleep(v)' => ret'[v] \in Locked /\ (bd'[v] = None <=> ret'[v] = "find") /\ want'[v] \in Keys
    <3>1. CASE v = u  BY <3>1, <1>u DEF Asleep
    <3>2. CASE v # u  BY <3>2, <2>1, <2>2
    <3> QED  BY <3>1, <3>2
  <2> QED  BY <2>4 DEF UserInv, Asleep
<1>tree. TreeInv'  BY <1>b, TreeOne, TreeFrame
<1>writer. WriterInv'
  <2>1. \A v \in Users : pc'[v] = "reading" => pc[v] = "reading" /\ bd'[v] = bd[v]  OBVIOUS
  <2>2. CASE UNCHANGED <<state, key, tree>>  BY <2>1, <2>2, WriterFrame DEF WriterInv
  <2>3. CASE Freed  BY <2>1, <2>3, <1>nm, WriterOne
  <2> QED  BY <2>2, <2>3
<1>empty. EmptyInv'
  <2>1. SUFFICES ASSUME NEW x \in Bds, state'[x] = "EMPTY"
                 PROVE  \E v \in Users : bd'[v] = x /\ pc'[v] \in {"sleep", "woken"} \cup At
    BY DEF EmptyInv, Bds, Asleep, At
  <2>2. state[x] = "EMPTY" /\ (x = b => Waited(b))  BY <2>1 DEF OneState
  <2>3. PICK v \in Users : bd[v] = x /\ (Asleep(v) \/ pc[v] \in At) /\ v # u
    <3>1. CASE x = b
      <4>1. PICK v \in Users : Asleep(v) /\ bd[v] = b  BY <2>2, <3>1 DEF Waited
      <4> QED  BY <4>1, <3>1, <1>b DEF Asleep
    <3>2. CASE x # b
      <4>1. PICK v \in Users : bd[v] = x /\ (Asleep(v) \/ pc[v] \in At)  BY <2>2 DEF EmptyInv
      <4> QED  BY <4>1, <3>2
    <3> QED  BY <3>1, <3>2
  <2>4. pc'[v] \in {"sleep", "woken"} \cup At  BY <2>3, <1>v DEF Asleep
  <2> QED  BY <2>3, <2>4
<1>size. SizeInv'
  <2>v. \A v \in Users \ {u} : /\ bd'[v] = bd[v] /\ ret'[v] = ret[v]
                               /\ pc'[v] \in {"sleep", "woken"} <=> pc[v] \in {"sleep", "woken"}
                               /\ pc'[v] \in Locked => pc[v] = pc'[v]
                               /\ pc[v] \in Locked => pc[v] = pc'[v]
    BY DEF Locked
  <2>u. bd'[u] \in {b, None} /\ pc'[u] # "recycle" /\ pc'[u] \notin {"sleep", "woken"}  BY <1>u
  <2>1. CASE Freed
    <3>1. b \notin tree'  BY <2>1 DEF OneState
    <3> QED  BY <2>1, <3>1, <2>v, <2>u, <1>b, <1>free, SizeOne
  <2>2. CASE UNCHANGED <<state, key, tree>> /\ (state[b] = "EMPTY" => Waited(b))
    <3> SUFFICES ASSUME ~resized  PROVE SizeInv'
      BY DEF SizeInv
    <3>1. \A x : Fits(x)' <=> Fits(x)  BY <2>2 DEF Fits, Dev
    <3>2. \A v \in Users \ {u} : /\ Syncing(v)' <=> Syncing(v)
                                 /\ Asleep(v)' <=> Asleep(v)
                                 /\ pc'[v] = "recycle" <=> pc[v] = "recycle"
      BY DEF Syncing, Asleep
    <3>3. ~Asleep(u)' /\ pc'[u] # "recycle"  BY <1>u DEF Asleep
    <3>4. ASSUME NEW x \in tree', ~Fits(x)'
          PROVE  /\ state'[x] = "EMPTY"
                 /\ \E v \in Users : bd'[v] = x /\ Syncing(v)'
                 /\ \A v \in Users : bd'[v] = x => Syncing(v)' \/ pc'[v] = "recycle"
      <4>1. x \in tree /\ ~Fits(x) /\ state'[x] = state[x] /\ x \in Bds
        BY <2>2, <3>1, <3>4 DEF BufferTypes
      <4>2. state[x] = "EMPTY" /\ \A y \in Users : bd[y] = x => Syncing(y) \/ pc[y] = "recycle"
        BY <4>1 DEF SizeInv
      <4>3. PICK v \in Users : v # u /\ bd[v] = x /\ Syncing(v)
        <5>1. CASE x = b
          <6>1. PICK v \in Users : Asleep(v) /\ bd[v] = b  BY <5>1, <4>2, <2>2 DEF Waited
          <6>2. v # u /\ pc[v] # "recycle"  BY <6>1, <1>b DEF Asleep
          <6> QED  BY <6>1, <6>2, <5>1, <4>2
        <5>2. CASE x # b  BY <5>2, <4>1 DEF SizeInv
        <5> QED  BY <5>1, <5>2
      <4>4. x # None  BY <4>1, BdsFacts
      <4> QED  BY <4>1, <4>2, <4>3, <4>4, <3>2
    <3>5. \A v \in Users : /\ pc'[v] = "recycle" => ~Fits(bd[v])'
                           /\ Asleep(v)' => ret'[v] # "recycle"
      <4>1. ASSUME NEW v \in Users, pc'[v] = "recycle"  PROVE ~Fits(bd[v])'
        <5>1. v # u /\ pc[v] = "recycle" /\ bd'[v] = bd[v] /\ ~Fits(bd[v])
          BY <4>1, <3>2, <3>3 DEF SizeInv
        <5> QED  BY <5>1, <2>2 DEF Fits, Dev
      <4>2. ASSUME NEW v \in Users, Asleep(v)'  PROVE ret'[v] # "recycle"
        BY <4>2, <3>2, <3>3 DEF SizeInv
      <4> QED  BY <4>1, <4>2
    <3> QED  BY <3>4, <3>5 DEF SizeInv
  <2> QED  BY <2>1, <2>2
<1>own. OwnInv'
  <2>1. ASSUME NEW v \in Users, pc'[v] \in Own
        PROVE  v # u /\ pc'[v] = pc[v] /\ bd'[v] = bd[v] /\ state'[bd[v]] = state[bd[v]]
    <3>1. v # u /\ pc'[v] = pc[v] /\ bd'[v] = bd[v]  BY <2>1, <1>u DEF Own
    <3>2. bd[v] \in tree  BY <2>1, <3>1, OwnFacts
    <3> QED  BY <3>1, <3>2, <1>free, <1>tk
  <2> QED  BY <2>1 DEF OwnInv, Own
<1>count. CountInv'
  <2>1. \A g : Sleepers(pc', bd', g) = Sleepers(pc, bd, g)
    BY <1>v, <1>u, <1>b DEF Sleepers
  <2>2. \A x \in Bds : state'[x] \in UsesGroup <=> state[x] \in UsesGroup
    BY DEF OneState, UsesGroup, InAccess, InTransfer
  <2> QED  BY <2>1, <2>2, CountSame
<1>sync. SyncInv'
  <2>0. pc[u] \notin {"request", "event"}  BY DEF At
  <2>1. \A v \in Users : /\ pc'[v] \in {"request", "event"} <=> pc[v] \in {"request", "event"}
                         /\ pc[v] = "event" => pc'[v] = "event"
    BY <2>0, <1>u
  <2>2. \A x \in tree : key[x] \in promised' /\ Unwritten(x) =>
          x \in tree' /\ key'[x] = key[x] /\ Unwritten(x)'
    <3> SUFFICES ASSUME NEW x \in tree, Unwritten(x)  PROVE x \in tree' /\ key'[x] = key[x] /\ Unwritten(x)'
      OBVIOUS
    <3>1. x # b \/ ~Freed  BY <1>nm DEF Unwritten, Writers
    <3> QED  BY <3>1, <1>tk DEF Unwritten
  <2> QED  BY <2>1, <2>2, SyncFrame
<1>data. DataInv'
  <2>1. \A x \in Bds : state'[x] \in Clean => state[x] \in Clean /\ key'[x] = key[x]
    BY DEF OneState, Clean
  <2>0. \A x \in Bds : state'[x] \in Dirty => state[x] \in Dirty  BY DEF OneState, Dirty
  <2>2. \A v \in Users : /\ pc'[v] \in {"synclock", "relock"} =>
                               pc[v] \in {"synclock", "relock"} /\ bd'[v] = bd[v]
                         /\ pc[v] \in {"synclock", "relock"} => pc'[v] = pc[v] /\ bd'[v] = bd[v]
    BY <1>u, <1>b DEF Own
  <2>3. ASSUME NEW x \in tree, Saved(x)  PROVE x \in tree' /\ key'[x] = key[x] /\ Saved(x)'
    <3>1. x # b \/ ~Freed
      <4>1. Freed => ~Saved(b)  BY <1>nm, <1>free, <1>b DEF Saved, Dirty, Own
      <4> QED  BY <4>1, <2>3
    <3> QED  BY <3>1, <2>2, <2>3, <1>tk DEF Saved, Writers
  <2> QED  BY <2>0, <2>1, <2>2, <2>3, DataFrame
<1> QED  BY <1>user, <1>tree, <1>writer, <1>empty, <1>size, <1>own, <1>count, <1>sync, <1>data

(* rtems_bdbuf_wait_for_sync_done returning keeps the invariant: an EMPTY   *)
(* buffer is freed unless another waits.                                    *)
LEMMA SyncDoneStep ==
    ASSUME Core, NEW u \in Users, SyncDone(u)
    PROVE  Always' /\ OwnInv'
<1> USE CoreParts DEF bufvars, listvars, grpvars, waitvars, syncvars, swapvars, ravars, datavars, racevars
<1>pc. pc[u] = "syncwait" /\ pc[u] \in At /\ pc[u] \in Locked  BY DEF SyncDone, At, Locked
<1>b. PICK b \in Bds : b = bd[u] /\ b \in tree /\ b \in Valid /\ state[b] # "FREE"
  BY <1>pc, AtFacts
<1>same. UNCHANGED <<hold, modified, syncq, users, per, dsize, op, cv, ret,
                     synclock, sync_active, sync_device, sdone, wlist, wpc, spc, upd,
                     rachain, raevent, rapc, rabd, cur, dcur, lost, calls, raced, resized, promised>>
  BY DEF SyncDone
<1>to. /\ pc' \in [Users -> UserPC] /\ pc'[u] = "idle"
       /\ \A v \in Users \ {u} : pc'[v] = pc[v] \/ (pc[v] = "sleep" /\ pc'[v] = "woken")
  <2>1. \E cs : pc' = Wake([pc EXCEPT ![u] = "idle"], cs)  BY DEF SyncDone
  <2>2. "idle" \in UserPC  BY DEF UserPC
  <2> QED  BY <2>1, <2>2, WakeTo DEF To
<1>u. /\ bd' \in [Users -> Bds \cup {None}] /\ want' \in [Users -> Keys \cup Devices \cup {None}]
      /\ bd'[u] = None /\ \A v \in Users \ {u} : bd'[v] = bd[v] /\ want'[v] = want[v]
  BY DEF SyncDone, Idle, UserTypes
<1>lock. lock' = None /\ LockInv'
  <2>1. lock' = None  BY DEF SyncDone
  <2>2. pc'[u] \notin Locked /\ \A v \in Users \ {u} : pc'[v] = pc[v] \/ pc'[v] \notin Locked
    BY <1>to DEF Locked
  <2> QED  BY <2>1, <2>2, <1>same, <1>pc, Unlocked
<1>ut. UserTypes' /\ TaskTypes' /\ HistoryTypes'
  BY <1>to, <1>u, <1>lock, <1>same DEF UserTypes, TaskTypes, HistoryTypes
<1>1. CASE ~Waited(b) /\ state[b] = "EMPTY"
  <2>1. Discard({b})  BY <1>1, <1>b DEF SyncDone
  <2>2. Discarded(b) = "FREE"  BY <1>1 DEF Discarded
  <2>3. /\ OneState(b, "FREE") /\ fault' = fault
        /\ Relisted(lru, lru', b, {"FREE", "CACHED"}, "FREE")
    BY <1>1, <1>b, <2>1, <2>2, DiscardOne
  <2>4. /\ UserInv' /\ TreeInv' /\ WriterInv' /\ EmptyInv' /\ SizeInv' /\ OwnInv'
        /\ CountInv' /\ SyncInv' /\ DataInv'
    BY <1>1, <1>pc, <1>b, <1>same, <1>to, <1>u, <2>3, Leave
  <2>5. key' \in [Bds -> Keys \cup {None}] /\ tree' \subseteq Bds
    BY <2>1 DEF Discard, Untree, BufferTypes
  <2>6. BufferTypes'  BY <1>same, <2>3, <2>5 DEF BufferTypes, OneState
  <2>7. ListInv'
    <3>1. /\ Relisted(modified, modified', b, {"MODIFIED"}, "FREE")
          /\ Relisted(syncq, syncq', b, {"SYNC"}, "FREE")
      BY <1>1, <1>same DEF Relisted
    <3> QED  BY <3>1, <1>b, <1>same, <2>3, ListOne
  <2>8. FaultInv'  BY <1>same, <2>3 DEF FaultInv
  <2> QED  BY <1>ut, <1>lock, <2>4, <2>6, <2>7, <2>8 DEF Always
<1>2. CASE ~(~Waited(b) /\ state[b] = "EMPTY")
  <2>1. UNCHANGED <<state, key, tree, lru, fault>>  BY <1>2, <1>b DEF SyncDone
  <2>2. UNCHANGED <<state, key, tree>> /\ (state[b] = "EMPTY" => Waited(b))  BY <1>2, <2>1
  <2>4. /\ UserInv' /\ TreeInv' /\ WriterInv' /\ EmptyInv' /\ SizeInv' /\ OwnInv'
        /\ CountInv' /\ SyncInv' /\ DataInv'
    BY <1>pc, <1>b, <1>same, <1>to, <1>u, <2>2, Leave
  <2>6. BufferTypes'  BY <1>same, <2>1 DEF BufferTypes
  <2>7. ListInv'  BY <1>same, <2>1, ListFrame
  <2>8. FaultInv'  BY <1>same, <2>1 DEF FaultInv
  <2> QED  BY <1>ut, <1>lock, <2>4, <2>6, <2>7, <2>8 DEF Always
<1> QED  BY <1>1, <1>2

(* The buffer of an old size is free only after a change of the block size. *)
LEMMA RecycleFreeStep ==
    ASSUME Core, NEW u \in Users, RecycleFree(u)
    PROVE  Always' /\ OwnInv'
<1> USE CoreParts DEF bufvars, listvars, grpvars, waitvars, syncvars, swapvars, ravars, datavars, racevars
<1>pc. pc[u] = "recycle" /\ pc[u] \in At /\ pc[u] \in Locked  BY DEF RecycleFree, At, Locked
<1>b. PICK b \in Bds : /\ b = bd[u] /\ b \in tree /\ b \in Valid /\ want[u] \in Keys
                       /\ state[b] \in {"CACHED", "EMPTY"} /\ ~Waited(b)
  BY <1>pc, AtFacts DEF RecycleFree
<1>same. UNCHANGED <<lock, hold, modified, syncq, users, per, dsize, op, want, cv, ret,
                     synclock, sync_active, sync_device, sdone, wlist, wpc, spc, upd,
                     rachain, raevent, rapc, rabd, cur, dcur, lost, calls, raced, resized, promised>>
  BY DEF RecycleFree
<1>to. /\ pc' \in [Users -> UserPC] /\ pc'[u] = "find"
       /\ \A v \in Users \ {u} : pc'[v] = pc[v] \/ (pc[v] = "sleep" /\ pc'[v] = "woken")
  <2>1. pc' = Wake([pc EXCEPT ![u] = "find"], {"buffer"})  BY DEF RecycleFree
  <2>2. "find" \in UserPC  BY DEF UserPC
  <2> QED  BY <2>1, <2>2, WakeTo DEF To
<1>u. /\ bd' \in [Users -> Bds \cup {None}] /\ bd'[u] = None
      /\ \A v \in Users \ {u} : bd'[v] = bd[v]
  BY DEF RecycleFree, UserTypes
<1>s. /\ state' = [state EXCEPT ![b] = "FREE"] /\ key' = [key EXCEPT ![b] = None]
      /\ tree' = tree \ {b} /\ lru' = <<b>> \o Without(lru, {b})
      /\ fault' \in {fault, "STATE_10"}
  BY <1>b DEF RecycleFree
<1>one. OneState(b, "FREE")  BY <1>s DEF OneState, BufferTypes, States
<1>resized. resized
  <2> SUFFICES ASSUME ~resized  PROVE FALSE
    OBVIOUS
  <2>1. ~Fits(b)  BY <1>pc, <1>b DEF SizeInv
  <2>2. PICK v \in Users : bd[v] = b /\ Syncing(v)  BY <2>1, <1>b DEF SizeInv
  <2>3. pc[v] = "syncwait"  BY <2>2, <1>b DEF Syncing, Waited
  <2>4. v # u /\ pc[v] \in Locked  BY <2>3, <1>pc DEF Locked
  <2> QED  BY <2>4, <1>pc, AtFacts
<1>lock. LockInv'
  <2>1. \A v \in Users : pc'[v] \in Locked <=> pc[v] \in Locked  BY <1>to, <1>pc DEF Locked
  <2> QED  BY <2>1, <1>same DEF LockInv
<1>ut. UserTypes' /\ TaskTypes' /\ HistoryTypes'
  BY <1>to, <1>u, <1>same DEF UserTypes, TaskTypes, HistoryTypes
<1>bt. BufferTypes'
  <2>1. key' \in [Bds -> Keys \cup {None}] /\ tree' \subseteq Bds  BY <1>s DEF BufferTypes
  <2> QED  BY <2>1, <1>same, <1>one DEF BufferTypes, OneState
<1>inv. /\ UserInv' /\ TreeInv' /\ WriterInv' /\ EmptyInv' /\ SizeInv' /\ OwnInv'
        /\ CountInv' /\ SyncInv' /\ DataInv'
  BY <1>pc, <1>b, <1>same, <1>to, <1>u, <1>one, Leave
<1>list. ListInv'
  <2>1. Lists(<<b>>, {b})  BY SingleLists
  <2>2. /\ Relisted(lru, lru', b, {"FREE", "CACHED"}, "FREE")
        /\ Relisted(modified, modified', b, {"MODIFIED"}, "FREE")
        /\ Relisted(syncq, syncq', b, {"SYNC"}, "FREE")
    BY <1>b, <1>s, <1>same, <2>1 DEF Relisted
  <2> QED  BY <2>2, <1>b, <1>one, <1>same, ListOne
<1>fault. FaultInv'  BY <1>s, <1>same, <1>resized DEF FaultInv
<1> QED  BY <1>ut, <1>bt, <1>lock, <1>inv, <1>list, <1>fault DEF Always

-----------------------------------------------------------------------------
(* The division of a group into buffers *)
Divisor(n) == n \in 1 .. MaxPer /\ MaxPer % n = 0

(* Products of numbers keep their order. *)
LEMMA Times ==
    ASSUME NEW i \in Int, NEW j \in Int, NEW q \in Nat \ {0}
    PROVE  i * q \in Int /\ (i < j => i * q < j * q) /\ (i <= j => i * q <= j * q)
<1>1. (j - i) * q = j * q - i * q  OBVIOUS
<1>2. i < j => (j - i) * q > 0  OBVIOUS
<1> QED  BY <1>1, <1>2

(* The bds_per_group of a block size divide a group evenly. *)
LEMMA DivisorFacts ==
    ASSUME NEW n, Divisor(n)
    PROVE  /\ n \in Nat \ {0} /\ MaxPer \div n \in Nat \ {0} /\ n * (MaxPer \div n) = MaxPer
<1>1. n \in Nat \ {0} /\ n <= MaxPer /\ MaxPer \in Nat \ {0}  BY CacheAssumption DEF Divisor
<1>2. MaxPer = n * (MaxPer \div n) + (MaxPer % n) /\ MaxPer \div n \in Int
  <2>1. \A a \in Int, m \in Nat \ {0} : a = m * (a \div m) + (a % m) /\ a \div m \in Int
    BY SMTT(30)
  <2> QED  BY <1>1, <2>1
<1>3. MaxPer % n = 0  BY DEF Divisor
<1>4. n * (MaxPer \div n) = MaxPer  BY <1>2, <1>3, <1>1
<1>5. MaxPer \div n > 0
  <2>1. SUFFICES ASSUME MaxPer \div n <= 0  PROVE FALSE
    BY <1>2
  <2>2. n * (MaxPer \div n) <= 0  BY <1>1, <1>2, <2>1
  <2> QED  BY <2>2, <1>4, <1>1
<1> QED  BY <1>1, <1>2, <1>4, <1>5

(* Every group is divided, and every device has blocks, by a divisor. *)
LEMMA PerDivisor ==
    ASSUME BufferTypes
    PROVE  /\ \A g \in Groups : Divisor(per[g])
           /\ \A d \in Devices : Divisor(dsize[d]) /\ dsize[d] \in Sizes
<1>1. Divisor(MaxPer)  BY CacheAssumption DEF Divisor
<1>2. \A n \in Sizes : Divisor(n)  BY CacheAssumption DEF Divisor
<1> QED  BY <1>1, <1>2 DEF BufferTypes

(* The buffers of a divided group, the first of them the group's first. *)
LEMMA GroupBdsFacts ==
    ASSUME NEW g \in Groups, NEW n, Divisor(n)
    PROVE  /\ GroupBds(g, n) \subseteq Bds /\ <<g, 0>> \in GroupBds(g, n)
           /\ \A b \in GroupBds(g, n) : b[1] = g
<1> DEFINE q == MaxPer \div n
<1>1. n \in Nat \ {0} /\ q \in Nat \ {0} /\ n * q = MaxPer  BY DivisorFacts
<1> HIDE DEF q
<1>2. GroupBds(g, n) = {<<g, i>> : i \in {j * q : j \in 0 .. n - 1}}  BY DEF GroupBds, q
<1>3. ASSUME NEW j \in 0 .. n - 1  PROVE j * q \in 0 .. MaxPer - 1
  <2>1. j \in Int /\ 0 \in Int /\ n \in Int /\ 0 <= j /\ j < n  BY <1>1
  <2>2. 0 * q <= j * q /\ j * q < n * q /\ j * q \in Int  BY <2>1, <1>1, Times
  <2>3. 0 * q = 0  BY <1>1
  <2> QED  BY <2>2, <2>3, <1>1, CacheAssumption
<1>4. GroupBds(g, n) \subseteq Bds  BY <1>2, <1>3 DEF Bds
<1>5. 0 * q = 0 /\ 0 \in 0 .. n - 1  BY <1>1
<1>6. <<g, 0>> \in GroupBds(g, n)  BY <1>2, <1>5
<1>7. \A b \in GroupBds(g, n) : b[1] = g  BY <1>2
<1> QED  BY <1>4, <1>6, <1>7

(* The new buffers, from the last to the second *)
LEMMA NewLists ==
    ASSUME NEW g \in Groups, NEW n, Divisor(n)
    PROVE  Lists([j \in 1 .. n - 1 |-> <<g, (n - j) * (MaxPer \div n)>>], GroupBds(g, n) \ {<<g, 0>>})
<1> DEFINE q == MaxPer \div n
           S == GroupBds(g, n) \ {<<g, 0>>}
           f == [j \in 1 .. n - 1 |-> <<g, (n - j) * q>>]
<1>1. n \in Nat \ {0} /\ q \in Nat \ {0} /\ n * q = MaxPer  BY DivisorFacts
<1> HIDE DEF q
<1>2. GroupBds(g, n) = {<<g, i>> : i \in {j * q : j \in 0 .. n - 1}}  BY DEF GroupBds, q
<1>3. \A i, j \in Int : (i < j => i * q < j * q) /\ i * q \in Int  BY <1>1, Times
<1>4. \A i, j \in Int : i * q = j * q => i = j  
  <2> SUFFICES ASSUME NEW i \in Int, NEW j \in Int, i * q = j * q, i # j  PROVE FALSE
    OBVIOUS
  <2>1. i < j \/ j < i  OBVIOUS
  <2>2. (i < j => i * q < j * q) /\ (j < i => j * q < i * q) /\ i * q \in Int /\ j * q \in Int
    BY <1>3
  <2> QED  BY <2>1, <2>2
<1>5. 0 * q = 0  BY <1>1
<1>6. ASSUME NEW j \in 1 .. n - 1  PROVE <<g, (n - j) * q>> \in S
  <2>1. n - j \in 0 .. n - 1 /\ n - j # 0 /\ n - j \in Int  BY <1>1
  <2>2. (n - j) * q # 0  BY <2>1, <1>4, <1>5
  <2>3. <<g, (n - j) * q>> \in GroupBds(g, n)  BY <2>1, <1>2
  <2> QED  BY <2>2, <2>3
<1>7. f \in Seq(S)
  <2>1. n - 1 \in Nat  BY <1>1
  <2>2. f \in [1 .. n - 1 -> S]  BY <1>6
  <2> QED  BY <2>1, <2>2
<1>8. IsInjective(f)
  <2>1. ASSUME NEW i \in 1 .. n - 1, NEW j \in 1 .. n - 1, f[i] = f[j]  PROVE i = j
    <3>1. (n - i) * q = (n - j) * q  BY <2>1
    <3>2. n - i \in Int /\ n - j \in Int  BY <1>1
    <3>3. n - i = n - j  BY <3>1, <3>2, <1>4
    <3> QED  BY <3>3, <1>1
  <2>2. DOMAIN f = 1 .. n - 1  OBVIOUS
  <2> HIDE DEF f
  <2> QED  BY <2>1, <2>2 DEF IsInjective
<1>9. ToSet(f) = S
  <2>1. \A j \in 1 .. n - 1 : f[j] \in S  BY <1>6
  <2>2. ASSUME NEW b \in S  PROVE \E j \in 1 .. n - 1 : f[j] = b
    <3>1. PICK i \in 0 .. n - 1 : b = <<g, i * q>>  BY <1>2
    <3>2. i # 0  BY <3>1, <1>5
    <3>3. n - i \in 1 .. n - 1 /\ n - (n - i) = i  BY <3>2, <1>1
    <3>4. f[n - i] = <<g, (n - (n - i)) * q>>  BY <3>3
    <3> QED  BY <3>1, <3>3, <3>4
  <2>3. DOMAIN f = 1 .. n - 1  OBVIOUS
  <2> HIDE DEF f, S
  <2> QED  BY <2>1, <2>2, <2>3 DEF ToSet
<1>10. Lists(f, S)  BY <1>7, <1>8, <1>9 DEF Lists
<1> QED  BY <1>10 DEF q

-----------------------------------------------------------------------------
(* rtems_bdbuf_get_buffer_from_lru_list: buffer b is made of the buffers    *)
(* old, which nobody has or waits for.                                      *)
Fresh(k, b, s, old) ==
    /\ b \in old /\ old \subseteq Bds
    /\ \A y \in old : state[y] \in {"FREE", "CACHED"} /\ \A v \in Users : bd[v] # y
    /\ state' \in [Bds -> States] /\ state'[b] = s /\ \A y \in old \ {b} : state'[y] = "FREE"
    /\ key' \in [Bds -> Keys \cup {None}] /\ key'[b] = k
    /\ cur' \in [Bds -> BOOLEAN]
    /\ \A y \in Bds \ old : state'[y] = state[y] /\ key'[y] = key[y] /\ cur'[y] = cur[y]
    /\ tree' = (tree \ old) \cup {b} /\ tree' \subseteq Valid'
    /\ per' \in [Groups -> Sizes \cup {MaxPer}] /\ per'[b[1]] = dsize[k[1]]
    /\ \A x \in tree \ old : per'[x[1]] = per[x[1]]
    /\ fault' = fault

(* Nobody has found a buffer that is free or cached and not waited for. *)
LEMMA Unfound ==
    ASSUME Core, \A v \in Users : pc[v] \notin At, NEW y, state[y] \in {"FREE", "CACHED"}, y \in Bds,
           \A v \in Users : bd[v] = y => ~Asleep(v)
    PROVE  \A v \in Users : bd[v] # y
<1> USE CoreParts
<1> SUFFICES ASSUME NEW v \in Users, bd[v] = y  PROVE FALSE
  OBVIOUS
<1>1. y # None  BY BdsFacts
<1>2. pc[v] \notin Own  BY NotOwned DEF InAccess
<1>3. pc[v] \in {"idle", "find", "request", "event", "resize"}
  BY <1>2 DEF UserTypes, UserPC, Own, At, Asleep
<1> QED  BY <1>1, <1>3 DEF UserInv

(* A group that is not in use *)
LEMMA GroupUnused ==
    ASSUME Core, \A v \in Users : pc[v] \notin At, NEW g \in Groups, users[g] = 0
    PROVE  /\ \A y \in Bds : y[1] = g => state[y] \in {"FREE", "CACHED"}
           /\ \A y \in Bds, v \in Users : y[1] = g /\ bd[v] = y => ~Asleep(v)
<1> USE CoreParts
<1>1. users[g] = Cardinality(Busy(state, g)) + Cardinality(Sleepers(pc, bd, g))  BY DEF CountInv
<1>2. /\ IsFiniteSet(Busy(state, g)) /\ Cardinality(Busy(state, g)) \in Nat
      /\ IsFiniteSet(Sleepers(pc, bd, g)) /\ Cardinality(Sleepers(pc, bd, g)) \in Nat
  BY CountTypes
<1>3. Cardinality(Busy(state, g)) = 0 /\ Cardinality(Sleepers(pc, bd, g)) = 0  BY <1>1, <1>2
<1>4. Busy(state, g) = {} /\ Sleepers(pc, bd, g) = {}  BY <1>2, <1>3, FS_EmptySet
<1>5. ASSUME NEW y \in Bds, NEW v \in Users, y[1] = g, bd[v] = y  PROVE ~Asleep(v)
  BY <1>4, <1>5, BdsFacts DEF Sleepers, Asleep
<1>6. ASSUME NEW y \in Bds, y[1] = g  PROVE state[y] \in {"FREE", "CACHED"}
  <2>1. state[y] \in States /\ state[y] \notin UsesGroup  BY <1>4, <1>6 DEF Busy, BufferTypes
  <2>2. state[y] \in {"FREE", "CACHED", "EMPTY"}  BY <2>1 DEF States, UsesGroup
  <2>3. state[y] # "EMPTY"  BY <1>5, <1>6 DEF EmptyInv
  <2> QED  BY <2>2, <2>3
<1> QED  BY <1>5, <1>6

(* rtems_bdbuf_get_buffer_from_lru_list, with rtems_bdbuf_group_realloc     *)
(* when the size is wrong: the buffer is made of buffers nobody has, and    *)
(* the LRU list has the rest of the group.                                  *)
LEMMA RecycledFacts ==
    ASSUME Core, \A v \in Users : pc[v] \notin At, NEW k \in Keys, Candidates(k[1]) # {},
           NEW b \in Bds, NEW s \in {"EMPTY", "TRANSFER"}, Recycled(k, b, s)
    PROVE  /\ \E old : Fresh(k, b, s, old)
           /\ Lists(lru', (Valid \cap InState({"FREE", "CACHED"}))')
<1> USE CoreParts
<1> DEFINE x == lru[First(Candidates(k[1]))]
           g == x[1]
           n == dsize[k[1]]
           fits == per[g] = n
           old == IF fits THEN {x} ELSE GroupBds(g, per[g])
           new == [j \in 1 .. n - 1 |-> <<g, (n - j) * (MaxPer \div n)>>]
           L == Valid \cap InState({"FREE", "CACHED"})
<1>d. k[1] \in Devices /\ n \in Sizes /\ Divisor(n) /\ \A h \in Groups : Divisor(per[h])
  BY KeysFacts, PerDivisor
<1>lru. lru \in Seq(L) /\ IsInjective(lru) /\ ToSet(lru) = L  BY DEF ListInv, Lists
<1>x. x \in L /\ Recyclable(x, k[1])
  <2>1. Candidates(k[1]) \in SUBSET (DOMAIN lru)  BY DEF Candidates
  <2>2. DOMAIN lru \in SUBSET Nat  BY <1>lru
  <2>3. First(Candidates(k[1])) \in Candidates(k[1])  BY <2>1, <2>2, FirstIn
  <2>4. First(Candidates(k[1])) \in DOMAIN lru /\ Recyclable(x, k[1])  BY <2>3 DEF Candidates
  <2> QED  BY <2>4, <1>lru
<1>g. x \in Bds /\ x \in Valid /\ g \in Groups /\ state[x] \in {"FREE", "CACHED"} /\ x \in GroupBds(g, per[g])
  <2>1. x \in Bds /\ x \in Valid /\ state[x] \in {"FREE", "CACHED"}  BY <1>x DEF Valid, InState
  <2>2. g \in Groups  BY <2>1, BdsFacts
  <2> QED  BY <2>1, <2>2 DEF Valid
<1>rec. /\ b = IF fits THEN x ELSE <<g, 0>>
        /\ fault' = IF \A y \in old : state[y] \in {"FREE", "CACHED"}
                    THEN IF \A y \in old : state[y] = "CACHED" => y \in tree
                         THEN fault ELSE "TREE_RM"
                    ELSE "STATE_10"
        /\ tree' = (tree \ old) \cup {b}
        /\ key' = [y \in Bds |-> IF y = b THEN k ELSE IF y \in old THEN None ELSE key[y]]
        /\ lru' = (IF fits THEN <<>> ELSE new) \o Without(lru, old)
        /\ per' = [per EXCEPT ![g] = n]
        /\ state' = [y \in Bds |-> IF y = b THEN s
                                   ELSE IF y \in old THEN "FREE" ELSE state[y]]
        /\ cur' = [y \in Bds |-> cur[y] /\ y \notin old]
  BY DEF Recycled
<1>old. /\ old \subseteq Bds /\ b \in old /\ (\A y \in old : y[1] = g) /\ b[1] = g
        /\ \A y \in old : state[y] \in {"FREE", "CACHED"} /\ \A v \in Users : bd[v] # y
  <2>1. CASE fits
    <3>1. old = {x} /\ b = x  BY <2>1, <1>rec
    <3>2. \A v \in Users : bd[v] = x => ~Asleep(v)  BY <1>x DEF Recyclable, Waited
    <3>3. \A v \in Users : bd[v] # x  BY <3>2, <1>g, Unfound
    <3> QED  BY <3>1, <3>3, <1>g
  <2>2. CASE ~fits
    <3>1. old = GroupBds(g, per[g]) /\ b = <<g, 0>>  BY <2>2, <1>rec
    <3>2. old \subseteq Bds /\ b \in old /\ \A y \in old : y[1] = g
      BY <3>1, <1>g, <1>d, GroupBdsFacts
    <3>3. users[g] = 0  BY <2>2, <1>x DEF Recyclable
    <3>4. /\ \A y \in old : state[y] \in {"FREE", "CACHED"}
          /\ \A y \in old, v \in Users : bd[v] = y => ~Asleep(v)
      BY <3>2, <3>3, <1>g, GroupUnused
    <3>5. \A y \in old : \A v \in Users : bd[v] # y  BY <3>2, <3>4, Unfound
    <3> QED  BY <3>1, <3>2, <3>4, <3>5
  <2> QED  BY <2>1, <2>2
<1>inold. \A y \in Valid : y[1] = g /\ ~fits => y \in old  BY DEF Valid
<1> HIDE DEF old, new, g, fits, x, n
<1>types. /\ state' \in [Bds -> States] /\ state'[b] = s /\ \A y \in old \ {b} : state'[y] = "FREE"
          /\ key' \in [Bds -> Keys \cup {None}] /\ key'[b] = k
          /\ \A y \in Bds \ old : state'[y] = state[y] /\ key'[y] = key[y]
  <2>1. s \in States /\ "FREE" \in States  BY DEF States, InTransfer
  <2>2. \A y \in Bds : state[y] \in States /\ key[y] \in Keys \cup {None}  BY DEF BufferTypes
  <2>3. state' = [y \in Bds |-> IF y = b THEN s ELSE IF y \in old THEN "FREE" ELSE state[y]]
    BY <1>rec
  <2>4. key' = [y \in Bds |-> IF y = b THEN k ELSE IF y \in old THEN None ELSE key[y]]  BY <1>rec
  <2>5. state' \in [Bds -> States] /\ state'[b] = s /\ \A y \in old \ {b} : state'[y] = "FREE"
    BY <2>1, <2>2, <2>3, <1>old
  <2>6. key' \in [Bds -> Keys \cup {None}] /\ key'[b] = k  BY <2>2, <2>4
  <2>7. \A y \in Bds \ old : state'[y] = state[y] /\ key'[y] = key[y]  BY <2>3, <2>4, <1>old
  <2> QED  BY <2>5, <2>6, <2>7
<1>cur. cur' \in [Bds -> BOOLEAN] /\ \A y \in Bds \ old : cur'[y] = cur[y]
  <2>1. cur' = [y \in Bds |-> cur[y] /\ y \notin old]  BY <1>rec
  <2>2. cur \in [Bds -> BOOLEAN]  BY DEF BufferTypes
  <2>3. ASSUME NEW y \in Bds \ old  PROVE cur'[y] = cur[y]
    <3>1. cur'[y] = (cur[y] /\ y \notin old)  BY <2>1
    <3>2. cur[y] \in BOOLEAN  BY <2>2
    <3> QED  BY <3>1, <3>2
  <2> QED  BY <2>1, <2>3
<1>fault. fault' = fault
  <2>1. \A y \in old : state[y] = "CACHED" => y \in tree  BY <1>old DEF TreeInv
  <2> QED  BY <2>1, <1>old, <1>rec
<1>per. /\ per' \in [Groups -> Sizes \cup {MaxPer}] /\ per'[g] = n
        /\ \A h \in Groups : h # g => per'[h] = per[h]
        /\ fits => per' = per
  BY <1>rec, <1>d, <1>g DEF BufferTypes, fits
<1>perx. \A y \in tree \ old : per'[y[1]] = per[y[1]]
  <2>1. \A y \in tree : y \in Valid /\ y[1] \in Groups  BY BdsFacts DEF TreeInv, Valid
  <2> QED  BY <2>1, <1>per, <1>inold
<1>tree. tree' = (tree \ old) \cup {b}  BY <1>rec
<1>valid. /\ fits => Valid' = Valid
          /\ ~fits => Valid' = (Valid \ old) \cup GroupBds(g, n)
          /\ ~fits => b = <<g, 0>> /\ old = {y \in Valid : y[1] = g}
  <2>1. fits => Valid' = Valid  BY <1>per DEF Valid
  <2>2. Valid' = {y \in Bds : y \in GroupBds(y[1], per'[y[1]])}  BY DEF Valid, Bds, GroupBds
  <2>3. \A y \in Bds : y[1] \in Groups  BY BdsFacts
  <2>4. GroupBds(g, n) \subseteq Bds /\ \A y \in GroupBds(g, n) : y[1] = g
    BY <1>d, <1>g, GroupBdsFacts
  <2>5. ASSUME ~fits  PROVE Valid' = (Valid \ old) \cup GroupBds(g, n)
    <3>1. ASSUME NEW y \in Bds  PROVE y \in Valid' <=> y \in (Valid \ old) \cup GroupBds(g, n)
      <4>1. CASE y[1] = g
        <5>1. y \in Valid' <=> y \in GroupBds(g, n)  BY <4>1, <2>2, <1>per
        <5>2. y \notin Valid \ old  BY <4>1, <2>5, <1>inold
        <5> QED  BY <5>1, <5>2
      <4>2. CASE y[1] # g
        <5>1. y \in Valid' <=> y \in Valid  BY <4>2, <2>2, <2>3, <1>per DEF Valid
        <5>2. y \notin GroupBds(g, n) /\ y \notin old  BY <4>2, <2>4, <1>old
        <5> QED  BY <5>1, <5>2
      <4> QED  BY <4>1, <4>2
    <3>2. Valid' \subseteq Bds /\ Valid \subseteq Bds  BY <2>2 DEF Valid
    <3> QED  BY <3>1, <3>2, <2>4
  <2>6. ASSUME ~fits  PROVE b = <<g, 0>> /\ old = {y \in Valid : y[1] = g}
    <3>1. b = <<g, 0>>  BY <2>6, <1>rec
    <3>2. old = GroupBds(g, per[g])  BY <2>6 DEF old, fits, g, x, n
    <3>3. \A y \in old : y \in Valid  BY <3>2, <1>old DEF Valid
    <3> QED  BY <3>1, <3>3, <2>6, <1>old, <1>inold
  <2> QED  BY <2>1, <2>5, <2>6
<1>intree. tree' \subseteq Valid'
  <2>1. tree \subseteq Valid  BY DEF TreeInv
  <2>2. CASE fits  BY <2>1, <2>2, <1>valid, <1>tree, <1>rec, <1>g
  <2>3. CASE ~fits
    <3>1. b \in GroupBds(g, n)  BY <2>3, <1>valid, <1>d, <1>g, GroupBdsFacts
    <3> QED  BY <3>1, <2>1, <2>3, <1>valid, <1>tree
  <2> QED  BY <2>2, <2>3
<1>fresh. Fresh(k, b, s, old)
  BY <1>old, <1>types, <1>cur, <1>tree, <1>intree, <1>per, <1>perx, <1>fault DEF Fresh, n
<1>w. Lists(Without(lru, old), L \ old)  BY <1>lru, WithoutLists
<1>l. (Valid \cap InState({"FREE", "CACHED"}))' = {y \in Bds : y \in Valid' /\ state'[y] \in {"FREE", "CACHED"}}
  BY DEF InState, Valid, Bds
<1>s. s \notin {"FREE", "CACHED"}  OBVIOUS
<1>list. Lists(lru', (Valid \cap InState({"FREE", "CACHED"}))')
  <2>1. CASE fits
    <3>1. old = {b}  BY <2>1, <1>rec DEF old
    <3>2. lru' = Without(lru, old)
      <4>1. lru' = <<>> \o Without(lru, old)  BY <2>1, <1>rec
      <4>2. Without(lru, old) \in Seq(L \ old)  BY <1>w DEF Lists
      <4> QED  BY <4>1, <4>2
    <3>3. (Valid \cap InState({"FREE", "CACHED"}))' = L \ old
      BY <2>1, <3>1, <1>l, <1>s, <1>types, <1>valid DEF InState
    <3> QED  BY <3>2, <3>3, <1>w
  <2>2. CASE ~fits
    <3>1. lru' = new \o Without(lru, old)  BY <2>2, <1>rec
    <3>2. Lists(new, GroupBds(g, n) \ {b})
      BY <2>2, <1>d, <1>g, <1>valid, NewLists DEF new
    <3>3. \A y \in GroupBds(g, n) : y[1] = g /\ y \in Bds  BY <1>d, <1>g, GroupBdsFacts
    <3>4. (GroupBds(g, n) \ {b}) \cap (L \ old) = {}  BY <3>3, <2>2, <1>valid
    <3>5. Lists(lru', (GroupBds(g, n) \ {b}) \cup (L \ old))
      BY <3>1, <3>2, <3>4, <1>w, ConcatLists
    <3>6. ASSUME NEW y \in Bds
          PROVE  y \in Valid' /\ state'[y] \in {"FREE", "CACHED"} <=> y \in (GroupBds(g, n) \ {b}) \cup (L \ old)
      <4>1. CASE y \in GroupBds(g, n)
        <5>1. y \in Valid' /\ y[1] = g  BY <4>1, <2>2, <1>valid, <3>3
        <5>2. y \notin L \ old  BY <5>1, <2>2, <1>valid
        <5>3. y # b => state'[y] = "FREE"
          <6>1. CASE y \in old  BY <6>1, <1>types
          <6>2. CASE y \notin old
            <7>1. y \notin Valid  BY <6>2, <5>1, <2>2, <1>valid
            <7>2. state[y] = "FREE"  BY <7>1 DEF TreeInv
            <7> QED  BY <7>2, <6>2, <1>types
          <6> QED  BY <6>1, <6>2
        <5>4. y = b => state'[y] \notin {"FREE", "CACHED"}  BY <1>types, <1>s
        <5> QED  BY <4>1, <5>1, <5>2, <5>3, <5>4
      <4>2. CASE y \notin GroupBds(g, n)
        <5>1. y \in Valid' <=> y \in Valid \ old  BY <4>2, <2>2, <1>valid
        <5>2. y \notin old => state'[y] = state[y]  BY <1>types
        <5>3. y \in L <=> y \in Valid /\ state[y] \in {"FREE", "CACHED"}  BY DEF InState
        <5> HIDE DEF L
        <5> QED  BY <4>2, <5>1, <5>2, <5>3
      <4> QED  BY <4>1, <4>2
    <3>7. (GroupBds(g, n) \ {b}) \cup (L \ old) \subseteq Bds  BY <3>3 DEF Valid
    <3>8. (Valid \cap InState({"FREE", "CACHED"}))' = (GroupBds(g, n) \ {b}) \cup (L \ old)
      <4> HIDE DEF L
      <4> QED  BY <3>6, <3>7, <1>l
    <3> QED  BY <3>5, <3>8
  <2> QED  BY <2>1, <2>2
<1> QED  BY <1>fresh, <1>list

(* A buffer made for block k, which was in no buffer, keeps tree, owners,   *)
(* promises and contents right.                                             *)
LEMMA FreshInv ==
    ASSUME Core, NEW k \in Keys, Search(k) = {}, NEW b, NEW s \in {"EMPTY", "TRANSFER"}, NEW old,
           Fresh(k, b, s, old), UNCHANGED <<wlist, wpc, spc, dcur, lost, dsize, hold>>,
           UNCHANGED <<synclock, sync_active, sync_device, sdone, promised>>,
           \A v \in Users : /\ pc'[v] \in {"request", "event"} <=> pc[v] \in {"request", "event"}
                            /\ pc[v] = "event" => pc'[v] = "event"
                            /\ pc[v] \in Own => pc'[v] = pc[v] /\ bd'[v] = bd[v]
                            /\ pc'[v] \in Own => pc[v] \in Own,
           users' \in [Groups -> Int]
    PROVE  BufferTypes' /\ TreeInv' /\ OwnInv' /\ SyncInv' /\ DataInv'
<1> USE CoreParts
<1>b. b \in Bds /\ b \in old /\ old \subseteq Bds  BY DEF Fresh
<1>old. \A y \in old : state[y] \in {"FREE", "CACHED"} /\ \A v \in Users : bd[v] # y  BY DEF Fresh
<1>out. \A y \in Bds \ old : state'[y] = state[y] /\ key'[y] = key[y] /\ cur'[y] = cur[y]
  BY DEF Fresh
<1>st. state'[b] = s /\ (\A y \in old \ {b} : state'[y] = "FREE") /\ key'[b] = k  BY DEF Fresh
<1>t. tree' = (tree \ old) \cup {b} /\ tree' \subseteq Valid'  BY DEF Fresh
<1>in. tree \subseteq Bds /\ \A y \in tree : key[y] # k  BY DEF BufferTypes, Search
<1>bt. BufferTypes'
  <2>1. tree' \subseteq Bds  BY <1>t, <1>b, <1>in
  <2>2. dcur' \in [Keys -> BOOLEAN] /\ hold' \in [Bds -> 0 .. Hold] /\ dsize' \in [Devices -> Sizes]
    BY DEF BufferTypes
  <2> QED  BY <2>1, <2>2 DEF BufferTypes, Fresh
<1>tree. TreeInv'
  <2>1. ASSUME NEW x \in Bds  PROVE x \in tree' <=> state'[x] # "FREE"
    <3>1. CASE x = b  BY <3>1, <1>st, <1>t
    <3>2. CASE x \in old \ {b}  BY <3>2, <1>st, <1>t
    <3>3. CASE x \notin old  BY <3>3, <1>out, <1>t, <1>b DEF TreeInv
    <3> QED  BY <3>1, <3>2, <3>3
  <2>2. \A x \in tree' : x # b => x \in tree /\ x \in Bds /\ key'[x] = key[x]
    BY <1>t, <1>out, <1>in
  <2>3. \A x \in tree' : key'[x] \in Keys  BY <2>2, <1>st DEF TreeInv
  <2>4. \A x, y \in tree' : key'[x] = key'[y] => x = y  BY <2>2, <1>st, <1>in DEF TreeInv
  <2> QED  BY <2>1, <2>3, <2>4, <1>t DEF TreeInv, Bds
<1>own. OwnInv'
  <2>1. ASSUME NEW v \in Users, pc'[v] \in Own
        PROVE  pc'[v] = pc[v] /\ bd'[v] = bd[v] /\ state'[bd[v]] = state[bd[v]]
    <3>1. pc[v] \in Own /\ pc'[v] = pc[v] /\ bd'[v] = bd[v]  BY <2>1
    <3>2. bd[v] \in Bds \ old  BY <3>1, <1>old, OwnFacts
    <3> QED  BY <3>1, <3>2, <1>out
  <2> QED  BY <2>1 DEF OwnInv, Own
<1>wl. \A w \in Writers : \A x \in wlist[w] : x \in Bds \ old
  BY <1>old DEF WriterInv, TaskTypes, Moving
<1>sync. SyncInv'
  <2>1. \A x \in tree : key[x] \in promised' /\ Unwritten(x) =>
          x \in tree' /\ key'[x] = key[x] /\ Unwritten(x)'
    <3> SUFFICES ASSUME NEW x \in tree, Unwritten(x)  PROVE x \in tree' /\ key'[x] = key[x] /\ Unwritten(x)'
      OBVIOUS
    <3>1. x \in Bds \ old  BY <1>old, <1>wl, <1>in DEF Unwritten, Writers
    <3> QED  BY <3>1, <1>out, <1>t DEF Unwritten
  <2> QED  BY <2>1, SyncFrame
<1>saved. ASSUME NEW x \in tree, Saved(x)
          PROVE  x \in tree' /\ key'[x] = key[x] /\ cur'[x] = cur[x] /\ Saved(x)'
  <2>1. x \in Bds \ old
    <3>1. CASE state[x] \in Dirty  BY <3>1, <1>old, <1>in DEF Dirty
    <3>2. CASE \E w \in Writers : x \in wlist[w]  BY <3>2, <1>wl
    <3>3. CASE \E v \in Users : bd[v] = x /\ pc[v] \in {"synclock", "relock"}
      BY <3>3, <1>old, <1>in
    <3> QED  BY <3>1, <3>2, <3>3, <1>saved DEF Saved
  <2>2. \A v \in Users : pc[v] \in {"synclock", "relock"} => pc'[v] = pc[v] /\ bd'[v] = bd[v]
    BY DEF Own
  <2>3. Saved(x)'  BY <2>1, <2>2, <1>saved, <1>out DEF Saved, Writers
  <2> QED  BY <2>1, <2>3, <1>out, <1>t
<1>data. DataInv'
  <2>1. ASSUME NEW x \in Bds
        PROVE  /\ state'[x] \in Clean => cur'[x] \/ key'[x] \in lost'
               /\ state'[x] \in Dirty => cur'[x]
    <3>1. x \in old => state'[x] \notin Clean \cup Dirty  BY <1>st, <1>b DEF Clean, Dirty
    <3> QED  BY <3>1, <1>out DEF DataInv
  <2>2. \A w \in Writers : \A x \in wlist'[w] : cur'[x]  BY <1>wl, <1>out DEF DataInv
  <2>3. ASSUME NEW v \in Users, pc'[v] \in {"synclock", "relock"}  PROVE cur'[bd'[v]]
    <3>1. pc[v] \in Own /\ pc'[v] = pc[v] /\ bd'[v] = bd[v]  BY <2>3 DEF Own
    <3>2. bd[v] \in Bds \ old  BY <3>1, <1>old, OwnFacts
    <3> QED  BY <3>1, <3>2, <2>3, <1>out DEF DataInv
  <2>4. ASSUME NEW l \in Keys, ~dcur'[l], l \notin lost'  PROVE \E x \in Search(l)' : cur'[x] /\ Saved(x)'
    <3>1. PICK x \in Search(l) : cur[x] /\ Saved(x)  BY <2>4 DEF DataInv
    <3>2. x \in tree' /\ key'[x] = l /\ cur'[x] = cur[x] /\ Saved(x)'
      BY <3>1, <1>saved DEF Search
    <3> QED  BY <3>1, <3>2 DEF Search
  <2> QED  BY <2>1, <2>2, <2>3, <2>4 DEF DataInv, Bds, Keys, Writers
<1> QED  BY <1>bt, <1>tree, <1>own, <1>sync, <1>data

(* The modified list and the sync list are left alone. *)
LEMMA FreshLists ==
    ASSUME Core, NEW k \in Keys, NEW b, NEW s \in {"EMPTY", "TRANSFER"}, NEW old,
           Fresh(k, b, s, old), UNCHANGED <<modified, syncq>>,
           Lists(lru', (Valid \cap InState({"FREE", "CACHED"}))')
    PROVE  ListInv'
<1> USE CoreParts
<1>1. \A y \in old : state[y] \notin {"MODIFIED", "SYNC"} /\ state'[y] \notin {"MODIFIED", "SYNC"}
  BY DEF Fresh
<1>2. \A y \in Bds \ old : state'[y] = state[y]  BY DEF Fresh
<1>3. InState({"MODIFIED"})' = {y \in Bds : state'[y] \in {"MODIFIED"}}
      /\ InState({"SYNC"})' = {y \in Bds : state'[y] \in {"SYNC"}}
  BY DEF InState
<1>4. InState({"MODIFIED"})' = InState({"MODIFIED"})  BY <1>1, <1>2, <1>3 DEF InState
<1>5. InState({"SYNC"})' = InState({"SYNC"})  BY <1>1, <1>2, <1>3 DEF InState
<1> QED  BY <1>4, <1>5 DEF ListInv

(* A buffer made for block k has the size of its device. *)
LEMMA FreshSize ==
    ASSUME Core, NEW k \in Keys, NEW b, NEW s, NEW old, Fresh(k, b, s, old),
           UNCHANGED <<dsize, resized, ret>>, pc' \in [Users -> UserPC],
           \A v \in Users : /\ pc'[v] # "recycle" /\ pc[v] \notin At
                            /\ pc'[v] # "syncwait"
                            /\ pc'[v] \in {"sleep", "woken"} <=> pc[v] \in {"sleep", "woken"}
                            /\ bd'[v] = bd[v] \/ (bd[v] = None /\ bd'[v] = b)
    PROVE  SizeInv'
<1> USE CoreParts
<1> SUFFICES ASSUME ~resized  PROVE SizeInv'
  BY DEF SizeInv
<1>1. tree' = (tree \ old) \cup {b} /\ key'[b] = k /\ per'[b[1]] = dsize[k[1]] /\ b \in Bds
  BY DEF Fresh
<1>2. \A x \in tree \ old : x \in Bds /\ key'[x] = key[x] /\ state'[x] = state[x] /\ per'[x[1]] = per[x[1]]
  BY DEF Fresh, BufferTypes
<1>3. Fits(b)'
  <2>1. per'[b[1]] = dsize'[key'[b][1]]  BY <1>1
  <2> QED  BY <2>1, <1>1 DEF Fits, Dev
<1>4. \A x \in tree \ old : Fits(x)' <=> Fits(x)  BY <1>2 DEF Fits, Dev
<1>5. \A v \in Users : /\ Asleep(v)' <=> Asleep(v)
                       /\ Syncing(v) => Syncing(v)'
  BY DEF Asleep, Syncing, At
<1>6. ASSUME NEW x \in tree', ~Fits(x)'
      PROVE  /\ state'[x] = "EMPTY"
             /\ \E v \in Users : bd'[v] = x /\ Syncing(v)'
             /\ \A v \in Users : bd'[v] = x => Syncing(v)' \/ pc'[v] = "recycle"
  <2>1. x # b /\ x \in tree \ old /\ ~Fits(x)  BY <1>1, <1>3, <1>4, <1>6
  <2>2. x # None /\ state'[x] = state[x]  BY <2>1, <1>2, BdsFacts
  <2>3. state[x] = "EMPTY" /\ \A v \in Users : bd[v] = x => Syncing(v) \/ pc[v] = "recycle"
    BY <2>1 DEF SizeInv
  <2>4. PICK v \in Users : bd[v] = x /\ Syncing(v)  BY <2>1 DEF SizeInv
  <2>5. bd'[v] = x /\ Syncing(v)'  BY <2>2, <2>4, <1>5
  <2>6. \A y \in Users : bd'[y] = x => bd[y] = x  BY <2>1
  <2>7. \A y \in Users : pc[y] # "recycle"  BY DEF At
  <2> QED  BY <2>2, <2>3, <2>5, <2>6, <2>7, <1>5
<1>7. \A v \in Users : /\ pc'[v] = "recycle" => ~Fits(bd[v])'
                       /\ Asleep(v)' => ret'[v] # "recycle"
  BY <1>5 DEF SizeInv
<1> QED  BY <1>6, <1>7 DEF SizeInv

(* rtems_bdbuf_get_buffer_for_access making a buffer for a block that is    *)
(* not cached keeps the invariant.                                          *)
LEMMA FindMissStep ==
    ASSUME Core, NEW u \in Users, FindMiss(u)
    PROVE  Always' /\ OwnInv'
<1> USE CoreParts DEF bufvars, listvars, grpvars, waitvars, syncvars, swapvars, ravars, datavars, racevars
<1>pc. pc[u] = "find" /\ pc[u] \in Locked /\ lock = u /\ want[u] \in Keys /\ bd[u] = None
       /\ pc[u] \notin Own
  BY LockFacts DEF FindMiss, UserInv, Locked, Own
<1>at. \A v \in Users : pc[v] \notin At
  <2>1. \A v \in Users \ {u} : pc[v] \notin Locked  BY <1>pc, LockFacts
  <2> QED  BY <2>1, <1>pc DEF Locked, At
<1>k. PICK k \in Keys : k = want[u]  BY <1>pc
<1>s. Search(k) = {} /\ Candidates(k[1]) # {}  BY <1>k DEF FindMiss
<1>b. PICK b \in Bds : Recycled(k, b, "EMPTY") /\ bd' = [bd EXCEPT ![u] = b]  BY <1>k DEF FindMiss
<1>l. Lists(lru', (Valid \cap InState({"FREE", "CACHED"}))')  BY <1>at, <1>s, <1>b, RecycledFacts
<1>f. PICK old : Fresh(k, b, "EMPTY", old)  BY <1>at, <1>s, <1>b, RecycledFacts
<1>old. /\ \A y \in old : state[y] \in {"FREE", "CACHED"} /\ \A v \in Users : bd[v] # y
        /\ \A y \in Bds \ old : state'[y] = state[y] /\ key'[y] = key[y]
        /\ state'[b] = "EMPTY" /\ key'[b] = k /\ (\A y \in old \ {b} : state'[y] = "FREE")
        /\ tree' = (tree \ old) \cup {b} /\ b \in old /\ old \subseteq Bds
  BY <1>f DEF Fresh
<1>same. UNCHANGED <<lock, hold, modified, syncq, users, dsize, op, want, cv, ret,
                     synclock, sync_active, sync_device, sdone, wlist, wpc, spc, upd,
                     rachain, raevent, rapc, rabd, dcur, lost, calls, raced, resized, promised>>
  BY DEF FindMiss
<1>to. /\ pc' \in [Users -> UserPC] /\ pc'[u] = "access"
       /\ \A v \in Users \ {u} : pc'[v] = pc[v] \/ (pc[v] = "sleep" /\ pc'[v] = "woken")
  <2>1. pc' = Wake([pc EXCEPT ![u] = "access"], RecycleWakes(want[u][1]))  BY DEF FindMiss
  <2>2. "access" \in UserPC  BY DEF UserPC
  <2> QED  BY <2>1, <2>2, WakeTo DEF To
<1>bd. bd' \in [Users -> Bds \cup {None}] /\ bd'[u] = b /\ \A v \in Users \ {u} : bd'[v] = bd[v]
  BY <1>b DEF UserTypes
<1>ut. UserTypes' /\ TaskTypes' /\ HistoryTypes'
  BY <1>to, <1>bd, <1>same DEF UserTypes, TaskTypes, HistoryTypes
<1>inv. BufferTypes' /\ TreeInv' /\ OwnInv' /\ SyncInv' /\ DataInv'
  <2>1. \A v \in Users : /\ pc'[v] \in {"request", "event"} <=> pc[v] \in {"request", "event"}
                         /\ pc[v] = "event" => pc'[v] = "event"
                         /\ pc[v] \in Own => pc'[v] = pc[v] /\ bd'[v] = bd[v]
                         /\ pc'[v] \in Own => pc[v] \in Own
    BY <1>to, <1>bd, <1>pc DEF Own
  <2>2. users' \in [Groups -> Int]  BY <1>same DEF BufferTypes
  <2> QED  BY <2>1, <2>2, <1>same, <1>f, <1>s, FreshInv
<1>lock. LockInv'
  <2>1. \A v \in Users : pc'[v] \in Locked <=> pc[v] \in Locked  BY <1>to, <1>pc DEF Locked
  <2> QED  BY <2>1, <1>same DEF LockInv
<1>user. UserInv'
  <2>1. ASSUME NEW v \in Users, v # u, bd'[v] # None  PROVE bd'[v] \in tree' /\ key'[bd'[v]] = want'[v]
    <3>1. bd'[v] = bd[v] /\ want'[v] = want[v] /\ bd[v] \in tree /\ key[bd[v]] = want[v] /\ bd[v] \in Bds
      BY <2>1, <1>bd, <1>same, BdFacts
    <3> QED  BY <3>1, <1>old
  <2>2. ASSUME NEW v \in Users, v # u
        PROVE  /\ pc'[v] \in {"idle", "find", "request", "event", "resize"} => bd'[v] = None
               /\ pc'[v] \in Own \cup At => bd'[v] # None
               /\ pc'[v] = "find" => want'[v] \in Keys
               /\ pc'[v] \in {"request", "event", "resize"} => want'[v] \in Devices
               /\ Asleep(v)' => ret'[v] \in Locked /\ (bd'[v] = None <=> ret'[v] = "find") /\ want'[v] \in Keys
    BY <2>2, <1>to, <1>bd, <1>same DEF UserInv, Asleep, Own, At
  <2>3. bd'[u] # None /\ bd'[u] \in tree' /\ key'[bd'[u]] = want'[u]
    BY <1>bd, <1>old, <1>same, <1>k, BdsFacts
  <2>4. ASSUME NEW v \in Users
        PROVE  /\ bd'[v] # None => bd'[v] \in tree' /\ key'[bd'[v]] = want'[v]
               /\ pc'[v] \in {"idle", "find", "request", "event", "resize"} => bd'[v] = None
               /\ pc'[v] \in Own \cup At => bd'[v] # None
               /\ pc'[v] = "find" => want'[v] \in Keys
               /\ pc'[v] \in {"request", "event", "resize"} => want'[v] \in Devices
               /\ Asleep(v)' => ret'[v] \in Locked /\ (bd'[v] = None <=> ret'[v] = "find") /\ want'[v] \in Keys
    <3>1. CASE v = u  BY <3>1, <2>3, <1>to DEF Asleep
    <3>2. CASE v # u  BY <3>2, <2>1, <2>2
    <3> QED  BY <3>1, <3>2
  <2> QED  BY <2>4 DEF UserInv, Asleep
<1>list. ListInv'  BY <1>f, <1>l, <1>same, FreshLists
<1>writer. WriterInv'
  <2>1. \A v \in Users : pc'[v] = "reading" => pc[v] = "reading" /\ bd'[v] = bd[v]
    BY <1>to, <1>bd
  <2>2. \A x \in Bds : state[x] \in Moving => state'[x] = state[x] /\ key'[x] = key[x]
    BY <1>old DEF Moving
  <2>3. \A w \in Writers : \A x \in wlist[w] : state'[x] \in Moving /\ key'[x] = key[x]
    BY <2>2 DEF WriterInv, TaskTypes
  <2>4. rapc = "reading" => state'[rabd] \in Moving  BY <2>2 DEF WriterInv
  <2> QED  BY <2>1, <2>3, <2>4, <1>same, WriterFrame
<1>empty. EmptyInv'
  <2>1. SUFFICES ASSUME NEW x \in Bds, state'[x] = "EMPTY"
                 PROVE  \E v \in Users : bd'[v] = x /\ pc'[v] \in {"sleep", "woken"} \cup At
    BY DEF EmptyInv, Bds, Asleep, At
  <2>2. CASE x = b  BY <2>2, <1>to, <1>bd DEF At
  <2>3. CASE x # b
    <3>1. state[x] = "EMPTY"  BY <2>1, <2>3, <1>old
    <3>2. PICK v \in Users : bd[v] = x /\ Asleep(v)  BY <3>1, <1>at DEF EmptyInv
    <3>3. v # u  BY <3>2, <1>pc DEF Asleep
    <3> QED  BY <3>2, <3>3, <1>to, <1>bd DEF Asleep
  <2> QED  BY <2>2, <2>3
<1>count. CountInv'
  <2>1. \A g : Sleepers(pc', bd', g) = Sleepers(pc, bd, g)
    BY <1>to, <1>bd, <1>pc DEF Sleepers
  <2>2. \A x \in Bds : state'[x] \in UsesGroup <=> state[x] \in UsesGroup
    BY <1>old DEF UsesGroup, InAccess, InTransfer
  <2> QED  BY <2>1, <2>2, <1>same, CountSame
<1>size. SizeInv'
  <2>1. \A v \in Users : /\ pc'[v] # "recycle" /\ pc[v] \notin At
                         /\ pc'[v] # "syncwait"
                         /\ pc'[v] \in {"sleep", "woken"} <=> pc[v] \in {"sleep", "woken"}
                         /\ bd'[v] = bd[v] \/ (bd[v] = None /\ bd'[v] = b)
    BY <1>to, <1>bd, <1>at, <1>pc DEF At
  <2> QED  BY <2>1, <1>to, <1>f, <1>same, FreshSize
<1>fault. FaultInv'  BY <1>f, <1>same DEF FaultInv, Fresh
<1> QED
  BY <1>ut, <1>inv, <1>lock, <1>user, <1>list, <1>writer, <1>empty, <1>count, <1>size, <1>fault
     DEF Always

(* The read-ahead task making a buffer and starting its transfer keeps the  *)
(* invariant.                                                               *)
LEMMA RaReadStep ==
    ASSUME Core, RaRead
    PROVE  Always' /\ OwnInv'
<1> USE CoreParts DEF bufvars, listvars, grpvars, waitvars, syncvars, swapvars, ravars, datavars, racevars
<1>pc. rapc = "loop" /\ lock = RA /\ \A v \in Users : pc[v] \notin Locked
  BY LockFacts DEF RaRead
<1>at. \A v \in Users : pc[v] \notin At  BY <1>pc DEF Locked, At
<1>p. PICK d \in rachain, n \in Nums, b \in Bds :
        /\ Search(<<d, n>>) = {} /\ Candidates(d) # {}
        /\ Recycled(<<d, n>>, b, "TRANSFER")
        /\ users' = [users EXCEPT ![b[1]] = @ + 1]
        /\ rachain' = rachain \ {d}
        /\ rabd' = b
        /\ pc' = Wake(pc, RecycleWakes(d))
  BY DEF RaRead
<1>dn. d \in Devices /\ n \in Nums  BY DEF TaskTypes
<1>kk. <<d, n>> \in Keys /\ <<d, n>>[1] = d  BY <1>dn DEF Keys
<1>k. PICK k \in Keys : k = <<d, n>> /\ k[1] = d  BY <1>kk
<1>s. Search(k) = {} /\ Candidates(k[1]) # {} /\ Recycled(k, b, "TRANSFER")  BY <1>k, <1>p
<1>l. Lists(lru', (Valid \cap InState({"FREE", "CACHED"}))')  BY <1>at, <1>s, RecycledFacts
<1>f. PICK old : Fresh(k, b, "TRANSFER", old)  BY <1>at, <1>s, RecycledFacts
<1>old. /\ \A y \in old : state[y] \in {"FREE", "CACHED"} /\ \A v \in Users : bd[v] # y
        /\ \A y \in Bds \ old : state'[y] = state[y] /\ key'[y] = key[y]
        /\ state'[b] = "TRANSFER" /\ key'[b] = k /\ (\A y \in old \ {b} : state'[y] = "FREE")
        /\ tree' = (tree \ old) \cup {b} /\ b \in old /\ old \subseteq Bds
  BY <1>f DEF Fresh
<1>same. UNCHANGED <<hold, modified, syncq, dsize, op, want, bd, cv, ret,
                     synclock, sync_active, sync_device, sdone, wlist, wpc, spc, upd,
                     raevent, dcur, lost, calls, raced, resized, promised>>
         /\ rapc' = "reading" /\ lock' = None
  BY DEF RaRead
<1>to. pc' \in [Users -> UserPC] /\ \A v \in Users : pc'[v] = pc[v] \/ (pc[v] = "sleep" /\ pc'[v] = "woken")
  BY <1>p, WakeWoken DEF Woken
<1>ut. UserTypes' /\ HistoryTypes'
  BY <1>to, <1>same DEF UserTypes, HistoryTypes
<1>tt. TaskTypes'  BY <1>p, <1>same DEF TaskTypes
<1>count. CountInv' /\ users' \in [Groups -> Int]
  <2>1. \A g : Sleepers(pc', bd', g) = Sleepers(pc, bd, g)
    BY <1>to, <1>same DEF Sleepers
  <2>2. /\ state[b] \notin UsesGroup /\ state'[b] \in UsesGroup
        /\ \A x \in Bds \ {b} : state'[x] \in UsesGroup <=> state[x] \in UsesGroup
    BY <1>old DEF UsesGroup, InAccess, InTransfer
  <2> QED  BY <2>1, <2>2, <1>p, CountMore
<1>inv. BufferTypes' /\ TreeInv' /\ OwnInv' /\ SyncInv' /\ DataInv'
  <2>1. \A v \in Users : /\ pc'[v] \in {"request", "event"} <=> pc[v] \in {"request", "event"}
                         /\ pc[v] = "event" => pc'[v] = "event"
                         /\ pc[v] \in Own => pc'[v] = pc[v] /\ bd'[v] = bd[v]
                         /\ pc'[v] \in Own => pc[v] \in Own
    BY <1>to, <1>same DEF Own
  <2> QED  BY <2>1, <1>same, <1>f, <1>s, <1>count, FreshInv
<1>lock. LockInv'
  <2>1. \A v \in Users : pc'[v] \notin Locked  BY <1>to, <1>pc DEF Locked
  <2> QED  BY <2>1, <1>same, NoneAssumption DEF LockInv, RA
<1>user. UserInv'
  <2>1. ASSUME NEW v \in Users, bd'[v] # None  PROVE bd'[v] \in tree' /\ key'[bd'[v]] = want'[v]
    <3>1. bd'[v] = bd[v] /\ want'[v] = want[v] /\ bd[v] \in tree /\ key[bd[v]] = want[v] /\ bd[v] \in Bds
      BY <2>1, <1>same, BdFacts
    <3> QED  BY <3>1, <1>old
  <2>2. ASSUME NEW v \in Users
        PROVE  /\ pc'[v] \in {"idle", "find", "request", "event", "resize"} => bd'[v] = None
               /\ pc'[v] \in Own \cup At => bd'[v] # None
               /\ pc'[v] = "find" => want'[v] \in Keys
               /\ pc'[v] \in {"request", "event", "resize"} => want'[v] \in Devices
               /\ Asleep(v)' => ret'[v] \in Locked /\ (bd'[v] = None <=> ret'[v] = "find") /\ want'[v] \in Keys
    BY <1>to, <1>same DEF UserInv, Asleep, Own, At
  <2> QED  BY <2>1, <2>2 DEF UserInv, Asleep
<1>list. ListInv'  BY <1>f, <1>l, <1>same, FreshLists
<1>writer. WriterInv'
  <2>1. \A v \in Users : pc'[v] = "reading" => pc[v] = "reading" /\ bd'[v] = bd[v]
    BY <1>to, <1>same
  <2>2. \A x \in Bds : state[x] \in Moving => state'[x] = state[x] /\ key'[x] = key[x] /\ x # b
    BY <1>old DEF Moving
  <2>3. \A w : Writing(w)' <=> Writing(w)  BY <1>same DEF Writing
  <2>4. \A w \in Writers : \A x \in wlist[w] : x \in Bds /\ state[x] \in Moving
    BY DEF WriterInv, TaskTypes
  <2>5. \A w \in Writers : \A x \in wlist[w] : Dev(x)' = Dev(x)  BY <2>2, <2>4 DEF Dev
  <2>6. ASSUME NEW w \in Writers
        PROVE  /\ ~Writing(w)' => wlist'[w] = {}
               /\ \A x \in wlist'[w] : state'[x] \in Moving
               /\ \A x, y \in wlist'[w] : Dev(x)' = Dev(y)'
               /\ \A z \in Writers : \A x \in wlist'[w] \cap wlist'[z] : w = z
               /\ \A v \in Users : pc'[v] = "reading" => bd'[v] \notin wlist'[w]
    BY <2>1, <2>2, <2>3, <2>4, <2>5, <1>same DEF WriterInv
  <2>7. /\ rabd' \in Bds /\ state'[rabd'] \in Moving
        /\ \A w \in Writers : rabd' \notin wlist'[w]
        /\ \A v \in Users : pc'[v] = "reading" => bd'[v] # rabd'
    BY <2>2, <2>4, <1>p, <1>old, <1>same DEF Moving
  <2> QED  BY <2>6, <2>7 DEF WriterInv, Writers, Bds
<1>empty. EmptyInv'
  <2>1. SUFFICES ASSUME NEW x \in Bds, state'[x] = "EMPTY"
                 PROVE  \E v \in Users : bd'[v] = x /\ pc'[v] \in {"sleep", "woken"} \cup At
    BY DEF EmptyInv, Bds, Asleep, At
  <2>2. state[x] = "EMPTY"  BY <2>1, <1>old
  <2>3. PICK v \in Users : bd[v] = x /\ Asleep(v)  BY <2>2, <1>at DEF EmptyInv
  <2> QED  BY <2>3, <1>to, <1>same DEF Asleep
<1>size. SizeInv'
  <2>1. \A v \in Users : /\ pc'[v] # "recycle" /\ pc[v] \notin At
                         /\ pc'[v] # "syncwait"
                         /\ pc'[v] \in {"sleep", "woken"} <=> pc[v] \in {"sleep", "woken"}
                         /\ bd'[v] = bd[v] \/ (bd[v] = None /\ bd'[v] = b)
    BY <1>to, <1>same, <1>at DEF At
  <2> QED  BY <2>1, <1>to, <1>f, <1>same, FreshSize
<1>fault. FaultInv'  BY <1>f, <1>same DEF FaultInv, Fresh
<1> QED
  BY <1>ut, <1>tt, <1>inv, <1>lock, <1>user, <1>list, <1>writer, <1>empty, <1>count, <1>size,
     <1>fault DEF Always

-----------------------------------------------------------------------------
(* Steps that change several buffers: purging, the scan, and the end of a   *)
(* transfer of the tasks                                                    *)

(* The users keep what they have; others are woken. *)
Stirs ==
    /\ pc' \in [Users -> UserPC] /\ bd' = bd /\ ret' = ret
    /\ \A v \in Users :
        /\ \/ pc'[v] = pc[v]
           \/ (pc[v] = "sleep" /\ pc'[v] = "woken")
           \/ (pc[v] = "resize" /\ pc'[v] = "idle")
        /\ want'[v] = want[v] \/ pc'[v] = "idle"

(* The buffers in F become free, which nobody has, the others are not lost. *)
Frees(F) ==
    /\ state' \in [Bds -> States] /\ key' \in [Bds -> Keys \cup {None}]
    /\ F \subseteq tree /\ tree' = tree \ F
    /\ \A x \in Bds : state'[x] = "FREE" <=> state[x] = "FREE" \/ x \in F
    /\ \A x \in Bds \ F : key'[x] = key[x]
    /\ \A x \in F : \A v \in Users : bd[v] # x
    /\ \A x \in Bds : state'[x] = "EMPTY" => state[x] = "EMPTY" \/ Waited(x)

(* A wake changes nothing but sleep to woken. *)
LEMMA StirsFacts ==
    ASSUME Stirs
    PROVE  \A v \in Users :
             /\ pc'[v] \in {"sleep", "woken"} <=> pc[v] \in {"sleep", "woken"}
             /\ pc'[v] \in Locked <=> pc[v] \in Locked
             /\ pc'[v] \in At <=> pc[v] \in At
             /\ pc'[v] \in Own <=> pc[v] \in Own
             /\ pc'[v] \in Locked \cup At \cup Own => pc'[v] = pc[v]
             /\ pc'[v] = "recycle" <=> pc[v] = "recycle"
             /\ pc'[v] = "reading" <=> pc[v] = "reading"
             /\ pc'[v] = "hold" <=> pc[v] = "hold"
             /\ pc'[v] \in {"synclock", "relock"} <=> pc[v] \in {"synclock", "relock"}
             /\ pc'[v] \in {"request", "event"} <=> pc[v] \in {"request", "event"}
             /\ pc[v] = "event" => pc'[v] = "event"
             /\ Asleep(v)' <=> Asleep(v)
             /\ Syncing(v)' <=> Syncing(v)
<1> SUFFICES ASSUME NEW v \in Users
             PROVE  /\ pc'[v] \in {"sleep", "woken"} <=> pc[v] \in {"sleep", "woken"}
                    /\ pc'[v] \in Locked <=> pc[v] \in Locked
                    /\ pc'[v] \in At <=> pc[v] \in At
                    /\ pc'[v] \in Own <=> pc[v] \in Own
                    /\ pc'[v] \in Locked \cup At \cup Own => pc'[v] = pc[v]
                    /\ pc'[v] = "recycle" <=> pc[v] = "recycle"
                    /\ pc'[v] = "reading" <=> pc[v] = "reading"
                    /\ pc'[v] = "hold" <=> pc[v] = "hold"
                    /\ pc'[v] \in {"synclock", "relock"} <=> pc[v] \in {"synclock", "relock"}
                    /\ pc'[v] \in {"request", "event"} <=> pc[v] \in {"request", "event"}
                    /\ pc[v] = "event" => pc'[v] = "event"
                    /\ Asleep(v)' <=> Asleep(v)
                    /\ Syncing(v)' <=> Syncing(v)
  OBVIOUS
<1>1. \/ pc'[v] = pc[v]
      \/ (pc[v] = "sleep" /\ pc'[v] = "woken")
      \/ (pc[v] = "resize" /\ pc'[v] = "idle")
  BY DEF Stirs
<1>2. ret'[v] = ret[v]  BY DEF Stirs
<1>3. Asleep(v)' <=> Asleep(v)  BY <1>1 DEF Asleep
<1>4. Syncing(v)' <=> Syncing(v)  BY <1>1, <1>2, <1>3 DEF Syncing
<1> QED  BY <1>1, <1>3, <1>4 DEF Locked, At, Own

(* A wake changes no set of sleepers: the woken count until they have the   *)
(* mutex.                                                                   *)
LEMMA StirsSleepers ==
    ASSUME Stirs
    PROVE  \A g : Sleepers(pc', bd', g) = Sleepers(pc, bd, g)
<1>1. \A v \in Users : pc'[v] \in {"sleep", "woken"} <=> pc[v] \in {"sleep", "woken"}
  BY StirsFacts
<1>2. bd' = bd  BY DEF Stirs
<1> QED  BY <1>1, <1>2 DEF Sleepers

(* A buffer in transfer, or in the cache, is had only by those who sleep. *)
LEMMA OnlyWaiters ==
    ASSUME Core, lock = None, NEW b \in Bds, \A v \in Users : bd[v] = b => pc[v] \notin Own
    PROVE  \A v \in Users : bd[v] = b => Asleep(v) /\ Waited(b)
<1> USE CoreParts
<1> SUFFICES ASSUME NEW v \in Users, bd[v] = b  PROVE Asleep(v)
  BY DEF Waited
<1>1. pc[v] \notin Locked /\ pc[v] \notin Own  BY LockFacts
<1>2. pc[v] \notin {"idle", "find", "request", "event", "resize"}  BY BdsFacts DEF UserInv
<1> QED  BY <1>1, <1>2 DEF UserTypes, UserPC, Own, Locked, Asleep

(* When several buffers change, users, tree and EMPTY buffers are right if  *)
(* only buffers nobody has become free.                                     *)
LEMMA BulkUsers ==
    ASSUME Core, NEW F, Stirs, Frees(F), per' = per
    PROVE  UserInv' /\ TreeInv' /\ EmptyInv'
<1> USE CoreParts
<1>st. \A v \in Users : /\ pc'[v] \in {"sleep", "woken"} <=> pc[v] \in {"sleep", "woken"}
                        /\ pc'[v] \in At <=> pc[v] \in At
                        /\ pc'[v] \in Own <=> pc[v] \in Own
                        /\ Asleep(v)' <=> Asleep(v)
  BY StirsFacts
<1>mv. \A v \in Users : /\ \/ pc'[v] = pc[v]
                           \/ (pc[v] = "sleep" /\ pc'[v] = "woken")
                           \/ (pc[v] = "resize" /\ pc'[v] = "idle")
                        /\ want'[v] = want[v] \/ pc'[v] = "idle"
                        /\ bd'[v] = bd[v] /\ ret'[v] = ret[v]
  BY DEF Stirs
<1>in. tree \subseteq Bds /\ F \subseteq tree /\ tree' = tree \ F  BY DEF BufferTypes, Frees
<1>user. UserInv'
  <2> SUFFICES ASSUME NEW v \in Users
        PROVE  /\ bd'[v] # None => bd'[v] \in tree' /\ key'[bd'[v]] = want'[v]
               /\ pc'[v] \in {"idle", "find", "request", "event", "resize"} => bd'[v] = None
               /\ pc'[v] \in Own \cup At => bd'[v] # None
               /\ pc'[v] = "find" => want'[v] \in Keys
               /\ pc'[v] \in {"request", "event", "resize"} => want'[v] \in Devices
               /\ Asleep(v)' => /\ ret'[v] \in Locked
                                /\ bd'[v] = None <=> ret'[v] = "find"
                                /\ want'[v] \in Keys
    BY DEF UserInv, Asleep
  <2>1. pc'[v] \in {"idle", "find", "request", "event", "resize"} =>
          pc[v] \in {"idle", "find", "request", "event", "resize"}
    BY <1>mv
  <2>2. pc'[v] \in {"idle", "find", "request", "event", "resize"} => bd'[v] = None
    BY <2>1, <1>mv DEF UserInv
  <2>3. ASSUME bd'[v] # None  PROVE bd'[v] \in tree' /\ key'[bd'[v]] = want'[v]
    <3>1. bd[v] # None /\ want'[v] = want[v] /\ bd'[v] = bd[v]  BY <2>2, <2>3, <1>mv
    <3>2. bd[v] \in tree /\ bd[v] \in Bds /\ key[bd[v]] = want[v]  BY <3>1, BdFacts
    <3>3. bd[v] \notin F  BY DEF Frees
    <3>4. key'[bd[v]] = key[bd[v]]  BY <3>2, <3>3 DEF Frees
    <3> QED  BY <3>1, <3>2, <3>3, <3>4, <1>in
  <2>4. pc'[v] \in Own \cup At => bd'[v] # None  BY <1>st, <1>mv DEF UserInv
  <2>5. pc'[v] = "find" => want'[v] \in Keys  BY <1>mv DEF UserInv
  <2>6. pc'[v] \in {"request", "event", "resize"} => want'[v] \in Devices
    BY <1>mv DEF UserInv
  <2>7. Asleep(v)' => /\ ret'[v] \in Locked
                      /\ bd'[v] = None <=> ret'[v] = "find"
                      /\ want'[v] \in Keys
    <3>1. Asleep(v)' => Asleep(v) /\ want'[v] = want[v]  BY <1>st, <1>mv DEF Asleep
    <3> QED  BY <3>1, <1>mv DEF UserInv
  <2> QED  BY <2>2, <2>3, <2>4, <2>5, <2>6, <2>7
<1>tree. TreeInv'
  <2>1. \A x \in Bds : x \in tree' <=> state'[x] # "FREE"  BY <1>in DEF TreeInv, Frees
  <2>2. \A x \in tree' : x \in tree /\ x \in Bds /\ key'[x] = key[x]  BY <1>in DEF Frees
  <2>3. Valid' = Valid  BY DEF Valid
  <2> QED  BY <2>1, <2>2, <2>3 DEF TreeInv, Bds
<1>empty. EmptyInv'
  <2>1. SUFFICES ASSUME NEW x \in Bds, state'[x] = "EMPTY"
                 PROVE  \E v \in Users : bd'[v] = x /\ pc'[v] \in {"sleep", "woken"} \cup At
    BY DEF EmptyInv, Bds, Asleep, At
  <2>2. state[x] = "EMPTY" \/ Waited(x)  BY <2>1 DEF Frees
  <2>3. PICK v \in Users : bd[v] = x /\ (Asleep(v) \/ pc[v] \in At)  BY <2>2 DEF EmptyInv, Waited
  <2> QED  BY <2>3, <1>st, <1>mv DEF Asleep
<1> QED  BY <1>user, <1>tree, <1>empty

(* Buffers of the wrong size are left alone as long as no size changes. *)
LEMMA BulkSize ==
    ASSUME Core, NEW F, Stirs, Frees(F), UNCHANGED <<per, dsize, resized>>, lock = None,
           \A x \in Bds : state[x] = "EMPTY" => state'[x] = "EMPTY"
    PROVE  SizeInv'
<1> USE CoreParts
<1> SUFFICES ASSUME ~resized  PROVE SizeInv'
  BY DEF SizeInv
<1>st. \A v \in Users : /\ Syncing(v)' <=> Syncing(v)
                        /\ Asleep(v)' <=> Asleep(v)
                        /\ pc'[v] = "recycle" <=> pc[v] = "recycle"
                        /\ bd'[v] = bd[v] /\ ret'[v] = ret[v]
  BY StirsFacts DEF Stirs
<1>no. \A v \in Users : pc[v] # "recycle"  BY LockFacts DEF Locked
<1>1. ASSUME NEW x \in tree', ~Fits(x)'
      PROVE  /\ state'[x] = "EMPTY"
             /\ \E v \in Users : bd'[v] = x /\ Syncing(v)'
             /\ \A v \in Users : bd'[v] = x => Syncing(v)' \/ pc'[v] = "recycle"
  <2>1. x \in tree /\ x \in Bds /\ key'[x] = key[x]  BY DEF Frees, BufferTypes
  <2>2. ~Fits(x)  BY <1>1, <2>1 DEF Fits, Dev
  <2>3. state[x] = "EMPTY"  BY <2>1, <2>2 DEF SizeInv
  <2>4. /\ \E v \in Users : bd[v] = x /\ Syncing(v)
        /\ \A v \in Users : bd[v] = x => Syncing(v) \/ pc[v] = "recycle"
    BY <2>1, <2>2 DEF SizeInv
  <2> QED  BY <2>1, <2>3, <2>4, <1>st
<1>2. \A v \in Users : /\ pc'[v] # "recycle"
                       /\ Asleep(v)' => ret'[v] # "recycle"
  BY <1>st, <1>no DEF SizeInv
<1> QED  BY <1>1, <1>2 DEF SizeInv

(* Nobody's own buffer changes. *)
LEMMA BulkOwn ==
    ASSUME Core, Stirs,
           \A v \in Users : pc[v] \in Own => state'[bd[v]] = state[bd[v]]
    PROVE  OwnInv'
<1> USE CoreParts
<1>1. \A v \in Users : pc'[v] \in Own => pc[v] \in Own /\ pc'[v] = pc[v] /\ bd'[v] = bd[v]
  BY StirsFacts DEF Stirs
<1> QED  BY <1>1 DEF OwnInv, Own

-----------------------------------------------------------------------------
(* Purging a device *)
Drop(d) == {b \in Cached(d) : state[b] \in {"CACHED", "MODIFIED", "SYNC"}}

(* rtems_bdbuf_gather_for_purge and rtems_bdbuf_purge_list: what becomes of *)
(* each buffer of the device, by its state.                                 *)
LEMMA PurgedBuffers ==
    ASSUME Core, lock = None, NEW d \in Devices, NEW p, Purged(d, p)
    PROVE  /\ Frees(FreeOf(Drop(d)))
           /\ \A x \in Bds \ Cached(d) : state'[x] = state[x]
           /\ \A x \in Drop(d) : state'[x] = Discarded(x) /\ state'[x] \in {"FREE", "EMPTY"}
           /\ \A x \in Cached(d) \ Drop(d) :
                /\ state'[x] \notin {"FREE", "CACHED", "MODIFIED", "SYNC"} \cup Clean \cup Dirty
                /\ state'[x] \in UsesGroup <=> state[x] \in UsesGroup
                /\ state[x] \in Moving => state'[x] \in Moving
                /\ state[x] \in InAccess => state'[x] = "ACCESS_PURGED"
                /\ state[x] \in Moving => state'[x] = "TRANSFER_PURGED"
                /\ state[x] = "EMPTY" <=> state'[x] = "EMPTY"
<1> USE CoreParts
<1> DEFINE F == FreeOf(Drop(d))
<1>p. /\ state' = [b \in Bds |-> IF b \in Cached(d) THEN PurgedState(b) ELSE state[b]]
      /\ key' = [b \in Bds |-> IF b \in F THEN None ELSE key[b]]
      /\ tree' = tree \ F
  BY DEF Purged, Drop
<1>in. Cached(d) \subseteq tree /\ tree \subseteq Bds /\ Drop(d) \subseteq Cached(d) /\ F \subseteq Drop(d)
  BY DEF Cached, BufferTypes, Drop, FreeOf
<1>out. \A x \in Bds \ Cached(d) : state'[x] = state[x]  BY <1>p
<1>drop. ASSUME NEW x \in Drop(d)
         PROVE  /\ state'[x] = Discarded(x) /\ state'[x] \in {"FREE", "EMPTY"}
                /\ state'[x] = "FREE" <=> x \in F
                /\ state'[x] = "EMPTY" => Waited(x)
  <2>1. x \in Bds /\ x \in Cached(d) /\ state[x] \in {"CACHED", "MODIFIED", "SYNC"}
    BY <1>in DEF Drop
  <2>2. PurgedState(x) = Discarded(x)  BY <2>1 DEF PurgedState, Modifiable
  <2>3. state'[x] = Discarded(x)  BY <1>p, <2>1, <2>2
  <2> QED  BY <2>3 DEF Discarded, FreeOf
<1>keep. ASSUME NEW x \in Cached(d) \ Drop(d)
         PROVE  /\ state'[x] \notin {"FREE", "CACHED", "MODIFIED", "SYNC"} \cup Clean \cup Dirty
                /\ state'[x] \in UsesGroup <=> state[x] \in UsesGroup
                /\ state[x] \in Moving => state'[x] \in Moving
                /\ state[x] \in InAccess => state'[x] = "ACCESS_PURGED"
                /\ state[x] \in Moving => state'[x] = "TRANSFER_PURGED"
                /\ state[x] = "EMPTY" <=> state'[x] = "EMPTY"
                /\ state'[x] \in States
  <2>1. x \in Bds /\ x \in tree /\ state[x] \notin {"CACHED", "MODIFIED", "SYNC"}
    BY <1>in DEF Drop
  <2>2. state[x] \in States /\ state[x] # "FREE"  BY <2>1 DEF BufferTypes, TreeInv
  <2>3. state[x] \in {"EMPTY", "TRANSFER", "TRANSFER_PURGED", "ACCESS_PURGED"} \cup Modifiable
    BY <2>1, <2>2 DEF States, InAccess, InTransfer, Modifiable
  <2>4. state'[x] = PurgedState(x)  BY <1>p, <2>1
  <2>5. CASE state[x] = "TRANSFER"
    <3>1. state'[x] = "TRANSFER_PURGED"  BY <2>4, <2>5 DEF PurgedState, Modifiable
    <3> QED  BY <3>1, <2>5 DEF Clean, Dirty, UsesGroup, InTransfer, InAccess, Moving, States
  <2>6. CASE state[x] \in Modifiable
    <3>1. state'[x] = "ACCESS_PURGED"  BY <2>4, <2>6 DEF PurgedState, Modifiable
    <3> QED
      BY <3>1, <2>6 DEF Modifiable, Clean, Dirty, UsesGroup, InTransfer, InAccess, Moving, States
  <2>7. CASE state[x] \in {"EMPTY", "TRANSFER_PURGED", "ACCESS_PURGED"}
    <3>1. state'[x] = state[x]  BY <2>4, <2>7 DEF PurgedState, Modifiable
    <3> QED  BY <3>1, <2>7 DEF Clean, Dirty, UsesGroup, InTransfer, InAccess, Moving, States
  <2> QED  BY <2>3, <2>5, <2>6, <2>7
<1>free. ASSUME NEW x \in F, NEW v \in Users  PROVE bd[v] # x
  <2>1. x \in Bds /\ ~Waited(x) /\ state[x] \in {"CACHED", "MODIFIED", "SYNC"}
    BY <1>in DEF FreeOf, Drop
  <2>2. \A y \in Users : bd[y] = x => pc[y] \notin Own  BY <2>1, NotOwned DEF InAccess
  <2> QED  BY <2>1, <2>2, OnlyWaiters
<1>st. ASSUME NEW x \in Bds
       PROVE  /\ state'[x] \in States
              /\ state'[x] = "FREE" <=> state[x] = "FREE" \/ x \in F
              /\ state'[x] = "EMPTY" => state[x] = "EMPTY" \/ Waited(x)
  <2>1. CASE x \notin Cached(d)  BY <2>1, <1>out, <1>in DEF BufferTypes
  <2>2. CASE x \in Drop(d)
    <3>1. state[x] # "FREE"  BY <2>2, <1>in DEF TreeInv
    <3> QED  BY <2>2, <3>1, <1>drop DEF States
  <2>3. CASE x \in Cached(d) \ Drop(d)
    <3>1. state[x] # "FREE" /\ x \notin F  BY <2>3, <1>in DEF TreeInv
    <3> QED  BY <2>3, <3>1, <1>keep
  <2> QED  BY <2>1, <2>2, <2>3
<1>frees. Frees(F)
  <2>1. state' = [x \in Bds |-> state'[x]]  BY <1>p
  <2>2. state' \in [Bds -> States]  BY <2>1, <1>st
  <2>3. key' \in [Bds -> Keys \cup {None}] /\ \A x \in Bds \ F : key'[x] = key[x]
    BY <1>p DEF BufferTypes
  <2> QED  BY <2>2, <2>3, <1>st, <1>free, <1>p, <1>in DEF Frees
<1> QED  BY <1>frees, <1>out, <1>drop, <1>keep

(* The lists are right after a purge. *)
LEMMA PurgedLists ==
    ASSUME Core, lock = None, NEW d \in Devices, NEW p, Purged(d, p), per' = per
    PROVE  ListInv'
<1> USE CoreParts
<1> DEFINE D == Drop(d)  F == FreeOf(D)
<1>in. D \subseteq tree /\ tree \subseteq Bds /\ F \subseteq D /\ tree \subseteq Valid
  BY DEF Cached, BufferTypes, Drop, FreeOf, TreeInv
<1>p. /\ \E q \in SetToSeqs(F) : lru' = q \o Without(lru, D)
      /\ modified' = Without(modified, D) /\ syncq' = Without(syncq, D)
  BY DEF Purged, Drop
<1>fin. IsFiniteSet(F)
  <2>1. F \in SUBSET Bds  BY <1>in
  <2> HIDE DEF F
  <2> QED  BY <2>1, BdsFacts, FS_Subset
<1>b. /\ \A x \in Bds \ Cached(d) : state'[x] = state[x]
      /\ \A x \in Drop(d) : state'[x] \in {"FREE", "EMPTY"}
      /\ \A x \in Cached(d) \ Drop(d) : state'[x] \notin {"FREE", "CACHED", "MODIFIED", "SYNC"}
      /\ \A x \in Bds : state'[x] = "FREE" <=> state[x] = "FREE" \/ x \in F
  BY PurgedBuffers DEF Frees
<1>c. \A x \in Cached(d) \ Drop(d) : state[x] \notin {"FREE", "CACHED", "MODIFIED", "SYNC"}
  BY <1>in DEF Drop, TreeInv, Cached
<1>0. /\ Lists(lru, Valid \cap InState({"FREE", "CACHED"}))
      /\ Lists(modified, InState({"MODIFIED"})) /\ Lists(syncq, InState({"SYNC"}))
  BY DEF ListInv
<1>v. Valid' = Valid  BY DEF Valid
<1> HIDE DEF D, F
<1>w. \A T, l : Lists(l, T) => Lists(Without(l, D), T \ D)
  <2> SUFFICES ASSUME NEW T, NEW l, Lists(l, T)  PROVE Lists(Without(l, D), T \ D)
    OBVIOUS
  <2>1. l \in Seq(T) /\ IsInjective(l) /\ ToSet(l) = T  BY DEF Lists
  <2> QED  BY <2>1, WithoutLists
<1>1. /\ Lists(modified', InState({"MODIFIED"}) \ D)
      /\ Lists(syncq', InState({"SYNC"}) \ D)
      /\ Lists(Without(lru, D), (Valid \cap InState({"FREE", "CACHED"})) \ D)
  BY <1>0, <1>w, <1>p
<1>2. PICK q \in SetToSeqs(F) : lru' = q \o Without(lru, D)  BY <1>p
<1>3. Lists(q, F)  BY <1>2, <1>fin, SetToSeqsLists
<1>4. F \cap ((Valid \cap InState({"FREE", "CACHED"})) \ D) = {}  BY <1>in
<1>5. Lists(lru', F \cup ((Valid \cap InState({"FREE", "CACHED"})) \ D))
  BY <1>1, <1>2, <1>3, <1>4, ConcatLists
<1>6. ASSUME NEW x \in Bds
      PROVE  /\ state'[x] = "MODIFIED" <=> state[x] = "MODIFIED" /\ x \notin D
             /\ state'[x] = "SYNC" <=> state[x] = "SYNC" /\ x \notin D
             /\ state'[x] \in {"FREE", "CACHED"} <=> x \in F \/ (state[x] \in {"FREE", "CACHED"} /\ x \notin D)
  <2>1. CASE x \notin Cached(d)
    <3>1. x \notin D /\ x \notin F  BY <2>1, <1>in DEF D, Drop
    <3> QED  BY <2>1, <3>1, <1>b
  <2>2. CASE x \in D  BY <2>2, <1>b, <1>in DEF D, TreeInv
  <2>3. CASE x \in Cached(d) \ D
    <3>1. x \notin F  BY <2>3, <1>in
    <3> QED  BY <2>3, <3>1, <1>b, <1>c DEF D
  <2> QED  BY <2>1, <2>2, <2>3
<1>7. InState({"MODIFIED"})' = InState({"MODIFIED"}) \ D /\ InState({"SYNC"})' = InState({"SYNC"}) \ D
  <2>1. /\ InState({"MODIFIED"})' = {x \in Bds : state'[x] = "MODIFIED"}
        /\ InState({"SYNC"})' = {x \in Bds : state'[x] = "SYNC"}
        /\ InState({"MODIFIED"}) = {x \in Bds : state[x] = "MODIFIED"}
        /\ InState({"SYNC"}) = {x \in Bds : state[x] = "SYNC"}
    BY DEF InState
  <2> QED  BY <2>1, <1>6
<1>8. (Valid \cap InState({"FREE", "CACHED"}))' = F \cup ((Valid \cap InState({"FREE", "CACHED"})) \ D)
  <2>1. (Valid \cap InState({"FREE", "CACHED"}))' = Valid \cap {x \in Bds : state'[x] \in {"FREE", "CACHED"}}
    BY <1>v DEF InState
  <2>2. InState({"FREE", "CACHED"}) = {x \in Bds : state[x] \in {"FREE", "CACHED"}}
    BY DEF InState
  <2>3. F \subseteq Valid /\ F \subseteq Bds  BY <1>in
  <2> QED  BY <2>1, <2>2, <2>3, <1>6
<1>9. /\ Lists(lru', (Valid \cap InState({"FREE", "CACHED"}))')
      /\ Lists(modified', InState({"MODIFIED"})') /\ Lists(syncq', InState({"SYNC"})')
  BY <1>1, <1>5, <1>7, <1>8
<1> QED  BY <1>9 DEF ListInv

(* The modified contents that a purge discards are lost, and no others. *)
LEMMA PurgedData ==
    ASSUME Core, lock = None, NEW d \in Devices, NEW p, Purged(d, p), Stirs, UNCHANGED <<cur, dcur, wlist>>
    PROVE  DataInv' /\ lost' \subseteq Keys /\ lost \subseteq lost'
<1> USE CoreParts
<1>b. /\ \A x \in Bds \ Cached(d) : state'[x] = state[x]
      /\ \A x \in Drop(d) : state'[x] \in {"FREE", "EMPTY"}
      /\ \A x \in Cached(d) \ Drop(d) : state'[x] \notin Clean \cup Dirty
      /\ Frees(FreeOf(Drop(d)))
  BY PurgedBuffers
<1>t. tree \subseteq Bds /\ tree' = tree \ FreeOf(Drop(d)) /\ FreeOf(Drop(d)) \subseteq Drop(d)
      /\ \A x \in tree' : key'[x] = key[x]
  BY <1>b DEF Frees, FreeOf, BufferTypes
<1>d. lost' = lost \cup {key[x] : x \in {y \in Cached(d) : state[y] \in Dirty}}
  BY DEF Purged, Dirty
<1>ty. lost' \subseteq Keys /\ lost \subseteq lost'
  BY <1>d DEF HistoryTypes, Cached, TreeInv
<1>st. \A v \in Users : /\ pc'[v] \in {"synclock", "relock"} <=> pc[v] \in {"synclock", "relock"}
                        /\ bd'[v] = bd[v]
  BY StirsFacts DEF Stirs
<1>1. ASSUME NEW x \in Bds
      PROVE  /\ state'[x] \in Clean => cur'[x] \/ key'[x] \in lost'
             /\ state'[x] \in Dirty => cur'[x]
  <2>1. CASE x \in Cached(d)
    <3>1. "FREE" \notin Clean \cup Dirty /\ "EMPTY" \notin Clean \cup Dirty  BY DEF Clean, Dirty
    <3> QED  BY <3>1, <2>1, <1>b
  <2>2. CASE x \notin Cached(d)
    <3>1. state'[x] = state[x] /\ key'[x] = key[x]  BY <2>2, <1>b DEF Frees, FreeOf, Drop
    <3> QED  BY <3>1, <1>ty DEF DataInv
  <2> QED  BY <2>1, <2>2
<1>2. \A w \in Writers : \A x \in wlist'[w] : cur'[x]  BY DEF DataInv
<1>3. \A v \in Users : pc'[v] \in {"synclock", "relock"} => cur'[bd'[v]]  BY <1>st DEF DataInv
<1>4. ASSUME NEW k \in Keys, ~dcur'[k], k \notin lost'
      PROVE  \E x \in Search(k)' : cur'[x] /\ Saved(x)'
  <2>1. PICK x \in Search(k) : cur[x] /\ Saved(x)  BY <1>4, <1>ty DEF DataInv
  <2>2. x \in tree /\ x \in Bds /\ key[x] = k  BY <2>1, <1>t DEF Search
  <2>3. x \notin Drop(d) /\ (state[x] \in Dirty => state'[x] = state[x])
    <3>1. CASE x \notin Cached(d)  BY <3>1, <2>2, <1>b DEF Drop
    <3>2. CASE x \in Cached(d)
      <4>1. state[x] \notin Dirty  BY <3>2, <2>2, <1>4, <1>d
      <4>2. CASE \E w \in Writers : x \in wlist[w]  BY <4>1, <4>2 DEF WriterInv, Moving, Drop
      <4>3. CASE \E v \in Users : bd[v] = x /\ pc[v] \in {"synclock", "relock"}
        BY <4>1, <4>3 DEF OwnInv, Modifiable, Drop
      <4> QED  BY <4>1, <4>2, <4>3, <2>1 DEF Saved
    <3> QED  BY <3>1, <3>2
  <2>4. x \in tree' /\ key'[x] = k  BY <2>2, <2>3, <1>t
  <2>5. Saved(x)'  BY <2>1, <2>3, <1>st DEF Saved, Writers
  <2> QED  BY <2>1, <2>4, <2>5 DEF Search
<1> QED  BY <1>1, <1>2, <1>3, <1>4, <1>ty DEF DataInv, Bds, Keys, Writers

(* A purge keeps the invariant, except for the owners when it hits a        *)
(* directive of another user.                                               *)
LEMMA PurgedStep ==
    ASSUME Core, lock = None, NEW d \in Devices, NEW p, Purged(d, p), Stirs,
           UserTypes', SizeInv', dsize' \in [Devices -> Sizes], calls' \in 0 .. MaxCalls,
           raced' = (raced \/ InDirective(d)), resized' \in BOOLEAN, resized => resized',
           UNCHANGED <<lock, hold, per, synclock, sync_active, sync_device, sdone,
                       wlist, wpc, spc, upd, raevent, rapc, rabd, cur, dcur, fault, promised>>
    PROVE  Always' /\ (~raced' => OwnInv')
<1> USE CoreParts
<1>b. /\ \A x \in Bds \ Cached(d) : state'[x] = state[x]
      /\ \A x \in Drop(d) : state'[x] \in {"FREE", "EMPTY"}
      /\ \A x \in Cached(d) \ Drop(d) :
                /\ state'[x] \in UsesGroup <=> state[x] \in UsesGroup
                /\ state[x] \in Moving => state'[x] \in Moving
                /\ state[x] \in InAccess => state'[x] = "ACCESS_PURGED"
  BY PurgedBuffers
<1>f. Frees(FreeOf(Drop(d)))  BY PurgedBuffers
<1>t. tree \subseteq Bds /\ tree' = tree \ FreeOf(Drop(d)) /\ FreeOf(Drop(d)) \subseteq Drop(d)
      /\ Drop(d) \subseteq Cached(d) /\ Cached(d) \subseteq tree
      /\ \A x \in Bds \ FreeOf(Drop(d)) : key'[x] = key[x]
  BY <1>f DEF Frees, FreeOf, BufferTypes, Drop, Cached
<1>st. \A v \in Users : /\ pc'[v] \in Locked <=> pc[v] \in Locked
                        /\ pc'[v] = "reading" <=> pc[v] = "reading"
                        /\ pc'[v] \in {"request", "event"} <=> pc[v] \in {"request", "event"}
                        /\ pc[v] = "event" => pc'[v] = "event"
                        /\ bd'[v] = bd[v]
  BY StirsFacts DEF Stirs
<1>lock. LockInv'
  <2>1. \A v \in Users : pc'[v] \notin Locked  BY <1>st, LockFacts
  <2> QED  BY <2>1, NoneAssumption, LockFacts DEF LockInv, RA
<1>bulk. UserInv' /\ TreeInv' /\ EmptyInv'  BY <1>f, BulkUsers
<1>list. ListInv'  BY PurgedLists
<1>writer. WriterInv'
  <2>1. ASSUME NEW x \in Bds, state[x] \in Moving  PROVE state'[x] \in Moving /\ key'[x] = key[x]
    <3>1. x \notin Drop(d)  BY <2>1 DEF Drop, Moving
    <3> QED  BY <2>1, <3>1, <1>b, <1>t
  <2>2. \A w \in Writers : \A x \in wlist[w] : x \in Bds /\ state[x] \in Moving
    BY DEF WriterInv, TaskTypes
  <2>3. \A w \in Writers : \A x \in wlist[w] : state'[x] \in Moving /\ key'[x] = key[x]
    BY <2>1, <2>2
  <2>4. rapc = "reading" => state'[rabd] \in Moving  BY <2>1 DEF WriterInv
  <2> QED  BY <2>3, <2>4, <1>st, WriterFrame
<1>count. CountInv' /\ users' \in [Groups -> Int]
  <2> DEFINE U == {b \in Drop(d) : GroupUser(b)}
  <2>1. users' = UsersLess(U)  BY DEF Purged, Drop
  <2>2. U \in SUBSET Bds  BY <1>t
  <2>3. \A x \in U : state[x] \in UsesGroup /\ state'[x] \notin UsesGroup
    BY <1>b DEF GroupUser, UsesGroup, InTransfer, InAccess
  <2>4. ASSUME NEW x \in Bds \ U  PROVE state'[x] \in UsesGroup <=> state[x] \in UsesGroup
    <3>1. CASE x \notin Cached(d)  BY <3>1, <1>b
    <3>2. CASE x \in Drop(d)
      <4>1. state[x] = "CACHED"  BY <3>2, <2>4 DEF Drop, GroupUser
      <4>2. state'[x] \in {"FREE", "EMPTY"}  BY <3>2, <1>b
      <4> QED  BY <4>1, <4>2 DEF UsesGroup, InTransfer, InAccess
    <3>3. CASE x \in Cached(d) \ Drop(d)  BY <3>3, <1>b
    <3> QED  BY <3>1, <3>2, <3>3
  <2> HIDE DEF U
  <2> QED  BY <2>1, <2>2, <2>3, <2>4, StirsSleepers, CountLess
<1>data. DataInv' /\ lost' \subseteq Keys /\ lost \subseteq lost'  BY PurgedData
<1>bt. BufferTypes'
  <2>1. state' \in [Bds -> States] /\ key' \in [Bds -> Keys \cup {None}] /\ tree' \subseteq Bds
    BY <1>f, <1>t DEF Frees
  <2> QED  BY <2>1, <1>count DEF BufferTypes
<1>pr. rachain' = rachain \ {d}  BY DEF Purged
<1>tt. TaskTypes' /\ HistoryTypes'
  <2>1. TaskTypes'  BY <1>pr DEF TaskTypes
  <2>2. raced' \in BOOLEAN  BY DEF HistoryTypes, InDirective
  <2> QED  BY <1>data, <2>1, <2>2 DEF HistoryTypes
<1>fault. FaultInv'  BY DEF FaultInv
<1>sync. SyncInv'
  <2>1. ASSUME NEW x \in tree, key[x] \notin lost', Unwritten(x)
        PROVE  x \in tree' /\ key'[x] = key[x] /\ Unwritten(x)'
    <3>1. x \in Bds  BY <1>t
    <3>2. CASE x \notin Cached(d)
      <4>1. x \notin FreeOf(Drop(d))  BY <3>2, <1>t
      <4> QED  BY <2>1, <3>1, <3>2, <4>1, <1>b, <1>t DEF Unwritten
    <3>3. CASE x \in Cached(d)
      <4>1. state[x] \notin {"MODIFIED", "SYNC"}  BY <3>3, <2>1 DEF Purged
      <4>2. PICK w \in Writers : x \in wlist[w]  BY <4>1, <2>1 DEF Unwritten
      <4>3. x \notin Drop(d)  BY <4>2 DEF WriterInv, Moving, Drop
      <4> QED  BY <3>1, <4>2, <4>3, <1>t, <2>1 DEF Unwritten, Writers
    <3> QED  BY <3>2, <3>3
  <2> QED  BY <2>1, <1>st, <1>data, SyncFrame
<1>own. ASSUME ~raced'  PROVE OwnInv'
  <2>1. ~InDirective(d)  BY <1>own
  <2>2. ASSUME NEW v \in Users, pc'[v] \in Own
        PROVE  /\ pc[v] \in Own /\ pc'[v] = pc[v] /\ bd'[v] = bd[v]
               /\ pc[v] # "hold" => state'[bd[v]] = state[bd[v]]
               /\ pc[v] = "hold" => state'[bd[v]] \in InAccess
    <3>1. pc[v] \in Own /\ pc'[v] = pc[v] /\ bd'[v] = bd[v]  BY <2>2, StirsFacts DEF Stirs
    <3>2. bd[v] \in Bds  BY <3>1, OwnFacts
    <3>3. CASE bd[v] \notin Cached(d)  BY <3>1, <3>2, <3>3, <1>b DEF OwnInv
    <3>4. CASE bd[v] \in Cached(d)
      <4>1. pc[v] \notin {"reading", "synclock", "relock"}  BY <3>4, <2>1 DEF InDirective
      <4>2. pc[v] = "hold"  BY <3>1, <4>1 DEF Own
      <4>3. state[bd[v]] \in InAccess  BY <4>2 DEF OwnInv
      <4>4. bd[v] \notin Drop(d)  BY <4>3 DEF Drop, InAccess
      <4>5. state'[bd[v]] = "ACCESS_PURGED"  BY <3>4, <4>3, <4>4, <1>b
      <4> QED  BY <3>1, <4>2, <4>5 DEF InAccess
    <3> QED  BY <3>3, <3>4
  <2>3. ASSUME NEW v \in Users
        PROVE  /\ pc'[v] = "hold" => state'[bd'[v]] \in InAccess
               /\ pc'[v] = "reading" => state'[bd'[v]] = "TRANSFER"
               /\ pc'[v] \in {"synclock", "relock"} => state'[bd'[v]] \in Modifiable
    BY <2>2 DEF OwnInv, Own
  <2>4. \A v, x \in Users : pc'[v] \in Own /\ pc'[x] \in Own /\ bd'[v] = bd'[x] => v = x
    BY <2>2 DEF OwnInv
  <2> QED  BY <2>3, <2>4 DEF OwnInv
<1>10. Always'
  BY <1>bt, <1>tt, <1>lock, <1>bulk, <1>list, <1>writer, <1>count, <1>fault, <1>sync, <1>data
     DEF Always
<1> QED  BY <1>10, <1>own

-----------------------------------------------------------------------------
(* rtems_bdbuf_purge_dev keeps the invariant. *)
LEMMA PurgeStep ==
    ASSUME Core, NEW u \in Users, Purge(u)
    PROVE  Always' /\ (~raced' => OwnInv')
<1> USE CoreParts DEF bufvars, listvars, grpvars, waitvars, syncvars, swapvars, ravars, datavars, racevars
<1>1. lock = None /\ calls < MaxCalls /\ calls' = calls + 1  BY DEF Purge
<1>2. PICK d \in Devices : Purged(d, pc) /\ raced' = (raced \/ InDirective(d))  BY DEF Purge
<1>same. UNCHANGED <<lock, hold, per, dsize, op, want, bd, cv, ret, synclock, sync_active, sync_device,
                     sdone, wlist, wpc, spc, upd, raevent, rapc, rabd, cur, dcur, fault, resized, promised>>
  BY DEF Purge
<1>3. pc' \in [Users -> UserPC] /\ Woken  BY <1>2, WakeWoken DEF Purged
<1>4. Stirs  BY <1>3, <1>same DEF Stirs, Woken
<1>5. UserTypes'  BY <1>3, <1>same DEF UserTypes
<1>6. Frees(FreeOf(Drop(d))) /\ \A x \in Bds : state[x] = "EMPTY" => state'[x] = "EMPTY"
  BY <1>1, <1>2, PurgedBuffers DEF Drop
<1>7. SizeInv'  BY <1>1, <1>4, <1>6, <1>same, BulkSize
<1>8. calls' \in 0 .. MaxCalls  BY <1>1, CacheAssumption DEF HistoryTypes
<1>9. dsize' \in [Devices -> Sizes] /\ resized' \in BOOLEAN
  BY <1>same DEF BufferTypes, HistoryTypes
<1> QED  BY <1>1, <1>2, <1>4, <1>5, <1>7, <1>8, <1>9, <1>same, PurgedStep

(* Buffers that have the wrong size after a change of the block size are    *)
(* empty, and only who synchronized them is still to look at them.          *)
LEMMA ResizeSize ==
    ASSUME Core, lock = None, NEW d \in Devices, NEW n \in Sizes, NEW p, SetBlockSize(d, n, p), Stirs,
           per' = per
    PROVE  /\ SizeInv' /\ dsize' \in [Devices -> Sizes]
           /\ resized' \in BOOLEAN /\ (resized => resized')
<1> USE CoreParts
<1>p. /\ dsize' = [dsize EXCEPT ![d] = n] /\ Purged(d, p)
      /\ resized' = (resized \/ Outdated(d))
  BY DEF SetBlockSize
<1>ds. dsize' \in [Devices -> Sizes] /\ \A e \in Devices \ {d} : dsize'[e] = dsize[e]
  BY <1>p DEF BufferTypes
<1>re. resized' \in BOOLEAN /\ (resized => resized')  BY <1>p DEF HistoryTypes, Outdated
<1>b. /\ \A x \in Bds \ Cached(d) : state'[x] = state[x]
      /\ \A x \in Drop(d) : state'[x] = Discarded(x) /\ state'[x] \in {"FREE", "EMPTY"}
      /\ \A x \in Cached(d) \ Drop(d) :
                /\ state[x] \in InAccess => state'[x] = "ACCESS_PURGED"
                /\ state[x] \in Moving => state'[x] = "TRANSFER_PURGED"
                /\ state[x] = "EMPTY" => state'[x] = "EMPTY"
  BY <1>p, PurgedBuffers
<1>f. Frees(FreeOf(Drop(d)))  BY <1>p, PurgedBuffers
<1>st. \A v \in Users : /\ Syncing(v)' <=> Syncing(v)
                        /\ Asleep(v)' <=> Asleep(v)
                        /\ pc'[v] = "recycle" <=> pc[v] = "recycle"
                        /\ bd'[v] = bd[v] /\ ret'[v] = ret[v]
  BY StirsFacts DEF Stirs
<1>no. \A v \in Users : pc[v] # "recycle" /\ pc[v] \notin At  BY LockFacts DEF Locked, At
<1>size. SizeInv'
  <2> SUFFICES ASSUME ~resized'  PROVE SizeInv'
    BY DEF SizeInv
  <2>0. ~resized /\ ~Outdated(d)  BY <1>p
  <2>1. ASSUME NEW x \in tree', ~Fits(x)'
        PROVE  /\ state'[x] = "EMPTY"
               /\ \E v \in Users : bd'[v] = x /\ Syncing(v)'
               /\ \A v \in Users : bd'[v] = x => Syncing(v)' \/ pc'[v] = "recycle"
    <3>1. x \in tree /\ x \in Bds /\ key'[x] = key[x] /\ x \notin FreeOf(Drop(d))
      BY <1>f DEF Frees, BufferTypes
    <3>2. CASE x \notin Cached(d)
      <4>1. Dev(x) \in Devices \ {d}
        BY <3>1, <3>2, KeysFacts DEF TreeInv, Cached, Dev
      <4>2. Dev(x)' = Dev(x) /\ dsize'[Dev(x)] = dsize[Dev(x)]  BY <4>1, <3>1, <1>ds DEF Dev
      <4>3. ~Fits(x)  BY <2>1, <4>2 DEF Fits
      <4>4. /\ state[x] = "EMPTY"
            /\ \E v \in Users : bd[v] = x /\ Syncing(v)
            /\ \A v \in Users : bd[v] = x => Syncing(v) \/ pc[v] = "recycle"
        BY <2>0, <4>3, <3>1 DEF SizeInv
      <4> QED  BY <4>4, <3>1, <3>2, <1>b, <1>st
    <3>3. CASE x \in Cached(d)
      <4>1. PurgedState(x) \notin {"ACCESS_PURGED", "TRANSFER_PURGED"}  BY <2>0, <3>3 DEF Outdated
      <4>2. \A v \in Users : Asleep(v) /\ bd[v] = x => ret[v] = "syncwait"
        BY <2>0, <3>3 DEF Outdated
      <4>3. state'[x] = PurgedState(x)  BY <1>p, <3>1, <3>3 DEF Purged
      <4>4. state[x] \in States \ {"FREE"}  BY <3>1 DEF BufferTypes, TreeInv
      <4>5. state'[x] = "EMPTY" /\ state[x] \in {"CACHED", "MODIFIED", "SYNC", "EMPTY"}
        <5>1. CASE x \in Drop(d)
          <6>1. state'[x] # "FREE"  BY <3>1, <5>1, <1>f DEF Frees, TreeInv
          <6> QED  BY <6>1, <5>1, <1>b DEF Drop
        <5>2. CASE x \notin Drop(d)
          <6>1. state[x] \notin InAccess \cup Moving  BY <5>2, <3>3, <4>1, <4>3, <1>b
          <6>2. state[x] \notin {"CACHED", "MODIFIED", "SYNC"}  BY <5>2, <3>3 DEF Drop
          <6>3. state[x] = "EMPTY"  BY <4>4, <6>1, <6>2 DEF States, InTransfer, Moving
          <6> QED  BY <6>3, <5>2, <3>3, <1>b
        <5> QED  BY <5>1, <5>2
      <4>6. \A v \in Users : bd[v] = x => pc[v] \notin Own  BY <4>5, NotOwned DEF InAccess
      <4>7. \A v \in Users : bd[v] = x => Asleep(v)  BY <4>6, <3>1, OnlyWaiters
      <4>8. \A v \in Users : bd[v] = x => Syncing(v)  BY <4>2, <4>7 DEF Syncing
      <4>9. \E v \in Users : bd[v] = x
        <5>1. state[x] = "EMPTY" \/ Waited(x)  BY <4>5, <3>1, <1>f DEF Frees
        <5> QED  BY <5>1, <3>1 DEF EmptyInv, Waited
      <4> QED  BY <4>5, <4>8, <4>9, <1>st
    <3> QED  BY <3>2, <3>3
  <2>2. \A v \in Users : /\ pc'[v] # "recycle"
                         /\ Asleep(v)' => ret'[v] # "recycle"
    BY <2>0, <1>st, <1>no DEF SizeInv
  <2> QED  BY <2>1, <2>2 DEF SizeInv
<1> QED  BY <1>ds, <1>re, <1>size

(* rtems_bdbuf_set_block_size without synchronization keeps the invariant. *)
LEMMA ResizeStep ==
    ASSUME Core, NEW u \in Users, Resize(u)
    PROVE  Always' /\ (~raced' => OwnInv')
<1> USE CoreParts DEF bufvars, listvars, grpvars, waitvars, syncvars, swapvars, ravars, datavars, racevars
<1>1. lock = None /\ calls < MaxCalls /\ calls' = calls + 1  BY DEF Resize
<1>2. PICK d \in Devices, n \in Sizes : SetBlockSize(d, n, pc)  BY DEF Resize
<1>p. Purged(d, pc) /\ raced' = (raced \/ InDirective(d))  BY <1>2 DEF SetBlockSize
<1>same. UNCHANGED <<lock, hold, per, op, want, bd, cv, ret, synclock, sync_active, sync_device,
                     sdone, wlist, wpc, spc, upd, raevent, rapc, rabd, cur, dcur, fault, promised>>
  BY DEF Resize
<1>3. pc' \in [Users -> UserPC] /\ Woken  BY <1>p, WakeWoken DEF Purged
<1>4. Stirs  BY <1>3, <1>same DEF Stirs, Woken
<1>5. UserTypes'  BY <1>3, <1>same DEF UserTypes
<1>6. SizeInv' /\ dsize' \in [Devices -> Sizes] /\ resized' \in BOOLEAN /\ (resized => resized')
  BY <1>1, <1>2, <1>4, <1>same, ResizeSize
<1>7. calls' \in 0 .. MaxCalls  BY <1>1, CacheAssumption DEF HistoryTypes
<1> QED  BY <1>1, <1>p, <1>4, <1>5, <1>6, <1>7, <1>same, PurgedStep

(* rtems_bdbuf_set_block_size after its synchronization keeps the           *)
(* invariant.                                                               *)
LEMMA ResizeSyncedStep ==
    ASSUME Core, NEW u \in Users, ResizeSynced(u)
    PROVE  Always' /\ (~raced' => OwnInv')
<1> USE CoreParts DEF bufvars, listvars, grpvars, waitvars, syncvars, swapvars, ravars, datavars, racevars
<1>1. lock = None /\ pc[u] = "resize"  BY DEF ResizeSynced
<1>d. PICK d \in Devices : d = want[u]  BY <1>1 DEF UserInv
<1>2. PICK n \in Sizes : SetBlockSize(d, n, [pc EXCEPT ![u] = "idle"])  BY <1>d DEF ResizeSynced
<1>p. Purged(d, [pc EXCEPT ![u] = "idle"]) /\ raced' = (raced \/ InDirective(d))
  BY <1>2 DEF SetBlockSize
<1>same. UNCHANGED <<lock, hold, per, bd, cv, ret, synclock, sync_active, sync_device,
                     sdone, wlist, wpc, spc, upd, raevent, rapc, rabd, cur, dcur, fault, calls, promised>>
  BY DEF ResizeSynced
<1>w. op' = [op EXCEPT ![u] = None] /\ want' = [want EXCEPT ![u] = None]  BY DEF ResizeSynced
<1>3. pc' \in [Users -> UserPC] /\ To(u, {"idle"})  BY <1>p, WakeTo DEF Purged, UserPC
<1>4. Stirs
  <2>1. \A v \in Users \ {u} : want'[v] = want[v]  BY <1>w DEF UserTypes
  <2> QED  BY <1>1, <1>3, <1>same, <2>1 DEF Stirs, To
<1>5. UserTypes'  BY <1>3, <1>same, <1>w DEF UserTypes
<1>6. SizeInv' /\ dsize' \in [Devices -> Sizes] /\ resized' \in BOOLEAN /\ (resized => resized')
  BY <1>1, <1>2, <1>4, <1>same, ResizeSize
<1>7. calls' \in 0 .. MaxCalls  BY <1>same DEF HistoryTypes
<1> QED  BY <1>1, <1>p, <1>4, <1>5, <1>6, <1>7, <1>same, PurgedStep

-----------------------------------------------------------------------------
(* The swap-out task *)

(* What the scan selects waits to be written, and is of one device. *)
LEMMA ScanFacts ==
    ASSUME Core
    PROVE  /\ ScanBuffers \subseteq tree /\ ScanBuffers \subseteq Bds
           /\ \A b \in ScanBuffers : state[b] \in {"MODIFIED", "SYNC"} /\ Dev(b) = ScanDevice
           /\ sync_active => \A b \in tree :
                state[b] \in {"MODIFIED", "SYNC"} /\ Dev(b) = sync_device => b \in ScanBuffers
<1> USE CoreParts
<1>0. /\ modified \in Seq(InState({"MODIFIED"})) /\ IsInjective(modified)
      /\ ToSet(modified) = InState({"MODIFIED"}) /\ ToSet(syncq) = InState({"SYNC"})
  BY DEF ListInv, Lists
<1>1. ASSUME NEW d  PROVE ToSet(Due(d)) = ToSet(modified) \ {b \in ToSet(modified) : HoldLeft(b, d) > 0}
  <2> DEFINE H == {b \in ToSet(modified) : HoldLeft(b, d) > 0}
  <2>1. Due(d) = Without(modified, H)  BY DEF Due
  <2> HIDE DEF H
  <2>2. Lists(Without(modified, H), ToSet(modified) \ H)  BY <1>0, WithoutLists
  <2> QED  BY <2>1, <2>2 DEF Lists, H
<1>2. ASSUME NEW b \in ScanBuffers
      PROVE  b \in Bds /\ b \in tree /\ state[b] \in {"MODIFIED", "SYNC"} /\ Dev(b) = ScanDevice
  <2>1. b \in ToSet(syncq) \cup ToSet(Due(SyncListDevice)) /\ Dev(b) = ScanDevice
    BY DEF ScanBuffers
  <2>2. b \in ToSet(syncq) \cup ToSet(modified)  BY <2>1, <1>1
  <2>3. b \in Bds /\ state[b] \in {"MODIFIED", "SYNC"}  BY <2>2, <1>0 DEF InState
  <2> QED  BY <2>1, <2>3 DEF TreeInv
<1>3. ASSUME sync_active, NEW b \in tree, state[b] \in {"MODIFIED", "SYNC"}, Dev(b) = sync_device
      PROVE  b \in ScanBuffers
  <2>1. SyncListDevice = sync_device /\ sync_device \in Devices
    BY <1>3 DEF SyncListDevice, SyncInv
  <2>2. ScanDevice = sync_device  BY <2>1, NoneAssumption DEF ScanDevice
  <2>3. b \in Bds  BY DEF BufferTypes
  <2>4. HoldLeft(b, SyncListDevice) = 0  BY <1>3, <2>1 DEF HoldLeft, Forced
  <2>5. b \in ToSet(syncq) \cup ToSet(Due(SyncListDevice))
    <3>1. CASE state[b] = "SYNC"  BY <3>1, <2>3, <1>0 DEF InState
    <3>2. CASE state[b] = "MODIFIED"
      <4>1. b \in ToSet(modified)  BY <3>2, <2>3, <1>0 DEF InState
      <4> QED  BY <4>1, <2>4, <1>1
    <3> QED  BY <1>3, <3>1, <3>2
  <2> QED  BY <1>3, <2>2, <2>5 DEF ScanBuffers
<1> QED  BY <1>2, <1>3

(* rtems_bdbuf_swapout_modified_processing counts a hold timer down to 0 at *)
(* most.                                                                    *)
LEMMA HoldTypes ==
    ASSUME BufferTypes, NEW d, hold' = [b \in Bds |-> IF b \in ToSet(modified) THEN HoldLeft(b, d) ELSE hold[b]]
    PROVE  hold' \in [Bds -> 0 .. Hold]
<1>1. Hold \in Nat /\ \A b \in Bds : hold[b] \in 0 .. Hold  BY CacheAssumption DEF BufferTypes
<1>2. \A b \in Bds : HoldLeft(b, d) \in 0 .. Hold
  <2> TAKE b \in Bds
  <2>1. hold[b] \in 0 .. Hold  BY <1>1
  <2>2. CASE Forced(b, d)  BY <2>2, <1>1 DEF HoldLeft
  <2>3. CASE ~Forced(b, d) /\ upd /\ hold[b] > 0
    <3>1. HoldLeft(b, d) = hold[b] - 1  BY <2>3 DEF HoldLeft
    <3> QED  BY <3>1, <2>1, <2>3, <1>1
  <2>4. CASE ~Forced(b, d) /\ ~(upd /\ hold[b] > 0)
    <3>1. HoldLeft(b, d) = hold[b]  BY <2>4 DEF HoldLeft
    <3> QED  BY <3>1, <2>1
  <2> QED  BY <2>2, <2>3, <2>4
<1> HIDE DEF HoldLeft
<1> QED  BY <1>1, <1>2

(* The scan of the swap-out task keeps the invariant: each buffer selected  *)
(* is with one writer, and what was promised is still to be written or is   *)
(* being written.                                                           *)
LEMMA ScanStep ==
    ASSUME Core, Scan
    PROVE  Always' /\ OwnInv'
<1> USE CoreParts DEF bufvars, listvars, grpvars, waitvars, syncvars, swapvars, ravars, datavars, racevars
<1>0. spc = "scan" /\ lock = None  BY DEF Scan
<1>same. UNCHANGED <<lock, key, tree, lru, users, per, dsize, pc, op, want, bd, cv, ret,
                     synclock, sync_active, sync_device, sdone, rachain, raevent, rapc, rabd,
                     cur, dcur, lost, calls, fault, raced, resized, promised>>
  BY DEF Scan
<1>w. PICK w \in Writers : /\ ScanBy(w) /\ (w \in Workers => wpc[w] = "free")
                           /\ sync_active => w = "swapout"
  <2>1. PICK w \in (IF sync_active \/ FreeWorkers = {} THEN {"swapout"} ELSE FreeWorkers) : ScanBy(w)
    BY DEF Scan
  <2>2. w \in Writers /\ (w \in Workers => wpc[w] = "free")
    BY <2>1, NoneAssumption DEF Writers, FreeWorkers
  <2>3. sync_active => w = "swapout"  BY <2>1
  <2> QED  BY <2>1, <2>2, <2>3
<1>nw. ~Writing(w) /\ wlist[w] = {} /\ wlist["swapout"] = {}
  <2>1. ~Writing(w)  BY <1>0, <1>w DEF Writing, Writers
  <2>2. ~Writing("swapout") /\ "swapout" \in Writers  BY <1>0 DEF Writing, Writers
  <2> QED  BY <2>1, <2>2 DEF WriterInv
<1> DEFINE S == ScanBuffers
<1>S. /\ S \subseteq tree /\ S \subseteq Bds
      /\ \A b \in S : state[b] \in {"MODIFIED", "SYNC"} /\ Dev(b) = ScanDevice
      /\ sync_active => \A b \in tree :
           state[b] \in {"MODIFIED", "SYNC"} /\ Dev(b) = sync_device => b \in S
  BY ScanFacts
<1>by. /\ state' = [b \in Bds |-> IF b \in S THEN "TRANSFER" ELSE state[b]]
       /\ hold' = [b \in Bds |-> IF b \in ToSet(modified) THEN HoldLeft(b, SyncListDevice) ELSE hold[b]]
       /\ modified' = Without(modified, S) /\ syncq' = Without(syncq, S)
       /\ wlist' = [wlist EXCEPT ![w] = S]
       /\ wpc' = [x \in Workers |-> IF x # w THEN wpc[x] ELSE IF S # {} THEN "busy" ELSE "lost"]
       /\ spc' = IF S # {} THEN IF w = "swapout" THEN "write" ELSE "scan"
                 ELSE IF sync_active THEN "syncdone" ELSE "idle"
       /\ upd' = FALSE
  BY <1>w DEF ScanBy
<1> HIDE DEF S
<1>st. /\ state' \in [Bds -> States]
       /\ \A b \in S : state'[b] = "TRANSFER"
       /\ \A b \in Bds \ S : state'[b] = state[b]
  BY <1>by, <1>S DEF BufferTypes, States, InTransfer
<1>wl. /\ wlist'[w] = S /\ \A x \in Writers \ {w} : wlist'[x] = wlist[x]
       /\ wlist' \in [Writers -> SUBSET Bds]
  BY <1>by, <1>S DEF TaskTypes
<1>ut. UserTypes' /\ HistoryTypes'  BY <1>same DEF UserTypes, HistoryTypes
<1>bt. BufferTypes'
  <2>1. hold' \in [Bds -> 0 .. Hold]  BY <1>by, HoldTypes
  <2> QED  BY <2>1, <1>st, <1>same DEF BufferTypes
<1>tt. TaskTypes'
  <2>1. wpc' \in [Workers -> {"free", "busy", "lost"}]  BY <1>by DEF TaskTypes
  <2>2. spc' \in {"scan", "write", "syncdone", "idle"} /\ upd' \in BOOLEAN  BY <1>by
  <2> QED  BY <2>1, <2>2, <1>wl, <1>same DEF TaskTypes
<1>stirs. Stirs  BY <1>same DEF Stirs, UserTypes
<1>frees. Frees({})
  <2>1. \A x \in Bds : state'[x] = "FREE" <=> state[x] = "FREE"
    BY <1>st, <1>S
  <2>2. \A x \in Bds : state'[x] = "EMPTY" => state[x] = "EMPTY"  BY <1>st, <1>S
  <2> QED  BY <2>1, <2>2, <1>st, <1>same DEF Frees, BufferTypes
<1>lock. LockInv'  BY <1>same DEF LockInv
<1>bulk. UserInv' /\ TreeInv' /\ EmptyInv'  BY <1>stirs, <1>frees, <1>same, BulkUsers
<1>size. SizeInv'
  <2>1. \A x \in Bds : state[x] = "EMPTY" => state'[x] = "EMPTY"  BY <1>st, <1>S
  <2> QED  BY <2>1, <1>0, <1>stirs, <1>frees, <1>same, BulkSize
<1>own. OwnInv'
  <2>1. ASSUME NEW v \in Users, pc[v] \in Own  PROVE state'[bd[v]] = state[bd[v]]
    <3>1. bd[v] \in Bds /\ state[bd[v]] \notin {"MODIFIED", "SYNC"}  BY <2>1, OwnFacts
    <3> QED  BY <3>1, <1>st, <1>S
  <2> QED  BY <2>1, <1>stirs, BulkOwn
<1>list. ListInv'
  <2>1. /\ Lists(lru, Valid \cap InState({"FREE", "CACHED"}))
        /\ Lists(modified, InState({"MODIFIED"})) /\ Lists(syncq, InState({"SYNC"}))
    BY DEF ListInv
  <2>2. \A T, l : Lists(l, T) => Lists(Without(l, S), T \ S)
    <3> SUFFICES ASSUME NEW T, NEW l, Lists(l, T)  PROVE Lists(Without(l, S), T \ S)
      OBVIOUS
    <3>1. l \in Seq(T) /\ IsInjective(l) /\ ToSet(l) = T  BY DEF Lists
    <3> QED  BY <3>1, WithoutLists
  <2>3. \A x \in Bds : /\ state'[x] = "MODIFIED" <=> state[x] = "MODIFIED" /\ x \notin S
                       /\ state'[x] = "SYNC" <=> state[x] = "SYNC" /\ x \notin S
                       /\ state'[x] \in {"FREE", "CACHED"} <=> state[x] \in {"FREE", "CACHED"}
    BY <1>st, <1>S
  <2>4. /\ InState({"MODIFIED"})' = {x \in Bds : state'[x] = "MODIFIED"}
        /\ InState({"SYNC"})' = {x \in Bds : state'[x] = "SYNC"}
        /\ InState({"MODIFIED"}) = {x \in Bds : state[x] = "MODIFIED"}
        /\ InState({"SYNC"}) = {x \in Bds : state[x] = "SYNC"}
        /\ InState({"FREE", "CACHED"})' = {x \in Bds : state'[x] \in {"FREE", "CACHED"}}
        /\ InState({"FREE", "CACHED"}) = {x \in Bds : state[x] \in {"FREE", "CACHED"}}
    BY DEF InState
  <2>5. /\ InState({"MODIFIED"})' = InState({"MODIFIED"}) \ S /\ InState({"SYNC"})' = InState({"SYNC"}) \ S
        /\ InState({"FREE", "CACHED"})' = InState({"FREE", "CACHED"})
    BY <2>3, <2>4
  <2>6. Valid' = Valid  BY <1>same DEF Valid
  <2>7. Lists(modified', InState({"MODIFIED"})') /\ Lists(syncq', InState({"SYNC"})')
    BY <2>1, <2>2, <2>5, <1>by
  <2>8. Lists(lru', Valid' \cap InState({"FREE", "CACHED"})')  BY <2>1, <2>5, <2>6, <1>same
  <2> QED  BY <2>7, <2>8 DEF ListInv
<1>off. \A x \in Writers : \A b \in wlist[x] : b \in Bds /\ b \notin S /\ state[b] \in Moving /\ state'[b] = state[b]
  <2>1. \A x \in Writers : \A b \in wlist[x] : b \in Bds /\ state[b] \in Moving
    BY DEF WriterInv, TaskTypes
  <2> QED  BY <2>1, <1>S, <1>st DEF Moving
<1>writer. WriterInv'
  <2>0. \A b : Dev(b)' = Dev(b)  BY <1>same DEF Dev
  <2>wr. /\ \A x \in Writers \ {w} : Writing(x)' <=> Writing(x)
         /\ S # {} => Writing(w)'
    <3>1. CASE w = "swapout"
      <4>1. \A x \in Workers : wpc'[x] = wpc[x]  BY <3>1, <1>by, NoneAssumption DEF TaskTypes
      <4>2. S # {} => spc' = "write"  BY <3>1, <1>by
      <4> QED  BY <3>1, <4>1, <4>2 DEF Writing, Writers
    <3>2. CASE w # "swapout"
      <4>1. w \in Workers /\ \A x \in Workers \ {w} : wpc'[x] = wpc[x]
        BY <3>2, <1>by, <1>w DEF TaskTypes, Writers
      <4>2. S # {} => wpc'[w] = "busy"  BY <4>1, <1>by
      <4>3. spc' # "write" /\ spc # "write"  BY <3>2, <1>by, <1>0
      <4> QED  BY <3>2, <4>1, <4>2, <4>3 DEF Writing, Writers
    <3> QED  BY <3>1, <3>2
  <2>1. ASSUME NEW x \in Writers
        PROVE  /\ ~Writing(x)' => wlist'[x] = {}
               /\ \A b \in wlist'[x] : state'[b] \in Moving
               /\ \A b, c \in wlist'[x] : Dev(b)' = Dev(c)'
               /\ \A y \in Writers : \A b \in wlist'[x] \cap wlist'[y] : x = y
               /\ \A u \in Users : pc'[u] = "reading" => bd'[u] \notin wlist'[x]
    <3>1. CASE x = w
      <4>1. ~Writing(x)' => wlist'[x] = {}  BY <3>1, <2>wr, <1>wl
      <4>2. \A b \in wlist'[x] : state'[b] \in Moving  BY <3>1, <1>wl, <1>st DEF Moving
      <4>3. \A b, c \in wlist'[x] : Dev(b)' = Dev(c)'  BY <3>1, <1>wl, <1>S, <2>0
      <4>4. \A y \in Writers : \A b \in wlist'[x] \cap wlist'[y] : x = y  BY <3>1, <1>wl, <1>off
      <4>5. \A u \in Users : pc'[u] = "reading" => bd'[u] \notin wlist'[x]
        BY <3>1, <1>wl, <1>S, <1>same DEF OwnInv
      <4> QED  BY <4>1, <4>2, <4>3, <4>4, <4>5
    <3>2. CASE x # w
      <4>1. wlist'[x] = wlist[x]  BY <3>2, <1>wl
      <4>2. ~Writing(x)' => wlist'[x] = {}  BY <3>2, <4>1, <2>wr DEF WriterInv
      <4>3. \A b \in wlist'[x] : state'[b] \in Moving  BY <4>1, <1>off
      <4>4. \A b, c \in wlist'[x] : Dev(b)' = Dev(c)'  BY <4>1, <2>0 DEF WriterInv
      <4>5. \A y \in Writers : \A b \in wlist'[x] \cap wlist'[y] : x = y
        BY <4>1, <1>wl, <1>off DEF WriterInv
      <4>6. \A u \in Users : pc'[u] = "reading" => bd'[u] \notin wlist'[x]
        BY <4>1, <1>same DEF WriterInv
      <4> QED  BY <4>2, <4>3, <4>4, <4>5, <4>6
    <3> QED  BY <3>1, <3>2
  <2>2. rapc' = "reading" =>
          /\ rabd' \in Bds /\ state'[rabd'] \in Moving
          /\ \A x \in Writers : rabd' \notin wlist'[x]
          /\ \A u \in Users : pc'[u] = "reading" => bd'[u] # rabd'
    <3> SUFFICES ASSUME rapc = "reading"
          PROVE /\ rabd \in Bds /\ state'[rabd] \in Moving
                /\ \A x \in Writers : rabd \notin wlist'[x]
                /\ \A u \in Users : pc[u] = "reading" => bd[u] # rabd
      BY <1>same
    <3>1. rabd \in Bds /\ state[rabd] \in Moving /\ \A x \in Writers : rabd \notin wlist[x]
      BY DEF WriterInv
    <3>2. rabd \notin S  BY <3>1, <1>S DEF Moving
    <3>3. \A u \in Users : pc[u] = "reading" => bd[u] # rabd  BY DEF WriterInv
    <3> QED  BY <3>1, <3>2, <3>3, <1>st, <1>wl
  <2> QED  BY <2>1, <2>2 DEF WriterInv, Writers, Bds
<1>count. CountInv'
  <2>1. \A x \in Bds : state'[x] \in UsesGroup <=> state[x] \in UsesGroup
    BY <1>st, <1>S DEF UsesGroup, InTransfer
  <2> QED  BY <2>1, <1>stirs, <1>same, StirsSleepers, CountSame
<1>fault. FaultInv'  BY <1>same DEF FaultInv
<1>sync. SyncInv'
  <2>1. \A x \in Writers : \A b \in wlist[x] : x # w /\ x # "swapout" /\ b \in wlist'[x]
    BY <1>nw, <1>wl
  <2>2. ASSUME NEW k \in promised, k \notin lost  PROVE \E b \in Search(k)' : Unwritten(b)'
    <3>1. PICK b \in Search(k) : Unwritten(b)  BY <2>2 DEF SyncInv
    <3>2. b \in tree /\ key[b] = k /\ b \in Bds  BY <3>1 DEF Search, BufferTypes
    <3>3. Unwritten(b)'
      <4>1. CASE b \in S  BY <4>1, <1>wl DEF Unwritten, Writers
      <4>2. CASE b \notin S /\ state[b] \in {"MODIFIED", "SYNC"}
        BY <4>2, <3>2, <1>st DEF Unwritten
      <4>3. CASE \E x \in Writers : b \in wlist[x]  BY <4>3, <2>1 DEF Unwritten, Writers
      <4> QED  BY <3>1, <4>1, <4>2, <4>3 DEF Unwritten
    <3> QED  BY <3>2, <3>3, <1>same DEF Search
  <2>3. ASSUME NEW k \in promised, Left(k)  PROVE Left(k)'
    <3>1. CASE k \in lost  BY <3>1, <1>same DEF Left
    <3>2. CASE k \notin lost
      <4>1. PICK x \in Workers, b \in Search(k) : b \in wlist[x]  BY <2>3, <3>2 DEF Left
      <4>2. b \in wlist'[x]  BY <4>1, <2>1 DEF Writers
      <4> QED  BY <4>1, <4>2, <1>same DEF Left, Search
    <3> QED  BY <3>1, <3>2
  <2>4. ASSUME NEW k \in promised, spc' = "syncdone"  PROVE sync_active /\ Left(k)
    <3>1. S = {} /\ sync_active  BY <2>4, <1>by
    <3>2. CASE k \in lost  BY <3>1, <3>2 DEF Left
    <3>3. CASE k \notin lost
      <4>1. PICK b \in Search(k) : Unwritten(b)  BY <3>3 DEF SyncInv
      <4>2. b \in tree /\ key[b] = k /\ Dev(b) = sync_device  BY <4>1 DEF Search, Dev, SyncInv
      <4>3. state[b] \notin {"MODIFIED", "SYNC"}  BY <4>2, <3>1, <1>S
      <4>4. PICK x \in Writers : b \in wlist[x]  BY <4>1, <4>3 DEF Unwritten
      <4>5. x \in Workers  BY <4>4, <2>1 DEF Writers
      <4> QED  BY <4>1, <4>4, <4>5, <3>1 DEF Left
    <3> QED  BY <3>2, <3>3
  <2>5. spc' = "syncdone" => sync_active  BY <1>by
  <2>6. ASSUME NEW k \in promised'
        PROVE  /\ k[1] = sync_device'
               /\ k \in lost' \/ \E b \in Search(k)' : Unwritten(b)'
               /\ spc' = "syncdone" \/ sdone' => Left(k)'
    <3>1. k \in promised /\ k[1] = sync_device'  BY <1>same DEF SyncInv
    <3>2. sdone' => Left(k)  BY <3>1, <1>same DEF SyncInv
    <3> QED  BY <3>1, <3>2, <2>2, <2>3, <2>4, <1>same
  <2>7. /\ \A u \in Users : pc'[u] \in {"request", "event"} <=> synclock' = u
        /\ sync_active' \/ sdone' => \E u \in Users : pc'[u] = "event"
        /\ sync_active' => ~sdone' /\ sync_device' \in Devices
        /\ promised' # {} => sync_active' \/ sdone'
    BY <1>same DEF SyncInv
  <2> QED  BY <2>5, <2>6, <2>7, <1>same DEF SyncInv
<1>data. DataInv'
  <2>1. ASSUME NEW x \in Bds
        PROVE  /\ state'[x] \in Clean => cur'[x] \/ key'[x] \in lost'
               /\ state'[x] \in Dirty => cur'[x]
    <3>1. x \in S => state'[x] \notin Clean \cup Dirty  BY <1>st DEF Clean, Dirty
    <3> QED  BY <3>1, <1>st, <1>same DEF DataInv
  <2>2. ASSUME NEW x \in Writers, NEW b \in wlist'[x]  PROVE cur'[b]
    <3>1. CASE x = w
      <4>1. b \in Bds /\ state[b] \in Dirty  BY <3>1, <2>2, <1>wl, <1>S DEF Dirty
      <4> QED  BY <4>1, <1>same DEF DataInv
    <3>2. CASE x # w  BY <3>2, <2>2, <1>wl, <1>same DEF DataInv
    <3> QED  BY <3>1, <3>2
  <2>3. \A v \in Users : pc'[v] \in {"synclock", "relock"} => cur'[bd'[v]]  BY <1>same DEF DataInv
  <2>4. ASSUME NEW k \in Keys, ~dcur'[k], k \notin lost'  PROVE \E x \in Search(k)' : cur'[x] /\ Saved(x)'
    <3>1. PICK x \in Search(k) : cur[x] /\ Saved(x)  BY <2>4, <1>same DEF DataInv
    <3>2. x \in tree /\ x \in Bds /\ key[x] = k  BY <3>1 DEF Search, BufferTypes
    <3>3. Saved(x)'
      <4>1. CASE x \in S  BY <4>1, <1>wl DEF Saved, Writers
      <4>2. CASE x \notin S /\ state[x] \in Dirty
        BY <4>2, <3>2, <1>st DEF Saved
      <4>3. CASE \E y \in Writers : x \in wlist[y]
        <5>1. PICK y \in Writers : x \in wlist[y]  BY <4>3
        <5>2. y # w  BY <5>1, <1>nw
        <5> QED  BY <5>1, <5>2, <1>wl DEF Saved, Writers
      <4>4. CASE \E v \in Users : bd[v] = x /\ pc[v] \in {"synclock", "relock"}
        BY <4>4, <1>same DEF Saved
      <4> QED  BY <3>1, <4>1, <4>2, <4>3, <4>4 DEF Saved
    <3> QED  BY <3>1, <3>2, <3>3, <1>same DEF Search
  <2> QED  BY <2>1, <2>2, <2>3, <2>4 DEF DataInv, Bds, Keys, Writers
<1> QED
  BY <1>ut, <1>bt, <1>tt, <1>lock, <1>bulk, <1>size, <1>own, <1>list, <1>writer, <1>count,
     <1>fault, <1>sync, <1>data DEF Always

-----------------------------------------------------------------------------
(* The end of a transfer of the swap-out task, a worker or the read-ahead task *)

(* The buffers of one transfer in the order of their blocks, each once: the *)
(* blocks of one device differ.                                             *)
LEMMA InOrderLists ==
    ASSUME Core, NEW S \in SUBSET tree, \A b, c \in S : Dev(b) = Dev(c)
    PROVE  Lists(InOrder(S), S)
<1> USE CoreParts
<1> DEFINE f == [b \in S |-> key[b][2]]
<1>1. S \in SUBSET Bds  BY DEF BufferTypes
<1>2. IsFiniteSet(S)  BY <1>1, BdsFacts, FS_Subset
<1>3. \A b \in S : key[b] \in Keys /\ key[b][2] \in Int  BY KeysFacts DEF TreeInv
<1>4. f \in [S -> Int]  BY <1>3
<1>5. IsInjective(f)
  <2> SUFFICES ASSUME NEW b \in S, NEW c \in S, key[b][2] = key[c][2]  PROVE b = c
    BY DEF IsInjective
  <2>1. key[b][1] = key[c][1]  BY DEF Dev
  <2>2. key[b] = key[c]  BY <1>3, <2>1, KeysFacts
  <2> QED  BY <2>2 DEF TreeInv
<1> DEFINE q == Ranked(S, f)
<1>6. /\ q \in SetToSeqs(S)
      /\ \A i, j \in DOMAIN q : i < j => f[q[i]] <= f[q[j]]
  <2> HIDE DEF f
  <2> QED  BY <1>2, <1>4, <1>5, RankedLists
<1>7. \A i \in DOMAIN q : q[i] \in S  BY <1>6 DEF SetToSeqs
<1>8. \A i, j \in DOMAIN q : i < j => key[q[i]][2] <= key[q[j]][2]
  <2> HIDE DEF q
  <2> QED  BY <1>6, <1>7
<1>9. InOrder(S) \in SetToSeqs(S)
  <2> HIDE DEF q
  <2> QED  BY <1>6, <1>8 DEF InOrder
<1> QED  BY <1>2, <1>9, SetToSeqsLists

(* A batch of rtems_bdbuf_swapout_write consists of buffers of the          *)
(* transfer.                                                                *)
LEMMA BatchIn ==
    ASSUME Core, NEW S \in SUBSET tree, \A b, c \in S : Dev(b) = Dev(c)
    PROVE  Batch(S) \subseteq S
<1>1. Lists(InOrder(S), S)  BY InOrderLists
<1>2. \A i \in DOMAIN InOrder(S) : InOrder(S)[i] \in S  BY <1>1 DEF Lists
<1> QED  BY <1>2 DEF Batch

(* The buffers of a transfer: of one device, and nobody's own *)
Transferred(S) ==
    /\ S \subseteq Bds /\ \A b \in S : state[b] \in Moving
    /\ \A b, c \in S : Dev(b) = Dev(c)
    /\ \A v \in Users : pc[v] = "reading" => bd[v] \notin S

(* rtems_bdbuf_execute_transfer_request when the transfer is done: what     *)
(* becomes of each buffer.                                                  *)
LEMMA WrittenBuffers ==
    ASSUME Core, lock = None, NEW S, Transferred(S), NEW ok \in BOOLEAN, Written(S, ok)
    PROVE  /\ S \subseteq tree /\ Kept(S, ok) \subseteq S
           /\ \A x \in Kept(S, ok) : state'[x] = "CACHED" /\ ok
           /\ \A x \in S \ Kept(S, ok) :
                state'[x] = IF x \in FreeOf(S \ Kept(S, ok)) THEN "FREE" ELSE "EMPTY"
           /\ \A x \in Bds \ S : state'[x] = state[x]
           /\ \A v \in Users : pc[v] \in Own => bd[v] \notin S
           /\ FreeOf(S \ Kept(S, ok)) \subseteq S
           /\ Frees(FreeOf(S \ Kept(S, ok))) /\ fault' = fault
<1> USE CoreParts
<1> DEFINE K == Kept(S, ok)  G == S \ K  F == FreeOf(G)
<1>S. S \subseteq Bds /\ S \subseteq tree /\ \A b \in S : state[b] \in Moving
  <2>1. S \subseteq Bds /\ \A b \in S : state[b] \in Moving  BY DEF Transferred
  <2> QED  BY <2>1 DEF TreeInv, Moving
<1>K. K \subseteq S /\ F \subseteq G /\ \A x \in K : ok  BY DEF Kept, FreeOf
<1>w. /\ state' = [b \in Bds |-> IF b \in K THEN "CACHED" ELSE IF b \in G THEN Discarded(b) ELSE state[b]]
      /\ key' = [b \in Bds |-> IF b \in F THEN None ELSE key[b]]
      /\ Untree(F)
  BY DEF Written
<1>own. ASSUME NEW v \in Users, pc[v] \in Own  PROVE bd[v] \notin S
  <2> SUFFICES ASSUME bd[v] \in S  PROVE FALSE
    OBVIOUS
  <2>1. state[bd[v]] \in Moving /\ pc[v] # "reading"  BY <1>S DEF Transferred
  <2> QED  BY <2>1, <1>own DEF OwnInv, Own, Modifiable, InAccess, Moving
<1> HIDE DEF K, F
<1>1. \A x \in K : state'[x] = "CACHED"  BY <1>w, <1>S, <1>K
<1>2. \A x \in G : state'[x] = Discarded(x)  BY <1>w, <1>S
<1>3. \A x \in Bds \ S : state'[x] = state[x]  BY <1>w, <1>K
<1>4. \A x \in G : /\ state'[x] \in {"FREE", "EMPTY"}
                   /\ state'[x] = "FREE" <=> x \in F
                   /\ state'[x] = "EMPTY" => Waited(x)
  BY <1>2 DEF Discarded, F, FreeOf
<1>5. ASSUME NEW x \in F, NEW v \in Users  PROVE bd[v] # x
  <2>1. x \in Bds /\ x \in S /\ ~Waited(x)  BY <1>S, <1>K DEF F, FreeOf
  <2>2. \A y \in Users : bd[y] = x => pc[y] \notin Own  BY <2>1, <1>own
  <2> QED  BY <2>1, <2>2, OnlyWaiters
<1>6. ASSUME NEW x \in Bds
      PROVE  /\ state'[x] \in States
             /\ state'[x] = "FREE" <=> state[x] = "FREE" \/ x \in F
             /\ state'[x] = "EMPTY" => state[x] = "EMPTY" \/ Waited(x)
  <2>1. CASE x \in K
    <3>1. x \notin F /\ state[x] # "FREE"  BY <2>1, <1>K, <1>S DEF Moving
    <3> QED  BY <2>1, <3>1, <1>1 DEF States
  <2>2. CASE x \in G
    <3>1. state[x] # "FREE"  BY <2>2, <1>S DEF Moving
    <3> QED  BY <2>2, <3>1, <1>4 DEF States
  <2>3. CASE x \notin S  BY <2>3, <1>3, <1>K DEF BufferTypes
  <2> QED  BY <2>1, <2>2, <2>3
<1>7. Frees(F) /\ fault' = fault
  <2>1. F \subseteq tree  BY <1>S, <1>K
  <2>2. tree' = tree \ F /\ fault' = fault  BY <1>w, <2>1 DEF Untree
  <2>3. state' = [x \in Bds |-> state'[x]]  BY <1>w
  <2>4. state' \in [Bds -> States]  BY <2>3, <1>6
  <2>5. key' \in [Bds -> Keys \cup {None}] /\ \A x \in Bds \ F : key'[x] = key[x]
    BY <1>w DEF BufferTypes
  <2> QED  BY <2>1, <2>2, <2>4, <2>5, <1>5, <1>6 DEF Frees
<1>8. \A x \in G : state'[x] = IF x \in F THEN "FREE" ELSE "EMPTY"  BY <1>4
<1> QED  BY <1>S, <1>K, <1>1, <1>3, <1>8, <1>own, <1>7 DEF K, F

(* The lists are right after a transfer. *)
LEMMA WrittenLists ==
    ASSUME Core, lock = None, NEW S, Transferred(S), NEW ok \in BOOLEAN, Written(S, ok),
           UNCHANGED <<per, modified, syncq>>
    PROVE  ListInv'
<1> DEFINE K == Kept(S, ok)  F == FreeOf(S \ K)
<1>b. /\ S \subseteq tree /\ K \subseteq S /\ F \subseteq S /\ Frees(F)
      /\ \A x \in K : state'[x] = "CACHED"
      /\ \A x \in S \ K : state'[x] = IF x \in F THEN "FREE" ELSE "EMPTY"
      /\ \A x \in Bds \ S : state'[x] = state[x]
  BY WrittenBuffers
<1> USE CoreParts
<1>in. tree \subseteq Bds /\ tree \subseteq Valid  BY DEF BufferTypes, TreeInv
<1>m. \A x \in S : state[x] \in Moving  BY DEF Transferred
<1>d. \A b, c \in S : Dev(b) = Dev(c)  BY DEF Transferred
<1>l. lru' = Reverse(InOrder(F)) \o lru \o InOrder(K)  BY DEF Written
<1>kf. K \cap F = {}  BY DEF FreeOf
<1> HIDE DEF K, F
<1>1. Lists(InOrder(F), F) /\ Lists(InOrder(K), K)
  <2>1. F \in SUBSET tree /\ K \in SUBSET tree  BY <1>b
  <2>2. (\A b, c \in F : Dev(b) = Dev(c)) /\ (\A b, c \in K : Dev(b) = Dev(c))  BY <1>d, <1>b
  <2> QED  BY <2>1, <2>2, InOrderLists
<1>2. Lists(Reverse(InOrder(F)), F)  BY <1>1, ReverseLists
<1> DEFINE L == Valid \cap InState({"FREE", "CACHED"})
<1>3. Lists(lru, L)  BY DEF ListInv
<1>4. S \cap L = {}
  <2>1. \A x \in L : state[x] \in {"FREE", "CACHED"}  BY DEF InState
  <2> QED  BY <2>1, <1>m DEF Moving
<1> HIDE DEF L
<1>5. F \cap L = {} /\ (F \cup L) \cap K = {}  BY <1>4, <1>b, <1>kf
<1>6. Lists(Reverse(InOrder(F)) \o lru, F \cup L)  BY <1>2, <1>3, <1>5, ConcatLists
<1>7. Lists(lru', (F \cup L) \cup K)  BY <1>1, <1>5, <1>6, <1>l, ConcatLists
<1>8. ASSUME NEW x \in Bds
      PROVE  /\ state'[x] = "MODIFIED" <=> state[x] = "MODIFIED"
             /\ state'[x] = "SYNC" <=> state[x] = "SYNC"
             /\ state'[x] \in {"FREE", "CACHED"} <=> x \in F \/ x \in K \/ state[x] \in {"FREE", "CACHED"}
  <2>1. CASE x \in K  BY <2>1, <1>b, <1>m DEF Moving
  <2>2. CASE x \in S \ K
    <3>1. state'[x] = IF x \in F THEN "FREE" ELSE "EMPTY"  BY <2>2, <1>b
    <3>2. state[x] \notin {"MODIFIED", "SYNC", "FREE", "CACHED"}  BY <2>2, <1>m DEF Moving
    <3> QED  BY <2>2, <3>1, <3>2
  <2>3. CASE x \notin S  BY <2>3, <1>b
  <2> QED  BY <2>1, <2>2, <2>3
<1>9. InState({"MODIFIED"})' = InState({"MODIFIED"}) /\ InState({"SYNC"})' = InState({"SYNC"})
  <2>1. /\ InState({"MODIFIED"})' = {x \in Bds : state'[x] = "MODIFIED"}
        /\ InState({"SYNC"})' = {x \in Bds : state'[x] = "SYNC"}
        /\ InState({"MODIFIED"}) = {x \in Bds : state[x] = "MODIFIED"}
        /\ InState({"SYNC"}) = {x \in Bds : state[x] = "SYNC"}
    BY DEF InState
  <2> QED  BY <2>1, <1>8
<1>10. (Valid \cap InState({"FREE", "CACHED"}))' = (F \cup L) \cup K
  <2>1. Valid' = Valid  BY DEF Valid
  <2>2. (Valid \cap InState({"FREE", "CACHED"}))' = Valid \cap {x \in Bds : state'[x] \in {"FREE", "CACHED"}}
    BY <2>1 DEF InState
  <2>3. L = Valid \cap {x \in Bds : state[x] \in {"FREE", "CACHED"}}  BY DEF InState, L
  <2>4. F \subseteq Valid /\ F \subseteq Bds /\ K \subseteq Valid /\ K \subseteq Bds
    BY <1>b, <1>in
  <2> QED  BY <2>2, <2>3, <2>4, <1>8
<1>11. /\ Lists(lru', (Valid \cap InState({"FREE", "CACHED"}))')
       /\ Lists(modified', InState({"MODIFIED"})') /\ Lists(syncq', InState({"SYNC"})')
  BY <1>7, <1>9, <1>10 DEF ListInv
<1> QED  BY <1>11 DEF ListInv

(* What does not depend on whose transfer it was *)
LEMMA WrittenStep ==
    ASSUME Core, lock = None, NEW S, Transferred(S), NEW ok \in BOOLEAN, Written(S, ok),
           UNCHANGED <<hold, per, dsize, modified, syncq, op, want, bd, cv, ret, resized>>,
           lock' \in {None, RA}, rapc' = "loop" <=> lock' = RA
    PROVE  /\ Stirs /\ UserTypes' /\ UserInv' /\ TreeInv' /\ ListInv' /\ EmptyInv' /\ CountInv'
           /\ SizeInv' /\ OwnInv' /\ FaultInv' /\ LockInv'
           /\ state' \in [Bds -> States] /\ key' \in [Bds -> Keys \cup {None}]
           /\ tree' \subseteq Bds /\ users' \in [Groups -> Int]
<1> USE CoreParts
<1> DEFINE K == Kept(S, ok)  F == FreeOf(S \ K)
<1>b. /\ S \subseteq tree /\ K \subseteq S
      /\ \A x \in K : state'[x] = "CACHED"
      /\ \A x \in S \ K : state'[x] = IF x \in F THEN "FREE" ELSE "EMPTY"
      /\ \A x \in Bds \ S : state'[x] = state[x]
      /\ \A v \in Users : pc[v] \in Own => bd[v] \notin S
      /\ Frees(F) /\ fault' = fault
  BY WrittenBuffers
<1>m. \A x \in S : state[x] \in Moving  BY DEF Transferred
<1>1. pc' \in [Users -> UserPC] /\ Woken  BY WakeWoken DEF Written
<1>2. Stirs  BY <1>1 DEF Stirs, Woken
<1>3. UserTypes'  BY <1>1 DEF UserTypes
<1>4. LockInv'
  <2>1. \A v \in Users : pc'[v] \notin Locked  BY <1>2, StirsFacts, LockFacts
  <2>2. \A v \in Users : lock' # v  BY NoneAssumption
  <2> QED  BY <2>1, <2>2 DEF LockInv
<1> HIDE DEF K, F
<1>5. UserInv' /\ TreeInv' /\ EmptyInv'  BY <1>2, <1>b, BulkUsers
<1>6. SizeInv'
  <2>1. \A x \in Bds : state[x] = "EMPTY" => state'[x] = "EMPTY"  BY <1>b, <1>m DEF Moving
  <2> QED  BY <2>1, <1>2, <1>b, BulkSize
<1>7. OwnInv'
  <2>1. \A v \in Users : pc[v] \in Own => state'[bd[v]] = state[bd[v]]  BY <1>b, OwnFacts
  <2> QED  BY <2>1, <1>2, BulkOwn
<1>8. ListInv'  BY WrittenLists
<1>9. CountInv' /\ users' \in [Groups -> Int]
  <2>1. users' = UsersLess(S) /\ S \in SUBSET Bds  BY DEF Written, Transferred
  <2>2. \A x \in S : state[x] \in UsesGroup /\ state'[x] \notin UsesGroup
    <3>1. \A x \in S : state'[x] \in {"CACHED", "FREE", "EMPTY"}  BY <1>b
    <3> QED  BY <3>1, <1>m DEF Moving, UsesGroup, InAccess, InTransfer
  <2>3. \A x \in Bds \ S : state'[x] \in UsesGroup <=> state[x] \in UsesGroup  BY <1>b
  <2> QED  BY <2>1, <2>2, <2>3, <1>2, StirsSleepers, CountLess
<1>10. FaultInv'  BY <1>b DEF FaultInv
<1>11. state' \in [Bds -> States] /\ key' \in [Bds -> Keys \cup {None}] /\ tree' \subseteq Bds
  BY <1>b DEF Frees, BufferTypes
<1> QED  BY <1>2, <1>3, <1>4, <1>5, <1>6, <1>7, <1>8, <1>9, <1>10, <1>11

(* The end of a write of the swap-out task or a worker keeps the invariant: *)
(* what was written is on the disk; a failed write discards the contents of *)
(* its buffers, which are lost.                                             *)
LEMMA WriteDoneStep ==
    ASSUME Core, NEW w \in Writers, WriteDone(w)
    PROVE  Always' /\ OwnInv'
<1> USE CoreParts DEF bufvars, listvars, grpvars, waitvars, syncvars, swapvars, ravars, datavars, racevars
<1>0. Writing(w) /\ lock = None  BY DEF WriteDone
<1>same. UNCHANGED <<lock, hold, modified, syncq, per, dsize, op, want, bd, cv, ret,
                     synclock, sync_active, sync_device, sdone, upd, rachain, raevent, rapc, rabd,
                     cur, calls, raced, resized>>
  BY DEF WriteDone
<1>wl. /\ wlist[w] \subseteq Bds /\ wlist[w] \in SUBSET tree
       /\ \A b \in wlist[w] : state[b] \in Moving
       /\ \A b, c \in wlist[w] : Dev(b) = Dev(c)
       /\ \A v \in Users : pc[v] = "reading" => bd[v] \notin wlist[w]
  <2>1. /\ wlist[w] \subseteq Bds
        /\ \A b \in wlist[w] : state[b] \in Moving
        /\ \A b, c \in wlist[w] : Dev(b) = Dev(c)
        /\ \A v \in Users : pc[v] = "reading" => bd[v] \notin wlist[w]
    BY DEF WriterInv, TaskTypes
  <2>2. \A b \in wlist[w] : b \in tree  BY <2>1 DEF TreeInv, Moving
  <2> QED  BY <2>1, <2>2
<1>S. PICK S \in SUBSET Bds : S = Batch(wlist[w]) /\ S \subseteq wlist[w]  BY <1>wl, BatchIn
<1>t. Transferred(S)  BY <1>wl, <1>S DEF Transferred
<1>p. /\ wlist' = [wlist EXCEPT ![w] = wlist[w] \ S]
      /\ spc' = IF w = "swapout" /\ wlist[w] \ S = {} THEN "scan" ELSE spc
      /\ wpc' = [x \in Workers |-> IF x = w /\ wlist[w] \ S = {} THEN "free" ELSE wpc[x]]
  BY <1>S DEF WriteDone
<1> DEFINE K == {key[b] : b \in S}
<1>ok. PICK ok \in BOOLEAN :
         /\ Written(S, ok)
         /\ ok => /\ dcur' = [k \in Keys |-> IF k \in K THEN \E b \in S : key[b] = k /\ cur[b]
                                            ELSE dcur[k]]
                  /\ promised' = promised \ K /\ lost' = lost
         /\ ~ok => lost' = lost \cup K /\ dcur' = dcur /\ promised' = promised
  <2>1. PICK ok \in (IF Errors THEN BOOLEAN ELSE {TRUE}) :
         /\ Written(S, ok)
         /\ IF ok
            THEN /\ dcur' = [k \in Keys |-> IF k \in K THEN \E b \in S : key[b] = k /\ cur[b]
                                            ELSE dcur[k]]
                 /\ promised' = promised \ K /\ lost' = lost
            ELSE lost' = lost \cup K /\ dcur' = dcur /\ promised' = promised
    BY <1>S DEF WriteDone
  <2>2. ok \in BOOLEAN  BY <2>1
  <2> QED  BY <2>1, <2>2
<1>K. \A b \in S : cur[b] /\ key[b] \in Keys /\ key[b] \in K
  BY <1>S, <1>wl DEF DataInv, TreeInv
<1>h. /\ promised' \subseteq promised /\ lost \subseteq lost' /\ lost' \subseteq Keys
      /\ K \cap promised' \subseteq lost'
      /\ dcur' \in [Keys -> BOOLEAN]
      /\ \A k \in Keys : ~dcur'[k] /\ k \notin lost' => ~dcur[k] /\ k \notin K
  <2>1. K \subseteq Keys  BY <1>K
  <2>2. \A k \in K : \E b \in S : key[b] = k /\ cur[b]  BY <1>K
  <2> HIDE DEF K
  <2>3. CASE ok  BY <2>1, <2>2, <2>3, <1>ok DEF HistoryTypes, BufferTypes
  <2>4. CASE ~ok  BY <2>1, <2>4, <1>ok DEF HistoryTypes, BufferTypes
  <2> QED  BY <2>3, <2>4
<1> HIDE DEF K
<1>lk. lock' \in {None, RA} /\ (rapc' = "loop" <=> lock' = RA)
  BY <1>0, <1>same, NoneAssumption DEF LockInv
<1>step. /\ Stirs /\ UserTypes' /\ UserInv' /\ TreeInv' /\ ListInv' /\ EmptyInv' /\ CountInv'
         /\ SizeInv' /\ OwnInv' /\ FaultInv' /\ LockInv'
         /\ state' \in [Bds -> States] /\ key' \in [Bds -> Keys \cup {None}]
         /\ tree' \subseteq Bds /\ users' \in [Groups -> Int]
  BY <1>0, <1>t, <1>ok, <1>lk, <1>same, WrittenStep
<1>b. /\ FreeOf(S \ Kept(S, ok)) \subseteq S /\ Frees(FreeOf(S \ Kept(S, ok)))
      /\ \A x \in Kept(S, ok) : state'[x] = "CACHED"
      /\ \A x \in S \ Kept(S, ok) :
            state'[x] = IF x \in FreeOf(S \ Kept(S, ok)) THEN "FREE" ELSE "EMPTY"
      /\ \A x \in Bds \ S : state'[x] = state[x]
      /\ Kept(S, ok) \subseteq S
  BY <1>0, <1>t, <1>ok, WrittenBuffers
<1>out. \A x \in Bds \ S : state'[x] = state[x] /\ key'[x] = key[x] /\ (x \in tree => x \in tree')
  BY <1>b DEF Frees
<1>st. \A v \in Users : /\ pc'[v] = "reading" <=> pc[v] = "reading"
                        /\ pc'[v] \in {"synclock", "relock"} <=> pc[v] \in {"synclock", "relock"}
                        /\ pc'[v] \in {"request", "event"} <=> pc[v] \in {"request", "event"}
                        /\ pc[v] = "event" => pc'[v] = "event"
                        /\ bd'[v] = bd[v]
  BY <1>step, StirsFacts DEF Stirs
<1>w1. /\ wlist'[w] = wlist[w] \ S /\ \A x \in Writers \ {w} : wlist'[x] = wlist[x]
       /\ wlist' \in [Writers -> SUBSET Bds]
  BY <1>p, <1>wl DEF TaskTypes
<1>w2. \A x \in Writers : \A b \in wlist'[x] : b \in wlist[x] /\ b \in Bds \ S
  <2>1. \A x \in Writers : \A b \in wlist'[x] : b \in wlist[x] /\ b \notin S
    BY <1>w1, <1>S DEF WriterInv
  <2> QED  BY <2>1 DEF TaskTypes
<1>bt. BufferTypes'  BY <1>step, <1>h, <1>same DEF BufferTypes
<1>tt. TaskTypes' /\ HistoryTypes'
  <2>1. wpc' \in [Workers -> {"free", "busy", "lost"}] /\ spc' \in {"scan", "write", "syncdone", "idle"}
    BY <1>p DEF TaskTypes
  <2>2. promised' \subseteq Keys  BY <1>h DEF HistoryTypes
  <2> QED  BY <2>1, <2>2, <1>h, <1>w1, <1>same DEF TaskTypes, HistoryTypes
<1>writer. WriterInv'
  <2>wr. /\ \A x \in Writers \ {w} : Writing(x)' <=> Writing(x)
         /\ ~Writing(w)' => wlist'[w] = {}
    <3>1. CASE w = "swapout"
      <4>1. \A x \in Workers : wpc'[x] = wpc[x]  BY <3>1, <1>p, NoneAssumption DEF TaskTypes
      <4>2. wlist[w] \ S # {} => spc' = spc  BY <3>1, <1>p
      <4>3. wlist[w] \ S # {} => spc' = "write"  BY <4>2, <3>1, <1>0 DEF Writing
      <4>4. ~Writing(w)' => spc' # "write"  BY <3>1 DEF Writing
      <4> QED  BY <3>1, <4>1, <4>3, <4>4, <1>w1 DEF Writing, Writers
    <3>2. CASE w # "swapout"
      <4>1. w \in Workers /\ \A x \in Workers \ {w} : wpc'[x] = wpc[x]
        BY <3>2, <1>p DEF TaskTypes, Writers
      <4>2. wlist[w] \ S # {} => wpc'[w] = "busy"  BY <3>2, <4>1, <1>p, <1>0 DEF Writing
      <4>3. spc' = spc  BY <3>2, <1>p
      <4>4. ~Writing(w)' => wpc'[w] # "busy"  BY <3>2 DEF Writing
      <4> QED  BY <3>2, <4>1, <4>2, <4>3, <4>4, <1>w1 DEF Writing, Writers
    <3> QED  BY <3>1, <3>2
  <2>1. ASSUME NEW x \in Writers
        PROVE  /\ ~Writing(x)' => wlist'[x] = {}
               /\ \A b \in wlist'[x] : state'[b] \in Moving
               /\ \A b, c \in wlist'[x] : Dev(b)' = Dev(c)'
               /\ \A y \in Writers : \A b \in wlist'[x] \cap wlist'[y] : x = y
               /\ \A v \in Users : pc'[v] = "reading" => bd'[v] \notin wlist'[x]
    <3>1. ~Writing(x)' => wlist'[x] = {}
      <4>1. CASE x = w  BY <4>1, <2>wr
      <4>2. CASE x # w  BY <4>2, <2>wr, <1>w1 DEF WriterInv
      <4> QED  BY <4>1, <4>2
    <3>2. \A b \in wlist'[x] : b \in wlist[x] /\ state'[b] = state[b] /\ Dev(b)' = Dev(b)
      BY <1>w2, <1>out DEF Dev
    <3>3. \A b \in wlist'[x] : state'[b] \in Moving  BY <3>2 DEF WriterInv
    <3>4. \A b, c \in wlist'[x] : Dev(b)' = Dev(c)'  BY <3>2 DEF WriterInv
    <3>5. \A y \in Writers : \A b \in wlist'[x] \cap wlist'[y] : x = y  BY <1>w2 DEF WriterInv
    <3>6. \A v \in Users : pc'[v] = "reading" => bd'[v] \notin wlist'[x]
      BY <3>2, <1>st DEF WriterInv
    <3> QED  BY <3>1, <3>3, <3>4, <3>5, <3>6
  <2>2. rapc' = "reading" =>
          /\ rabd' \in Bds /\ state'[rabd'] \in Moving
          /\ \A x \in Writers : rabd' \notin wlist'[x]
          /\ \A v \in Users : pc'[v] = "reading" => bd'[v] # rabd'
    <3> SUFFICES ASSUME rapc = "reading"
          PROVE /\ rabd \in Bds /\ state'[rabd] \in Moving
                /\ \A x \in Writers : rabd \notin wlist'[x]
                /\ \A v \in Users : pc'[v] = "reading" => bd'[v] # rabd
      BY <1>same
    <3>1. rabd \in Bds /\ state[rabd] \in Moving /\ \A x \in Writers : rabd \notin wlist[x]
      BY DEF WriterInv
    <3>2. rabd \notin S  BY <3>1, <1>S
    <3>3. \A v \in Users : pc[v] = "reading" => bd[v] # rabd  BY DEF WriterInv
    <3> QED  BY <3>1, <3>2, <3>3, <1>out, <1>w2, <1>st
  <2> QED  BY <2>1, <2>2 DEF WriterInv, Writers, Bds
<1>sync. SyncInv'
  <2>1. ASSUME NEW x \in tree, key[x] \in promised' \ lost', Unwritten(x)
        PROVE  x \in tree' /\ key'[x] = key[x] /\ Unwritten(x)'
    <3>1. x \in Bds \ S  BY <2>1, <1>K, <1>h DEF BufferTypes
    <3>2. \A y \in Writers : x \in wlist[y] => x \in wlist'[y]  BY <3>1, <1>w1
    <3> QED  BY <2>1, <3>1, <3>2, <1>out DEF Unwritten, Writers
  <2>2. ASSUME NEW y \in Workers, NEW b \in wlist[y], key[b] \in promised' \ lost'
        PROVE  b \in wlist'[y]
    <3>1. b \notin S /\ y \in Writers  BY <2>2, <1>K, <1>h DEF Writers
    <3> QED  BY <3>1, <1>w1
  <2>3. spc' = "syncdone" => spc = "syncdone"  BY <1>p
  <2> QED  BY <2>1, <2>2, <2>3, <1>h, <1>st, <1>same, SyncFrame
<1>data. DataInv'
  <2>1. ASSUME NEW x \in Bds
        PROVE  /\ state'[x] \in Clean => cur'[x] \/ key'[x] \in lost'
               /\ state'[x] \in Dirty => cur'[x]
    <3>1. CASE x \in S  BY <3>1, <1>K, <1>same
    <3>2. CASE x \notin S  BY <3>2, <1>out, <1>h, <1>same DEF DataInv
    <3> QED  BY <3>1, <3>2
  <2>2. \A x \in Writers : \A b \in wlist'[x] : cur'[b]  BY <1>w2, <1>same DEF DataInv
  <2>3. \A v \in Users : pc'[v] \in {"synclock", "relock"} => cur'[bd'[v]]
    BY <1>st, <1>same DEF DataInv
  <2>4. ASSUME NEW k \in Keys, ~dcur'[k], k \notin lost'
        PROVE  \E x \in Search(k)' : cur'[x] /\ Saved(x)'
    <3>1. ~dcur[k] /\ k \notin K /\ k \notin lost  BY <2>4, <1>h
    <3>2. PICK x \in Search(k) : cur[x] /\ Saved(x)  BY <3>1 DEF DataInv
    <3>3. x \in tree /\ x \in Bds /\ key[x] = k  BY <3>2 DEF Search, BufferTypes
    <3>4. x \notin S  BY <3>1, <3>3, <1>K
    <3>5. x \in tree' /\ key'[x] = k /\ state'[x] = state[x]  BY <3>3, <3>4, <1>out
    <3>6. \A y \in Writers : x \in wlist[y] => x \in wlist'[y]  BY <3>4, <1>w1
    <3>7. Saved(x)'  BY <3>2, <3>5, <3>6, <1>st DEF Saved, Writers
    <3> QED  BY <3>2, <3>5, <3>7, <1>same DEF Search
  <2> QED  BY <2>1, <2>2, <2>3, <2>4 DEF DataInv, Bds, Keys, Writers
<1> QED  BY <1>step, <1>bt, <1>tt, <1>writer, <1>sync, <1>data DEF Always

(* The end of a read of the read-ahead task keeps the invariant. *)
LEMMA RaDoneStep ==
    ASSUME Core, RaDone
    PROVE  Always' /\ OwnInv'
<1> USE CoreParts DEF bufvars, listvars, grpvars, waitvars, syncvars, swapvars, ravars, datavars, racevars
<1>0. rapc = "reading" /\ lock = None  BY DEF RaDone
<1>same. UNCHANGED <<hold, modified, syncq, per, dsize, op, want, bd, cv, ret,
                     synclock, sync_active, sync_device, sdone, wlist, wpc, spc, upd, rachain, raevent,
                     dcur, lost, calls, raced, resized, promised>>
  BY DEF RaDone
<1>ra. rapc' = "loop" /\ rabd' = None /\ lock' = RA  BY DEF RaDone
<1>r. PICK r \in Bds : /\ r = rabd /\ state[r] \in Moving /\ r \in tree /\ key[r] \in Keys
                       /\ \A x \in Writers : r \notin wlist[x]
                       /\ \A v \in Users : pc[v] = "reading" => bd[v] # r
  <2>1. rabd \in Bds /\ state[rabd] \in Moving  BY <1>0 DEF WriterInv
  <2>2. rabd \in tree /\ key[rabd] \in Keys  BY <2>1 DEF TreeInv, Moving
  <2> QED  BY <2>1, <2>2, <1>0 DEF WriterInv
<1>S. PICK S \in SUBSET Bds : S = {r}  OBVIOUS
<1>t. Transferred(S)  BY <1>r, <1>S DEF Transferred
<1>ok. PICK ok \in BOOLEAN : Written(S, ok) /\ cur' = [cur EXCEPT ![r] = ok /\ dcur[key[r]]]
  <2>1. PICK ok \in (IF Errors THEN BOOLEAN ELSE {TRUE}) :
          Written(S, ok) /\ cur' = [cur EXCEPT ![r] = ok /\ dcur[key[r]]]
    BY <1>r, <1>S DEF RaDone
  <2>2. ok \in BOOLEAN  BY <2>1
  <2> QED  BY <2>1, <2>2
<1>step. /\ Stirs /\ UserTypes' /\ UserInv' /\ TreeInv' /\ ListInv' /\ EmptyInv' /\ CountInv'
         /\ SizeInv' /\ OwnInv' /\ FaultInv' /\ LockInv'
         /\ state' \in [Bds -> States] /\ key' \in [Bds -> Keys \cup {None}]
         /\ tree' \subseteq Bds /\ users' \in [Groups -> Int]
  BY <1>0, <1>t, <1>ok, <1>ra, <1>same, WrittenStep
<1>b. /\ FreeOf(S \ Kept(S, ok)) \subseteq S /\ Frees(FreeOf(S \ Kept(S, ok)))
      /\ \A x \in Kept(S, ok) : state'[x] = "CACHED" /\ ok
      /\ \A x \in S \ Kept(S, ok) :
            state'[x] = IF x \in FreeOf(S \ Kept(S, ok)) THEN "FREE" ELSE "EMPTY"
      /\ \A x \in Bds \ S : state'[x] = state[x]
      /\ Kept(S, ok) \subseteq S
  BY <1>0, <1>t, <1>ok, WrittenBuffers
<1>out. \A x \in Bds \ {r} : state'[x] = state[x] /\ key'[x] = key[x] /\ (x \in tree => x \in tree')
  BY <1>b, <1>S DEF Frees
<1>st. \A v \in Users : /\ pc'[v] = "reading" <=> pc[v] = "reading"
                        /\ pc'[v] \in {"synclock", "relock"} <=> pc[v] \in {"synclock", "relock"}
                        /\ pc'[v] \in {"request", "event"} <=> pc[v] \in {"request", "event"}
                        /\ pc[v] = "event" => pc'[v] = "event"
                        /\ bd'[v] = bd[v]
  BY <1>step, StirsFacts DEF Stirs
<1>cu. /\ cur' \in [Bds -> BOOLEAN] /\ \A x \in Bds \ {r} : cur'[x] = cur[x]
       /\ cur'[r] = (ok /\ dcur[key[r]])
  <2>1. dcur[key[r]] \in BOOLEAN /\ cur \in [Bds -> BOOLEAN]  BY <1>r DEF BufferTypes
  <2>2. (ok /\ dcur[key[r]]) \in BOOLEAN  OBVIOUS
  <2> QED  BY <2>1, <2>2, <1>ok
<1>bt. BufferTypes'  BY <1>step, <1>cu, <1>same DEF BufferTypes
<1>tt. TaskTypes' /\ HistoryTypes'  BY <1>ra, <1>same DEF TaskTypes, HistoryTypes
<1>wl. \A x \in Writers : \A b \in wlist[x] : b \in Bds \ {r}  BY <1>r DEF TaskTypes
<1>writer. WriterInv'
  <2>0. \A x : Writing(x)' <=> Writing(x)  BY <1>same DEF Writing
  <2>1. ASSUME NEW x \in Writers
        PROVE  /\ ~Writing(x)' => wlist'[x] = {}
               /\ \A b \in wlist'[x] : state'[b] \in Moving
               /\ \A b, c \in wlist'[x] : Dev(b)' = Dev(c)'
               /\ \A y \in Writers : \A b \in wlist'[x] \cap wlist'[y] : x = y
               /\ \A v \in Users : pc'[v] = "reading" => bd'[v] \notin wlist'[x]
    <3>1. \A b \in wlist[x] : state'[b] = state[b] /\ Dev(b)' = Dev(b)  BY <1>wl, <1>out DEF Dev
    <3> QED  BY <3>1, <2>0, <1>st, <1>same DEF WriterInv
  <2>2. rapc' # "reading"  BY <1>ra
  <2> QED  BY <2>1, <2>2 DEF WriterInv, Writers, Bds
<1>sync. SyncInv'
  <2>1. ASSUME NEW x \in tree, key[x] \in promised', Unwritten(x)
        PROVE  x \in tree' /\ key'[x] = key[x] /\ Unwritten(x)'
    <3>1. x \in Bds \ {r}
      <4>1. "swapout" \in Writers  BY DEF Writers
      <4> QED  BY <2>1, <4>1, <1>r DEF Unwritten, Moving, BufferTypes
    <3> QED  BY <2>1, <3>1, <1>out, <1>same DEF Unwritten
  <2>2. promised' \subseteq promised /\ (spc' = "syncdone" => spc = "syncdone")  BY <1>same
  <2> QED  BY <2>1, <2>2, <1>st, <1>same, SyncFrame
<1>data. DataInv'
  <2>own. \A v \in Users : pc[v] \in {"synclock", "relock"} => bd[v] # r /\ bd[v] \in Bds
    BY <1>r, OwnFacts DEF OwnInv, Modifiable, Moving, Own
  <2>ns. ~Saved(r)  BY <1>r, <2>own DEF Saved, Dirty, Moving
  <2>dc. dcur[key[r]] \/ key[r] \in lost
    <3> SUFFICES ASSUME ~dcur[key[r]], key[r] \notin lost  PROVE FALSE
      OBVIOUS
    <3>1. PICK x \in Search(key[r]) : Saved(x)  BY <1>r DEF DataInv
    <3>2. x = r  BY <3>1, <1>r DEF Search, TreeInv
    <3> QED  BY <3>1, <3>2, <2>ns
  <2>1. ASSUME NEW x \in Bds
        PROVE  /\ state'[x] \in Clean => cur'[x] \/ key'[x] \in lost'
               /\ state'[x] \in Dirty => cur'[x]
    <3>1. CASE x = r
      <4>1. x \in S  BY <3>1, <1>S
      <4>2. "FREE" \notin Clean \cup Dirty /\ "EMPTY" \notin Clean \cup Dirty /\ "CACHED" \notin Dirty
        BY DEF Clean, Dirty
      <4>3. CASE x \in Kept(S, ok)
        <5>1. x \notin FreeOf(S \ Kept(S, ok))  BY <4>3 DEF FreeOf
        <5>2. key'[x] = key[x]  BY <5>1, <1>b DEF Frees
        <5> QED  BY <3>1, <4>2, <4>3, <5>2, <2>dc, <1>cu, <1>b, <1>same
      <4>4. CASE x \notin Kept(S, ok)  BY <4>1, <4>2, <4>4, <1>b
      <4> QED  BY <4>3, <4>4
    <3>2. CASE x # r  BY <3>2, <1>out, <1>cu, <1>same DEF DataInv
    <3> QED  BY <3>1, <3>2
  <2>2. \A x \in Writers : \A b \in wlist'[x] : cur'[b]  BY <1>wl, <1>cu, <1>same DEF DataInv
  <2>3. \A v \in Users : pc'[v] \in {"synclock", "relock"} => cur'[bd'[v]]
    BY <2>own, <1>st, <1>cu DEF DataInv
  <2>4. ASSUME NEW k \in Keys, ~dcur'[k], k \notin lost'  PROVE \E x \in Search(k)' : cur'[x] /\ Saved(x)'
    <3>2. PICK x \in Search(k) : cur[x] /\ Saved(x)  BY <2>4, <1>same DEF DataInv
    <3>3. x \in tree /\ x \in Bds \ {r} /\ key[x] = k  BY <3>2, <2>ns DEF Search, BufferTypes
    <3>5. x \in tree' /\ key'[x] = k /\ state'[x] = state[x] /\ cur'[x]
      BY <3>2, <3>3, <1>out, <1>cu
    <3>7. Saved(x)'  BY <3>2, <3>5, <1>st, <1>same DEF Saved, Writers
    <3> QED  BY <3>5, <3>7 DEF Search
  <2> QED  BY <2>1, <2>2, <2>3, <2>4 DEF DataInv, Bds, Keys, Writers
<1> QED  BY <1>step, <1>bt, <1>tt, <1>writer, <1>sync, <1>data DEF Always

-----------------------------------------------------------------------------
(* The invariant holds initially and is kept *)

(* At first every group is divided into as many buffers as it can have: all *)
(* descriptors are valid.                                                   *)
LEMMA WholeValid ==
    ASSUME per = [g \in Groups |-> MaxPer]
    PROVE  Valid = Bds
<1>1. MaxPer \in Nat \ {0}  BY CacheAssumption
<1>2. MaxPer \div MaxPer = 1
  <2>1. Divisor(MaxPer)  BY <1>1 DEF Divisor
  <2> DEFINE q == MaxPer \div MaxPer
  <2>2. q \in Nat \ {0} /\ MaxPer * q = MaxPer  BY <2>1, DivisorFacts
  <2> HIDE DEF q
  <2>3. q <= 1
    <3>1. SUFFICES ASSUME 1 < q  PROVE FALSE
      BY <2>2
    <3>2. 1 * MaxPer < q * MaxPer  BY <3>1, <2>2, <1>1, Times
    <3>3. q * MaxPer = MaxPer * q /\ 1 * MaxPer = MaxPer  BY <2>2, <1>1
    <3> QED  BY <3>2, <3>3, <2>2, <1>1
  <2>4. q = 1  BY <2>2, <2>3
  <2> QED  BY <2>4 DEF q
<1>3. ASSUME NEW b \in Bds  PROVE b \in GroupBds(b[1], per[b[1]])
  <2>1. b[1] \in Groups /\ b[2] \in 0 .. MaxPer - 1 /\ b = <<b[1], b[2]>>  BY DEF Bds
  <2>2. per[b[1]] = MaxPer  BY <2>1
  <2>3. b[2] = b[2] * (MaxPer \div MaxPer)  BY <2>1, <1>1, <1>2
  <2> QED  BY <2>1, <2>2, <2>3 DEF GroupBds
<1> QED  BY <1>3 DEF Valid

(* The invariant holds after rtems_bdbuf_do_init. *)
LEMMA InitCore == Init => Core
<1> SUFFICES ASSUME Init  PROVE Core
  OBVIOUS
<1> USE DEF Init
<1>st. \A b \in Bds : state[b] = "FREE"  OBVIOUS
<1>pc. \A u \in Users : pc[u] = "idle" /\ bd[u] = None  OBVIOUS
<1>1. UserTypes  BY DEF UserTypes, UserPC
<1>2. BufferTypes
  <2>1. hold \in [Bds -> 0 .. Hold]  BY CacheAssumption
  <2> QED  BY <2>1 DEF BufferTypes, States
<1>3. TaskTypes /\ HistoryTypes
  <2>1. calls \in 0 .. MaxCalls  BY CacheAssumption
  <2>2. HistoryTypes  BY <2>1 DEF HistoryTypes
  <2>3. wlist \in [Writers -> SUBSET Bds]  OBVIOUS
  <2>4. wpc \in [Workers -> {"free", "busy", "lost"}]  OBVIOUS
  <2>5. TaskTypes  BY <2>3, <2>4 DEF TaskTypes
  <2> QED  BY <2>2, <2>5
<1>4. LockInv
  <2>1. \A u \in Users : lock # u  BY NoneAssumption
  <2>2. lock # RA  BY NoneAssumption
  <2> QED  BY <2>1, <2>2, <1>pc DEF LockInv, Locked
<1>5. UserInv  BY <1>pc DEF UserInv, Own, At, Asleep
<1>6. TreeInv  BY <1>st DEF TreeInv
<1>7. ListInv
  <2>1. Valid \cap InState({"FREE", "CACHED"}) = Bds  BY <1>st, WholeValid DEF InState
  <2>2. InState({"MODIFIED"}) = {} /\ InState({"SYNC"}) = {}  BY <1>st DEF InState
  <2>3. Lists(SetToSeq(Bds), Bds)  BY BdsFacts, SetToSeqLists
  <2>4. lru = SetToSeq(Bds) /\ modified = <<>> /\ syncq = <<>>  OBVIOUS
  <2> QED  BY <2>1, <2>2, <2>3, <2>4, EmptyLists DEF ListInv
<1>8. WriterInv  BY <1>pc DEF WriterInv, Writing
<1>9. EmptyInv  BY <1>st DEF EmptyInv
<1>10. CountInv
  <2>1. \A g \in Groups : Busy(state, g) = {} /\ Sleepers(pc, bd, g) = {}
    BY <1>st, <1>pc DEF Busy, Sleepers, UsesGroup, InAccess, InTransfer
  <2>2. Cardinality({}) = 0  BY FS_EmptySet
  <2>3. \A g \in Groups : users[g] = 0  OBVIOUS
  <2>4. \A g \in Groups : users[g] = Cardinality(Busy(state, g)) + Cardinality(Sleepers(pc, bd, g))
    <3> TAKE g \in Groups
    <3>1. Cardinality(Busy(state, g)) = 0 /\ Cardinality(Sleepers(pc, bd, g)) = 0  BY <2>1, <2>2
    <3> QED  BY <3>1, <2>3
  <2> QED  BY <2>4 DEF CountInv
<1>11. SizeInv  BY <1>pc DEF SizeInv, Asleep
<1>12. FaultInv  BY DEF FaultInv
<1>13. SyncInv
  <2>1. \A u \in Users : synclock # u  BY NoneAssumption
  <2> QED  BY <2>1, <1>pc DEF SyncInv
<1>14. DataInv  BY <1>st, <1>pc DEF DataInv, Clean, Dirty
<1>15. OwnInv  BY <1>pc DEF OwnInv, Own
<1> QED
  BY <1>1, <1>2, <1>3, <1>4, <1>5, <1>6, <1>7, <1>8, <1>9, <1>10, <1>11, <1>12, <1>13, <1>14,
     <1>15
        DEF Core, Always

(* What is once raced stays so. *)
LEMMA RacedStays ==
    ASSUME Next \/ UNCHANGED vars
    PROVE  raced => raced'
<1> SUFFICES ASSUME raced  PROVE raced'
  OBVIOUS
<1> USE DEF racevars
<1>1. ASSUME NEW u \in Users, Begin(u)  PROVE raced'
  <2>1. CASE Call(u)  BY <2>1 DEF Call
  <2>2. CASE SyncdevLock(u)  BY <2>2 DEF SyncdevLock
  <2>3. CASE Purge(u)  BY <2>3 DEF Purge
  <2>4. CASE Resize(u)  BY <2>4 DEF Resize, SetBlockSize
  <2>5. CASE Peek(u)  BY <2>5 DEF Peek
  <2> QED  BY <1>1, <2>1, <2>2, <2>3, <2>4, <2>5 DEF Begin
<1>2. ASSUME NEW u \in Users, Proceed(u)  PROVE raced'
  <2>1. CASE Resume(u)  BY <2>1 DEF Resume
  <2>2. CASE FindMiss(u)  BY <2>2 DEF FindMiss
  <2>3. CASE FindWait(u)  BY <2>3 DEF FindWait
  <2>4. CASE FindHit(u)  BY <2>4 DEF FindHit
  <2>5. CASE RecycleWait(u)  BY <2>5 DEF RecycleWait
  <2>6. CASE RecycleSync(u)  BY <2>6 DEF RecycleSync
  <2>7. CASE RecycleFree(u)  BY <2>7 DEF RecycleFree
  <2>8. CASE AccessWait(u)  BY <2>8 DEF AccessWait
  <2>9. CASE AccessTake(u)  BY <2>9 DEF AccessTake
  <2>10. CASE AccessRead(u)  BY <2>10 DEF AccessRead
  <2>11. CASE ReadDone(u)  BY <2>11 DEF ReadDone
  <2>12. CASE ReadError(u)  BY <2>12 DEF ReadError
  <2>13. CASE Release(u)  BY <2>13 DEF Release
  <2>14. CASE ReleaseDiscard(u)  BY <2>14 DEF ReleaseDiscard
  <2>15. CASE ReleaseModified(u)  BY <2>15 DEF ReleaseModified
  <2>16. CASE ReleaseBlocked(u)  BY <2>16 DEF ReleaseBlocked
  <2>17. CASE SyncLocked(u)  BY <2>17 DEF SyncLocked
  <2>18. CASE ReleaseUnblocked(u)  BY <2>18 DEF ReleaseUnblocked
  <2>19. CASE Sync(u)  BY <2>19 DEF Sync
  <2>20. CASE SyncWait(u)  BY <2>20 DEF SyncWait
  <2>21. CASE SyncDone(u)  BY <2>21 DEF SyncDone
  <2>22. CASE SyncdevRequest(u)  BY <2>22 DEF SyncdevRequest
  <2>23. CASE SyncdevReturn(u)  BY <2>23 DEF SyncdevReturn
  <2>24. CASE ResizeSynced(u)  BY <2>24 DEF ResizeSynced, SetBlockSize
  <2> QED
    BY <1>2, <2>1, <2>2, <2>3, <2>4, <2>5, <2>6, <2>7, <2>8, <2>9, <2>10, <2>11, <2>12, <2>13,
       <2>14,
              <2>15, <2>16, <2>17, <2>18, <2>19, <2>20, <2>21, <2>22, <2>23, <2>24 DEF Proceed
<1>3. ASSUME NEW w, WriteDone(w)  PROVE raced'  BY <1>3 DEF WriteDone
<1>4. Scan => raced'  BY DEF Scan
<1>5. SyncEnd => raced'  BY DEF SyncEnd
<1>6. SwapoutWake => raced'  BY DEF SwapoutWake
<1>7. RaWake => raced'  BY DEF RaWake
<1>8. RaSkip => raced'  BY DEF RaSkip
<1>9. RaRead => raced'  BY DEF RaRead
<1>10. RaDone => raced'  BY DEF RaDone
<1>11. UNCHANGED vars => raced'  BY DEF vars
<1> QED  BY <1>1, <1>2, <1>3, <1>4, <1>5, <1>6, <1>7, <1>8, <1>9, <1>10, <1>11
        DEF Next, Swapout, ReadAheadTask, Halted

(* Every step of the users and the tasks keeps the invariant, except for    *)
(* the owners when it is a race.                                            *)
LEMMA CoreStep ==
    ASSUME Core, Running /\ (\/ \E u \in Users : Begin(u) \/ Proceed(u)
                             \/ Swapout \/ ReadAheadTask
                             \/ \E w \in Workers : WriteDone(w))
    PROVE  Always' /\ (~raced' => OwnInv')
<1>1. ASSUME NEW u \in Users, Begin(u)  PROVE Always' /\ (~raced' => OwnInv')
  BY <1>1, CallStep, SyncdevLockStep, PurgeStep, ResizeStep, PeekStep DEF Begin
<1>2. ASSUME NEW u \in Users, Proceed(u)  PROVE Always' /\ (~raced' => OwnInv')
  BY <1>2, ResumeStep, FindMissStep, FindWaitStep, FindHitStep, RecycleWaitStep, RecycleSyncStep,
     RecycleFreeStep, AccessWaitStep, AccessTakeStep, AccessReadStep, ReadDoneStep, ReadErrorStep,
     ReleaseStep, ReleaseDiscardStep, ReleaseModifiedStep, ReleaseBlockedStep, SyncLockedStep,
     ReleaseUnblockedStep, SyncStep, SyncWaitStep, SyncDoneStep, SyncdevRequestStep, SyncdevReturnStep,
     ResizeSyncedStep DEF Proceed
<1>3. ASSUME NEW w \in Writers, WriteDone(w)  PROVE Always' /\ OwnInv'
  BY <1>3, WriteDoneStep
<1>4. Workers \subseteq Writers /\ "swapout" \in Writers  BY DEF Writers
<1>5. Swapout => Always' /\ OwnInv'
  BY <1>3, <1>4, ScanStep, SyncEndStep, SwapoutWakeStep DEF Swapout
<1>6. ReadAheadTask => Always' /\ OwnInv'
  BY RaWakeStep, RaSkipStep, RaReadStep, RaDoneStep DEF ReadAheadTask
<1> QED  BY <1>1, <1>2, <1>3, <1>4, <1>5, <1>6

(* Nothing changes when nothing changes. *)
LEMMA StutterParts ==
    ASSUME UNCHANGED vars
    PROVE  (Always => Always') /\ (OwnInv => OwnInv') /\ raced' = raced
<1> USE DEF vars, bufvars, listvars, grpvars, waitvars, syncvars, swapvars, ravars, datavars, racevars
<1>1. UserTypes => UserTypes'  BY DEF UserTypes
<1>2. BufferTypes => BufferTypes'  BY DEF BufferTypes
<1>3. (TaskTypes => TaskTypes') /\ (HistoryTypes => HistoryTypes')  BY DEF TaskTypes, HistoryTypes
<1>4. (LockInv => LockInv') /\ (UserInv => UserInv')  BY DEF LockInv, UserInv, Asleep
<1>5. (TreeInv => TreeInv') /\ (ListInv => ListInv')  BY TreeFrame, ListFrame
<1>6. WriterInv => WriterInv'  BY DEF WriterInv, Writing, Dev
<1>7. EmptyInv => EmptyInv'  BY DEF EmptyInv, Asleep
<1>8. (CountInv => CountInv') /\ (FaultInv => FaultInv')  BY DEF CountInv, FaultInv
<1>9. SizeInv => SizeInv'  BY DEF SizeInv, Fits, Dev, Syncing, Asleep
<1>10. SyncInv => SyncInv'  BY DEF SyncInv, Search, Unwritten, Left
<1>11. DataInv => DataInv'  BY DEF DataInv, Search, Saved
<1>12. OwnInv => OwnInv'  BY DEF OwnInv
<1> QED  BY <1>1, <1>2, <1>3, <1>4, <1>5, <1>6, <1>7, <1>8, <1>9, <1>10, <1>11, <1>12 DEF Always

(* Until a purge hits a directive everything holds; if the model stops      *)
(* then, all but OwnInv holds in its last state too.                        *)
CacheInv == (~raced => Core) /\ (~AfterRace => Always)

(* The invariant is inductive. *)
LEMMA CacheInvStep ==
    ASSUME CacheInv, Next \/ UNCHANGED vars
    PROVE  CacheInv'
<1>1. raced => raced'  BY RacedStays
<1>2. CASE UNCHANGED vars
  <2>1. (Always => Always') /\ (OwnInv => OwnInv') /\ raced' = raced  BY <1>2, StutterParts
  <2> QED  BY <2>1 DEF CacheInv, Core
<1>3. CASE Halted  BY <1>2, <1>3 DEF Halted
<1>4. CASE Running /\ (\/ \E u \in Users : Begin(u) \/ Proceed(u)
                       \/ Swapout \/ ReadAheadTask
                       \/ \E w \in Workers : WriteDone(w))
  <2>1. Core => Always' /\ (~raced' => OwnInv')  BY <1>4, CoreStep
  <2>2. AfterRace \/ ~raced  BY <1>4 DEF Running
  <2> QED  BY <2>1, <2>2, <1>1 DEF CacheInv, Core
<1> QED  BY <1>2, <1>3, <1>4 DEF Next

(* The inductive invariant, for any number of users, devices, blocks,       *)
(* groups, sizes of blocks, hold times and workers: as long as no purge has *)
(* hit a directive of another user, buffers have one owner each, lists,     *)
(* tree and counts agree with the states, and what is not on the disk is in *)
(* a buffer that will be written, unless a purge discarded it or a write of *)
(* it failed (lost).                                                        *)
THEOREM CacheInvariant == Spec => []CacheInv
<1>1. Init => CacheInv  BY InitCore DEF CacheInv, Core
<1>2. CacheInv /\ [Next]_vars => CacheInv'  BY CacheInvStep
<1> QED  BY <1>1, <1>2, PTL DEF Spec

-----------------------------------------------------------------------------
(* What follows from it *)

(* The invariant implies the table of states in bdbuf.h. *)
LEMMA CoreTable ==
    ASSUME Core
    PROVE  FollowsTable
<1> USE CoreParts
<1>1. ASSUME NEW b \in Valid
      PROVE  /\ b \in tree <=> state[b] # "FREE"
             /\ Count(b, lru) = IF state[b] \in {"FREE", "CACHED"} THEN 1 ELSE 0
             /\ Count(b, modified) = IF state[b] = "MODIFIED" THEN 1 ELSE 0
             /\ Count(b, syncq) = IF state[b] = "SYNC" THEN 1 ELSE 0
  <2>1. b \in Bds  BY DEF Valid
  <2>2. /\ Count(b, lru) = IF b \in Valid \cap InState({"FREE", "CACHED"}) THEN 1 ELSE 0
        /\ Count(b, modified) = IF b \in InState({"MODIFIED"}) THEN 1 ELSE 0
        /\ Count(b, syncq) = IF b \in InState({"SYNC"}) THEN 1 ELSE 0
    BY ListsCount DEF ListInv
  <2> QED  BY <2>1, <2>2 DEF InState, TreeInv
<1>2. ASSUME NEW g \in Groups
      PROVE  users[g] = Cardinality({b \in GroupBds(g, per[g]) : state[b] \in UsesGroup})
               + Cardinality({u \in Users : Asleep(u) /\ bd[u] \in {g} \X (0 .. MaxPer - 1)})
  <2>1. {b \in GroupBds(g, per[g]) : state[b] \in UsesGroup} = Busy(state, g)
    <3>1. GroupBds(g, per[g]) \subseteq Bds /\ \A b \in GroupBds(g, per[g]) : b[1] = g
      BY PerDivisor, GroupBdsFacts
    <3>2. ASSUME NEW b \in Bds, b[1] = g, state[b] \in UsesGroup  PROVE b \in GroupBds(g, per[g])
      <4>1. state[b] # "FREE"  BY <3>2 DEF UsesGroup, InAccess, InTransfer
      <4>2. b \in Valid  BY <4>1 DEF TreeInv
      <4> QED  BY <4>2, <3>2 DEF Valid
    <3> QED  BY <3>1, <3>2 DEF Busy
  <2>2. {u \in Users : Asleep(u) /\ bd[u] \in {g} \X (0 .. MaxPer - 1)} = Sleepers(pc, bd, g)
    <3>1. ASSUME NEW u \in Users
          PROVE  bd[u] \in {g} \X (0 .. MaxPer - 1) <=> bd[u] # None /\ bd[u][1] = g
      <4>1. {g} \X (0 .. MaxPer - 1) \subseteq Bds  BY DEF Bds
      <4>2. bd[u] \in {g} \X (0 .. MaxPer - 1) => bd[u] # None /\ bd[u][1] = g
        BY <4>1, BdsFacts
      <4>3. bd[u] \in Bds /\ bd[u][1] = g => bd[u] \in {g} \X (0 .. MaxPer - 1)  BY DEF Bds
      <4> QED  BY <4>2, <4>3 DEF UserTypes
    <3> QED  BY <3>1 DEF Sleepers, Asleep
  <2> QED  BY <2>1, <2>2 DEF CountInv
<1> QED  BY <1>1, <1>2 DEF FollowsTable

(* The table of states in bdbuf.h: a buffer is in the tree and on the list  *)
(* that its state says, the user count of its group is the number of its    *)
(* buffers in use and of the threads that wait for one, and none of the     *)
(* fatal errors of an unexpected state occurs, unless a purge hit a         *)
(* directive of another user; an EMPTY buffer in                            *)
(* rtems_bdbuf_wait_for_recycle (STATE_10) needs a change of the block      *)
(* size.                                                                    *)
THEOREM TableHolds == Spec => []TableUnlessRaced
<1>1. CacheInv => TableUnlessRaced
  <2> SUFFICES ASSUME CacheInv, ~raced  PROVE FollowsTable /\ (fault = "none" \/ (resized /\ fault = "STATE_10"))
    BY DEF TableUnlessRaced
  <2>1. Core  BY DEF CacheInv
  <2>2. FollowsTable /\ FaultInv  BY <2>1, CoreTable, CoreParts
  <2> QED  BY <2>2 DEF FaultInv
<1> QED  BY <1>1, CacheInvariant, PTL

(* A buffer that rtems_bdbuf_get or rtems_bdbuf_read has given to a user is *)
(* of the block it asked for, is the only buffer of that block, has the     *)
(* size of the device (unless that was changed), and no other user has it,  *)
(* until a purge hits a directive of another user.                          *)
THEOREM ExclusiveHolds == Spec => []Exclusive
<1>1. CacheInv => Exclusive
  <2> SUFFICES ASSUME CacheInv, ~raced, NEW u \in Users, pc[u] \in {"hold", "reading", "synclock", "relock"}
        PROVE  /\ key[bd[u]] = want[u] /\ Search(want[u]) = {bd[u]}
               /\ resized \/ per[bd[u][1]] = dsize[want[u][1]]
               /\ \A v \in Users \ {u} :
                    bd[v] = bd[u] => Asleep(v) \/ pc[v] \in {"access", "recycle", "syncwait"}
    BY DEF Exclusive
  <2>1. Core  BY DEF CacheInv
  <2> USE <2>1, CoreParts
  <2>2. pc[u] \in Own  BY DEF Own
  <2>3. /\ bd[u] # None /\ bd[u] \in Bds /\ bd[u] \in tree
        /\ key[bd[u]] = want[u] /\ want[u] \in Keys /\ state[bd[u]] # "EMPTY"
    BY <2>2, OwnFacts
  <2>4. Search(want[u]) = {bd[u]}  BY <2>3 DEF Search, TreeInv
  <2>5. resized \/ per[bd[u][1]] = dsize[want[u][1]]
    <3>1. resized \/ Fits(bd[u])  BY <2>3 DEF SizeInv
    <3> QED  BY <3>1, <2>3 DEF Fits, Dev
  <2>6. ASSUME NEW v \in Users \ {u}, bd[v] = bd[u]
        PROVE  Asleep(v) \/ pc[v] \in {"access", "recycle", "syncwait"}
    <3>1. pc[v] \notin Own  BY <2>2, <2>6 DEF OwnInv
    <3>2. pc[v] \notin {"idle", "find", "request", "event", "resize"}  BY <2>3, <2>6 DEF UserInv
    <3> QED  BY <3>1, <3>2 DEF UserTypes, UserPC, Own, Asleep
  <2> QED  BY <2>3, <2>4, <2>5, <2>6
<1> QED  BY <1>1, CacheInvariant, PTL

(* A cached or modified buffer in the hands of a user has the latest        *)
(* contents released for its block, unless a purge or a failing write       *)
(* discarded those before (lost), until a purge hits a directive of another *)
(* user.                                                                    *)
THEOREM ReadsLatestHolds == Spec => []ReadsLatest
<1>1. CacheInv => ReadsLatest
  <2> SUFFICES ASSUME CacheInv, ~raced, NEW u \in Users, pc[u] = "hold",
                      state[bd[u]] \in {"ACCESS_CACHED", "ACCESS_MODIFIED"}
               PROVE  cur[bd[u]] \/ want[u] \in lost
    BY DEF ReadsLatest
  <2>1. Core  BY DEF CacheInv
  <2>2. bd[u] \in Bds /\ key[bd[u]] = want[u]  BY <2>1, OwnFacts DEF Own
  <2>3. DataInv  BY <2>1, CoreParts
  <2> QED  BY <2>2, <2>3 DEF DataInv, Clean, Dirty
<1> QED  BY <1>1, CacheInvariant, PTL

(* The latest contents released for a block are on the disk or in a buffer  *)
(* of the block that waits to be written or is being written, unless a      *)
(* purge discarded them or a write of them failed (lost), until a purge     *)
(* hits a directive of another user.                                        *)
THEOREM NothingLostHolds == Spec => []NothingLost
<1>1. CacheInv => NothingLost
  <2> SUFFICES ASSUME CacheInv, ~raced, NEW k \in Keys
               PROVE  dcur[k] \/ k \in lost \/ \E b \in Search(k) : cur[b] /\ Saved(b)
    BY DEF NothingLost, Saved, Dirty
  <2>1. DataInv  BY CoreParts DEF CacheInv
  <2> QED  BY <2>1 DEF DataInv
<1> QED  BY <1>1, CacheInvariant, PTL

(* When the swap-out task tells rtems_bdbuf_syncdev that it is done, every  *)
(* block that was modified or in transfer when the request was made has     *)
(* been written, was taken by another user before, was purged or lost to a  *)
(* failing write, or is still being written by a worker, which the task     *)
(* does not wait for; in the model that stops at a race.                    *)
THEOREM SyncWrittenHolds ==
    ASSUME ~AfterRace
    PROVE  Spec => []SyncWritten
<1>1. CacheInv => SyncWritten
  BY DEF CacheInv, Always, SyncInv, Left, SyncWritten
<1> QED  BY <1>1, CacheInvariant, PTL

(* Every variable keeps its type, and no user count of a group becomes      *)
(* negative, in the model that stops at a race.                             *)
THEOREM TypesHold ==
    ASSUME ~AfterRace
    PROVE  Spec => []TypeOK
<1>1. ASSUME CacheInv  PROVE TypeOK
  <2>1. Always  BY <1>1 DEF CacheInv
  <2>2. UserTypes /\ BufferTypes /\ TaskTypes /\ HistoryTypes /\ ListInv /\ CountInv /\ FaultInv
    BY <2>1 DEF Always
  <2>3. users \in [Groups -> Nat]
    <3>1. \A g \in Groups : users[g] \in Nat
      <4> TAKE g \in Groups
      <4>1. users[g] = Cardinality(Busy(state, g)) + Cardinality(Sleepers(pc, bd, g))
        BY <2>2 DEF CountInv
      <4>2. Cardinality(Busy(state, g)) \in Nat /\ Cardinality(Sleepers(pc, bd, g)) \in Nat
        BY CountTypes
      <4> QED  BY <4>1, <4>2
    <3> QED  BY <3>1, <2>2 DEF BufferTypes
  <2>4. lru \in Seq(Bds) /\ modified \in Seq(Bds) /\ syncq \in Seq(Bds)
    <3>1. /\ lru \in Seq(Valid \cap InState({"FREE", "CACHED"}))
          /\ modified \in Seq(InState({"MODIFIED"})) /\ syncq \in Seq(InState({"SYNC"}))
      BY <2>2 DEF ListInv, Lists
    <3>2. /\ Valid \cap InState({"FREE", "CACHED"}) \subseteq Bds
          /\ InState({"MODIFIED"}) \subseteq Bds /\ InState({"SYNC"}) \subseteq Bds
      BY DEF InState
    <3> QED  BY <3>1, <3>2, SeqMonotonic
  <2>5. fault \in {"none", "STATE_9", "STATE_10", "TREE_RM", "LINK"}  BY <2>2 DEF FaultInv
  <2>6. {lru, modified, syncq} \subseteq Seq(Bds)  BY <2>4
  <2>7. {sync_active, sdone, upd, raevent, raced, resized} \subseteq BOOLEAN
    BY <2>2 DEF TaskTypes, HistoryTypes
  <2>8. {promised, lost} \subseteq SUBSET Keys  BY <2>2 DEF HistoryTypes
  <2> QED
    BY <2>2, <2>3, <2>5, <2>6, <2>7, <2>8 DEF TypeOK, UserTypes, BufferTypes, TaskTypes,
       HistoryTypes
<1>2. CacheInv => TypeOK  BY <1>1
<1> QED  BY <1>2, CacheInvariant, PTL

=============================================================================
