------------------------- MODULE MountOptionsProofs -------------------------
(***************************************************************************)
(* What the FUSE process of a volume is told, for every list of options,   *)
(* secret, StorageClass and node: the type, the access mode, the owner of  *)
(* the files, and that the last mention of an option wins.                 *)
(*                                                                         *)
(* The invariant is Pipeline: what a stage holds is what the handlers      *)
(* before it make of the request.  The rest is about those handlers.  The  *)
(* lists are handled by folds; that a fold over a list of any length keeps *)
(* the last mention of a key is shown by induction over the length, which  *)
(* is stated for sets of numbers (NatSetInduction).                        *)
(***************************************************************************)
EXTENDS MountOptions, WellFoundedInduction, TLAPS

-----------------------------------------------------------------------------
(***************************************************************************)
(* Folds over lists.                                                       *)
(***************************************************************************)

(* Induction over the numbers, for a set instead of a predicate: the least *)
(* number outside of the set has no predecessor.                           *)
LEMMA NatSetInduction ==
  ASSUME NEW S, 0 \in S, \A n \in Nat : n \in S => n + 1 \in S
  PROVE  Nat \subseteq S
<1> DEFINE T == Nat \ S
           R == OpToRel(<, Nat)
<1> SUFFICES ASSUME T # {} PROVE FALSE
  OBVIOUS
<1>1. IsWellFoundedOn(R, Nat)
  BY NatLessThanWellFounded, Zenon
<1>2. T \subseteq Nat
  OBVIOUS
<1> HIDE DEF T, R
<1>3. PICK x \in T : \A y \in T : ~(<<y, x>> \in R)
  BY <1>1, <1>2, WFMin
<1>4. x \in Nat /\ x \notin S /\ x # 0
  BY <1>3 DEF T
<1>5. x - 1 \in Nat /\ x - 1 < x
  BY <1>4
<1>6. <<x - 1, x>> \in R
  BY <1>4, <1>5 DEF R, OpToRel
<1>7. x - 1 \in S
  BY <1>3, <1>5, <1>6 DEF T
<1> QED BY <1>4, <1>5, <1>7

(* A set of indices that is not empty has a greatest element.              *)
LEMMA GreatestExists ==
  ASSUME NEW n \in Nat, NEW s \in SUBSET (1..n), s # {}
  PROVE  \E x \in s : \A y \in s : x >= y
<1> DEFINE Has(t) == \E x \in t : \A y \in t : x >= y
           S == {k \in Nat : \A t \in SUBSET (1..k) : t # {} => Has(t)}
<1>1. 0 \in S
  <2>1. \A t \in SUBSET (1..0) : t = {}
    OBVIOUS
  <2> QED BY <2>1
<1>2. ASSUME NEW k \in Nat, k \in S PROVE k + 1 \in S
  <2> SUFFICES ASSUME NEW t \in SUBSET (1..(k + 1)), t # {} PROVE Has(t)
    OBVIOUS
  <2>1. CASE k + 1 \in t
    <3>1. \A y \in t : k + 1 >= y
      OBVIOUS
    <3> QED BY <2>1, <3>1
  <2>2. CASE k + 1 \notin t
    <3>1. t \in SUBSET (1..k)
      BY <2>2
    <3> QED BY <1>2, <3>1
  <2> QED BY <2>1, <2>2
<1> HIDE DEF S
<1>3. n \in S
  BY <1>1, <1>2, NatSetInduction
<1> QED BY <1>3 DEF S

(* Max of a set of indices is its greatest element.                        *)
LEMMA MaxIs ==
  ASSUME NEW n \in Nat, NEW s \in SUBSET (1..n), s # {}
  PROVE  Max(s) \in s /\ \A y \in s : Max(s) >= y
BY GreatestExists DEF Max

(* The indices in s that put something for key k into a map.               *)
Puts(s, ok, key, k) == {i \in s : ok[i] /\ key[i] = k}

(* The map after those of the puts in s that are ok, the later over the    *)
(* earlier.                                                                *)
AfterPuts(m, s, ok, key, val) ==
  [k \in DOMAIN m \cup {key[i] : i \in {j \in s : ok[j]}} |->
     IF Puts(s, ok, key, k) # {} THEN val[Max(Puts(s, ok, key, k))] ELSE m[k]]

(* The last put comes last.                                                *)
LEMMA AfterPutsStep ==
  ASSUME NEW n \in Nat, NEW s \in SUBSET (1..n), s # {},
         NEW ok, NEW key, NEW val, NEW m
  PROVE  AfterPuts(m, s, ok, key, val) =
           PutIf(ok[Max(s)], AfterPuts(m, s \ {Max(s)}, ok, key, val),
                 key[Max(s)], val[Max(s)])
<1> PICK x : x = Max(s)
  OBVIOUS
<1> DEFINE t == s \ {x}
           f == AfterPuts(m, s, ok, key, val)
           g == AfterPuts(m, t, ok, key, val)
<1>1. x \in s /\ \A y \in s : x >= y
  BY MaxIs
<1>2. t \in SUBSET (1..n)
  OBVIOUS
<1>3. CASE ok[x]
  <2> DEFINE h == Put(g, key[x], val[x])
  <2>1. DOMAIN f = DOMAIN h
    BY <1>1, <1>3 DEF AfterPuts, Put
  <2>2. ASSUME NEW k \in DOMAIN f, k = key[x] PROVE f[k] = h[k]
    <3>1. x \in Puts(s, ok, key, k) /\ Puts(s, ok, key, k) \in SUBSET (1..n)
      BY <1>1, <1>3, <2>2 DEF Puts
    <3>2. Max(Puts(s, ok, key, k)) = x
      <4>1. Max(Puts(s, ok, key, k)) \in Puts(s, ok, key, k) /\ Max(Puts(s, ok, key, k)) >= x
        BY <3>1, MaxIs
      <4>2. Max(Puts(s, ok, key, k)) \in s
        BY <4>1 DEF Puts
      <4>3. Max(Puts(s, ok, key, k)) \in Nat /\ x \in Nat
        <5> HIDE DEF f
        <5>1. \A y \in s : y \in Nat
          OBVIOUS
        <5> QED BY <1>1, <4>2, <5>1
      <4> QED BY <1>1, <4>1, <4>2, <4>3
    <3>3. f[k] = val[x]
      BY <3>1, <3>2 DEF AfterPuts
    <3> QED BY <2>1, <2>2, <3>3 DEF Put
  <2>3. ASSUME NEW k \in DOMAIN f, k # key[x] PROVE f[k] = h[k]
    <3>1. Puts(s, ok, key, k) = Puts(t, ok, key, k)
      BY <2>3 DEF Puts
    <3>2. k \in DOMAIN g
      BY <2>1, <2>3 DEF Put
    <3>3. f[k] = g[k]
      BY <3>1, <3>2 DEF AfterPuts
    <3> QED BY <2>1, <2>3, <3>3 DEF Put
  <2>4. f = [k \in DOMAIN f |-> f[k]] /\ h = [k \in DOMAIN h |-> h[k]]
    BY DEF AfterPuts, Put
  <2> HIDE DEF f, h
  <2>5. f = h
    BY <2>1, <2>2, <2>3, <2>4
  <2> QED BY <1>3, <2>5 DEF f, h, g, PutIf
<1>4. CASE ~ok[x]
  <2>1. \A k : Puts(s, ok, key, k) = Puts(t, ok, key, k)
    BY <1>4 DEF Puts
  <2>2. {j \in s : ok[j]} = {j \in t : ok[j]}
    BY <1>4
  <2>3. f = g
    BY <2>1, <2>2 DEF AfterPuts
  <2> QED BY <1>4, <2>3 DEF PutIf
<1> QED BY <1>3, <1>4

(* Nothing is put from the empty set of indices.                           *)
LEMMA AfterNoPuts ==
  ASSUME NEW m, m = [k \in DOMAIN m |-> m[k]], NEW ok, NEW key, NEW val
  PROVE  AfterPuts(m, {}, ok, key, val) = m
BY DEF AfterPuts, Puts

(* The equation that defines the fold of the puts.                         *)
IsPutFold(iter, n, m, ok, key, val) ==
  \A s \in SUBSET (1..n) : iter[s] =
    IF s = {} THEN m
    ELSE PutIf(ok[Max(s)], iter[s \ {Max(s)}], key[Max(s)], val[Max(s)])

(* AfterPuts solves it ...                                                 *)
LEMMA PutsFold ==
  ASSUME NEW n \in Nat, NEW ok, NEW key, NEW val,
         NEW m, m = [k \in DOMAIN m |-> m[k]]
  PROVE  IsPutFold([s \in SUBSET (1..n) |-> AfterPuts(m, s, ok, key, val)],
               n, m, ok, key, val)
<1> DEFINE After(s) == AfterPuts(m, s, ok, key, val)
           w == [s \in SUBSET (1..n) |-> After(s)]
<1> SUFFICES ASSUME NEW s \in SUBSET (1..n)
             PROVE  After(s) = IF s = {} THEN m
               ELSE PutIf(ok[Max(s)], w[s \ {Max(s)}], key[Max(s)], val[Max(s)])
  BY DEF IsPutFold
<1>1. CASE s = {}
  BY <1>1, AfterNoPuts
<1>2. CASE s # {}
  <2>1. s \ {Max(s)} \in SUBSET (1..n)
    OBVIOUS
  <2>2. w[s \ {Max(s)}] = After(s \ {Max(s)})
    BY <2>1
  <2> HIDE DEF w
  <2> QED BY <1>2, <2>2, AfterPutsStep
<1> QED BY <1>1, <1>2

(* ... and is the only solution.                                           *)
LEMMA FoldIsPuts ==
  ASSUME NEW n \in Nat, NEW ok, NEW key, NEW val,
         NEW m, m = [k \in DOMAIN m |-> m[k]],
         NEW iter, IsPutFold(iter, n, m, ok, key, val)
  PROVE  iter[1..n] = AfterPuts(m, 1..n, ok, key, val)
<1> DEFINE After(s) == AfterPuts(m, s, ok, key, val)
           S == {k \in Nat : \A s \in SUBSET (1..k) :
                   s \in SUBSET (1..n) => iter[s] = After(s)}
<1>1. iter[{}] = After({})
  <2>1. {} \in SUBSET (1..n)
    OBVIOUS
  <2>2. iter[{}] = m
    BY <2>1 DEF IsPutFold
  <2> QED BY <2>2, AfterNoPuts
<1>2. 0 \in S
  <2>1. \A s \in SUBSET (1..0) : s = {}
    OBVIOUS
  <2> QED BY <1>1, <2>1
<1>3. ASSUME NEW k \in Nat, k \in S PROVE k + 1 \in S
  <2>1. ASSUME NEW s \in SUBSET (1..(k + 1)), s \in SUBSET (1..n), s # {}
        PROVE  iter[s] = After(s)
    <3> PICK x : x = Max(s)
      OBVIOUS
    <3>1. x \in s /\ \A y \in s : x >= y
      BY <2>1, MaxIs
    <3>2. s \ {x} \in SUBSET (1..k) /\ s \ {x} \in SUBSET (1..n)
      BY <2>1, <3>1
    <3>3. iter[s \ {x}] = After(s \ {x})
      BY <1>3, <3>2
    <3>4. iter[s] = PutIf(ok[x], iter[s \ {x}], key[x], val[x])
      BY <2>1 DEF IsPutFold
    <3> QED BY <2>1, <3>3, <3>4, AfterPutsStep
  <2> HIDE DEF After
  <2>2. \A s \in SUBSET (1..(k + 1)) : s \in SUBSET (1..n) => iter[s] = After(s)
    BY <1>1, <2>1
  <2>3. k + 1 \in Nat
    OBVIOUS
  <2> QED BY <2>2, <2>3
<1> HIDE DEF S
<1>4. n \in S
  BY <1>2, <1>3, NatSetInduction
<1> QED BY <1>4 DEF S

(* What such a map has for each key: the value of the last put, else what  *)
(* it had before.                                                          *)
HasLastPuts(f, n, m, ok, key, val) ==
  /\ f = [k \in DOMAIN f |-> f[k]]
  /\ DOMAIN f = DOMAIN m \cup {key[i] : i \in {j \in 1..n : ok[j]}}
  /\ \A i \in 1..n :
       ok[i] /\ (\A j \in 1..n : ok[j] /\ key[j] = key[i] => j <= i)
         => f[key[i]] = val[i]
  /\ \A k \in DOMAIN m : (\A i \in 1..n : ok[i] => key[i] # k) => f[k] = m[k]

(* After all puts a key has the value of its last one, or keeps its own.   *)
LEMMA PutsView ==
  ASSUME NEW n \in Nat, NEW ok, NEW key, NEW val, NEW m
  PROVE  HasLastPuts(AfterPuts(m, 1..n, ok, key, val), n, m, ok, key, val)
<1> DEFINE f == AfterPuts(m, 1..n, ok, key, val)
<1>1. f = [k \in DOMAIN f |-> f[k]]
  BY DEF AfterPuts
<1>2. DOMAIN f = DOMAIN m \cup {key[i] : i \in {j \in 1..n : ok[j]}}
  BY DEF AfterPuts
<1>3. ASSUME NEW i \in 1..n, ok[i], \A j \in 1..n : ok[j] /\ key[j] = key[i] => j <= i
      PROVE  f[key[i]] = val[i]
  <2> PICK s : s = Puts(1..n, ok, key, key[i])
    OBVIOUS
  <2>1. i \in s /\ s \in SUBSET (1..n) /\ \A j \in s : j <= i
    BY <1>3 DEF Puts
  <2>2. Max(s) \in s /\ Max(s) >= i
    BY <2>1, MaxIs
  <2>3. Max(s) <= i /\ i \in Nat /\ Max(s) \in Nat
    BY <2>1, <2>2
  <2>4. Max(s) = i
    BY <2>2, <2>3
  <2>5. key[i] \in DOMAIN f
    BY <1>2, <1>3
  <2> QED BY <2>1, <2>4, <2>5 DEF AfterPuts
<1>4. ASSUME NEW k \in DOMAIN m, \A i \in 1..n : ok[i] => key[i] # k
      PROVE  f[k] = m[k]
  BY <1>4 DEF AfterPuts, Puts
<1> QED BY <1>1, <1>2, <1>3, <1>4 DEF HasLastPuts

-----------------------------------------------------------------------------
(***************************************************************************)
(* The two folds over a list of options.                                   *)
(***************************************************************************)
ValueOf(o) == IF o.val = <<>> THEN <<o.name>> ELSE o.val

Values(list) == [i \in DOMAIN list |-> list[i].val]
ValuesOf(list) == [i \in DOMAIN list |-> ValueOf(list[i])]
Named(list) == {i \in DOMAIN list : list[i].name # ""}
WellFormed(list) == {i \in DOMAIN list : Len(list[i].val) = 1}

(* Index i has the last of its name among those in S.                      *)
IsLast(list, S, i) ==
  i \in S /\ \A j \in S : list[j].name = list[i].name => j <= i

(* Of each name among S map f has the last value, of others what m has.    *)
HasLast(f, list, S, val, m) ==
  /\ f = [k \in DOMAIN f |-> f[k]]
  /\ DOMAIN f = DOMAIN m \cup {list[i].name : i \in S}
  /\ \A i \in S : IsLast(list, S, i) => f[list[i].name] = val[i]
  /\ \A k \in DOMAIN m : (\A i \in S : list[i].name # k) => f[k] = m[k]

(* For s3fs every option with a name is put.                               *)
LEMMA ClassifyPuts ==
  ASSUME NEW options \in Seq(OptionType), NEW m, m = [k \in DOMAIN m |-> m[k]]
  PROVE  classifyMountOptions(options, m) =
           AfterPuts(m, 1..Len(options),
             [i \in 1..Len(options) |-> options[i].name # ""],
             [i \in 1..Len(options) |-> options[i].name],
             [i \in 1..Len(options) |-> ValueOf(options[i])])
<1> DEFINE n == Len(options)
           ok == [i \in 1..n |-> options[i].name # ""]
           key == [i \in 1..n |-> options[i].name]
           val == [i \in 1..n |-> ValueOf(options[i])]
           Body(f, s) ==
             IF s = {} THEN m
             ELSE PutIf(options[Max(s)].name # "", f[s \ {Max(s)}],
                        options[Max(s)].name, ValueOf(options[Max(s)]))
           iter == CHOOSE f : f = [s \in SUBSET (1..n) |-> Body(f, s)]
           w == [s \in SUBSET (1..n) |-> AfterPuts(m, s, ok, key, val)]
<1>1. n \in Nat /\ DOMAIN options = 1..n
  OBVIOUS
<1>2. classifyMountOptions(options, m) = iter[1..n]
  <2> HIDE DEF n
  <2> QED BY <1>1, Zenon DEF classifyMountOptions, FoldLeft, MapThenFoldSet, ValueOf
<1> HIDE DEF n, w
<1>3. ASSUME NEW f, NEW s \in SUBSET (1..n)
      PROVE  Body(f, s) = IF s = {} THEN m
               ELSE PutIf(ok[Max(s)], f[s \ {Max(s)}], key[Max(s)], val[Max(s)])
  <2>1. CASE s # {}
    <3>1. Max(s) \in 1..n
      BY <1>1, <2>1, MaxIs
    <3> QED BY <2>1, <3>1
  <2> QED BY <2>1
<1> HIDE DEF Body, ok, key, val
<1>4. w = [s \in SUBSET (1..n) |-> Body(w, s)]
  <2>1. IsPutFold(w, n, m, ok, key, val)
    BY <1>1, PutsFold DEF w
  <2>2. \A s \in SUBSET (1..n) : w[s] = Body(w, s)
    BY <1>3, <2>1 DEF IsPutFold
  <2> QED BY <2>2 DEF w
<1>5. iter = [s \in SUBSET (1..n) |-> Body(iter, s)]
  BY <1>4
<1> HIDE DEF iter
<1>6. IsPutFold(iter, n, m, ok, key, val)
  <2>1. \A s \in SUBSET (1..n) : iter[s] = Body(iter, s)
    BY <1>5
  <2> QED BY <1>3, <2>1 DEF IsPutFold
<1>7. iter[1..n] = AfterPuts(m, 1..n, ok, key, val)
  BY <1>1, <1>6, FoldIsPuts
<1> QED BY <1>2, <1>7 DEF ok, key, val, n

(* For rclone those of the form name=value are.                            *)
LEMMA OneValuePuts ==
  ASSUME NEW options \in Seq(OptionType), NEW m, m = [k \in DOMAIN m |-> m[k]]
  PROVE  OneValue(m, options) =
           AfterPuts(m, 1..Len(options),
             [i \in 1..Len(options) |-> Len(options[i].val) = 1],
             [i \in 1..Len(options) |-> options[i].name],
             [i \in 1..Len(options) |-> options[i].val])
<1> DEFINE n == Len(options)
           ok == [i \in 1..n |-> Len(options[i].val) = 1]
           key == [i \in 1..n |-> options[i].name]
           val == [i \in 1..n |-> options[i].val]
           Body(f, s) ==
             IF s = {} THEN m
             ELSE PutIf(Len(options[Max(s)].val) = 1, f[s \ {Max(s)}],
                        options[Max(s)].name, options[Max(s)].val)
           iter == CHOOSE f : f = [s \in SUBSET (1..n) |-> Body(f, s)]
           w == [s \in SUBSET (1..n) |-> AfterPuts(m, s, ok, key, val)]
<1>1. n \in Nat /\ DOMAIN options = 1..n
  OBVIOUS
<1>2. OneValue(m, options) = iter[1..n]
  <2> HIDE DEF n
  <2> QED BY <1>1, Zenon DEF OneValue, FoldLeft, MapThenFoldSet, ValueOf
<1> HIDE DEF n, w
<1>3. ASSUME NEW f, NEW s \in SUBSET (1..n)
      PROVE  Body(f, s) = IF s = {} THEN m
               ELSE PutIf(ok[Max(s)], f[s \ {Max(s)}], key[Max(s)], val[Max(s)])
  <2>1. CASE s # {}
    <3>1. Max(s) \in 1..n
      BY <1>1, <2>1, MaxIs
    <3> QED BY <2>1, <3>1
  <2> QED BY <2>1
<1> HIDE DEF Body, ok, key, val
<1>4. w = [s \in SUBSET (1..n) |-> Body(w, s)]
  <2>1. IsPutFold(w, n, m, ok, key, val)
    BY <1>1, PutsFold DEF w
  <2>2. \A s \in SUBSET (1..n) : w[s] = Body(w, s)
    BY <1>3, <2>1 DEF IsPutFold
  <2> QED BY <2>2 DEF w
<1>5. iter = [s \in SUBSET (1..n) |-> Body(iter, s)]
  BY <1>4
<1> HIDE DEF iter
<1>6. IsPutFold(iter, n, m, ok, key, val)
  <2>1. \A s \in SUBSET (1..n) : iter[s] = Body(iter, s)
    BY <1>5
  <2> QED BY <1>3, <2>1 DEF IsPutFold
<1>7. iter[1..n] = AfterPuts(m, 1..n, ok, key, val)
  BY <1>1, <1>6, FoldIsPuts
<1> QED BY <1>2, <1>7 DEF ok, key, val, n

(* The same, said of the options of a list.                                *)
LEMMA PutsAreLast ==
  ASSUME NEW list \in Seq(OptionType), NEW S, NEW ok, NEW val, NEW m, NEW f,
         \A i : i \in S <=> i \in 1..Len(list) /\ ok[i],
         f = AfterPuts(m, 1..Len(list), ok, [i \in 1..Len(list) |-> list[i].name], val)
  PROVE  HasLast(f, list, S, val, m)
<1> DEFINE n == Len(list)
           key == [i \in 1..n |-> list[i].name]
<1>1. n \in Nat
  OBVIOUS
<1>2. \A i \in 1..n : key[i] = list[i].name
  OBVIOUS
<1>3. \A i : i \in S <=> i \in 1..n /\ ok[i]
  OBVIOUS
<1>4. f = AfterPuts(m, 1..n, ok, key, val)
  OBVIOUS
<1> HIDE DEF n, key
<1>5. HasLastPuts(f, n, m, ok, key, val)
  BY <1>1, <1>4, PutsView
<1>6. f = [k \in DOMAIN f |-> f[k]]
  BY <1>5 DEF HasLastPuts
<1>7. DOMAIN f = DOMAIN m \cup {list[i].name : i \in S}
  <2>1. DOMAIN f = DOMAIN m \cup {key[i] : i \in {j \in 1..n : ok[j]}}
    BY <1>5 DEF HasLastPuts
  <2> QED BY <1>2, <1>3, <2>1
<1>8. ASSUME NEW i \in S, IsLast(list, S, i) PROVE f[list[i].name] = val[i]
  <2>1. i \in 1..n /\ ok[i] /\ \A j \in 1..n : ok[j] /\ key[j] = key[i] => j <= i
    BY <1>2, <1>3, <1>8 DEF IsLast
  <2>2. f[key[i]] = val[i]
    BY <1>5, <2>1 DEF HasLastPuts
  <2> QED BY <1>2, <2>1, <2>2
<1>9. ASSUME NEW k \in DOMAIN m, \A i \in S : list[i].name # k PROVE f[k] = m[k]
  <2>1. \A i \in 1..n : ok[i] => key[i] # k
    BY <1>2, <1>3, <1>9
  <2> QED BY <1>5, <2>1 DEF HasLastPuts
<1> QED BY <1>6, <1>7, <1>8, <1>9 DEF HasLast

(* What classifyMountOptions makes of a list of any length ...             *)
LEMMA ClassifyView ==
  ASSUME NEW options \in Seq(OptionType), NEW m, m = [k \in DOMAIN m |-> m[k]]
  PROVE  HasLast(classifyMountOptions(options, m), options, Named(options),
                 ValuesOf(options), m)
<1> DEFINE n == Len(options)
           ok == [i \in 1..n |-> options[i].name # ""]
<1>1. \A i : i \in Named(options) <=> i \in 1..n /\ ok[i]
  <2>1. DOMAIN options = 1..n
    OBVIOUS
  <2> HIDE DEF n
  <2> QED BY <2>1 DEF Named
<1>2. ValuesOf(options) = [i \in 1..n |-> ValueOf(options[i])]
  BY DEF ValuesOf
<1> HIDE DEF ok
<1>3. classifyMountOptions(options, m) =
        AfterPuts(m, 1..n, ok, [i \in 1..n |-> options[i].name], ValuesOf(options))
  BY <1>2, ClassifyPuts DEF ok
<1> QED BY <1>1, <1>3, PutsAreLast

(* ... and what a pass over a list of the rclone mounter does.             *)
LEMMA OneValueView ==
  ASSUME NEW options \in Seq(OptionType), NEW m, m = [k \in DOMAIN m |-> m[k]]
  PROVE  HasLast(OneValue(m, options), options, WellFormed(options), Values(options), m)
<1> DEFINE n == Len(options)
           ok == [i \in 1..n |-> Len(options[i].val) = 1]
<1>1. \A i : i \in WellFormed(options) <=> i \in 1..n /\ ok[i]
  <2>1. DOMAIN options = 1..n
    OBVIOUS
  <2> HIDE DEF n
  <2> QED BY <2>1 DEF WellFormed
<1>2. Values(options) = [i \in 1..n |-> options[i].val]
  BY DEF Values
<1> HIDE DEF ok
<1>3. OneValue(m, options) =
        AfterPuts(m, 1..n, ok, [i \in 1..n |-> options[i].name], Values(options))
  BY <1>2, OneValuePuts DEF ok
<1> QED BY <1>1, <1>3, PutsAreLast
-----------------------------------------------------------------------------
(***************************************************************************)
(* The request on its way: what each stage holds is made from the request  *)
(* in one way only.                                                        *)
(***************************************************************************)
(* The stages from which on there is a mounter, and then a payload.        *)
Made == {"mount", "posted", "started", "rejected"}
Posted == {"posted", "started", "rejected"}

SecretMade == secret = IF stage = "request" THEN req.secret ELSE Completed(req)

EndpointKnown == stage \in Made \cup {"mounter"} => secret["cosEndpoint"] # ""

MounterMade ==
  mounter = IF stage \notin Made THEN [kind |-> "none"]
            ELSE IF MounterKind(req, secret) = "rclone"
            THEN NewRcloneMounter(req, secret) ELSE NewS3fsMounter(req, secret)

PayloadMade ==
  payload = IF stage \notin Posted THEN NoPayload
            ELSE IF mounter.kind = "rclone" THEN RclonePayload(mounter, secret)
            ELSE S3fsPayload(mounter, secret)

CmdMade ==
  cmd = IF stage # "started" THEN NoCmd
        ELSE IF mounter.kind = "rclone"
        THEN RcloneArgsSlice(payload.args, payload.lines)
        ELSE PopulateArgsSlice(payload.args, payload.extra)

Verdict ==
  /\ stage = "started" => Validate
  /\ stage = "rejected" => ~Validate

Pipeline ==
  /\ req \in Requests
  /\ stage \in Made \cup {"request", "mounter", "invalid"}
  /\ SecretMade /\ EndpointKnown /\ MounterMade /\ PayloadMade /\ CmdMade /\ Verdict

(* The request at the start.                                               *)
LEMMA PipelineInit == Init => Pipeline
BY DEF Init, Pipeline, Made, Posted, SecretMade, EndpointKnown, MounterMade,
       PayloadMade, CmdMade, Verdict

(* Every handler leaves what its stage should hold.                        *)
LEMMA PipelineStep ==
  ASSUME Pipeline, [Next]_vars
  PROVE  Pipeline'
<1>1. CASE NodePublishVolume
  <2>1. stage = "request" /\ stage' \in {"invalid", "mounter"}
        /\ secret' = Completed(req) /\ UNCHANGED <<req, mounter, payload, cmd>>
        /\ (stage' = "mounter" => secret'["cosEndpoint"] # "")
    BY <1>1 DEF NodePublishVolume
  <2> QED BY <2>1 DEF Pipeline, Made, Posted, SecretMade, EndpointKnown, MounterMade,
                      PayloadMade, CmdMade, Verdict
<1>2. CASE NewMounter
  <2>1. stage = "mounter" /\ stage' = "mount" /\ UNCHANGED <<req, secret, payload, cmd>>
        /\ mounter' = IF MounterKind(req, secret) = "rclone"
                      THEN NewRcloneMounter(req, secret) ELSE NewS3fsMounter(req, secret)
    BY <1>2 DEF NewMounter
  <2> QED BY <2>1 DEF Pipeline, Made, Posted, SecretMade, EndpointKnown, MounterMade,
                      PayloadMade, CmdMade, Verdict
<1>3. CASE Mount
  <2>1. stage = "mount" /\ stage' = "posted" /\ UNCHANGED <<req, secret, mounter, cmd>>
        /\ payload' = IF mounter.kind = "rclone" THEN RclonePayload(mounter, secret)
                      ELSE S3fsPayload(mounter, secret)
    BY <1>3 DEF Mount
  <2> QED BY <2>1 DEF Pipeline, Made, Posted, SecretMade, EndpointKnown, MounterMade,
                      PayloadMade, CmdMade, Verdict
<1>4. CASE ParseMounterArgs
  <2>1. stage = "posted" /\ stage' = "started" /\ UNCHANGED <<req, secret, mounter, payload>>
        /\ Validate
        /\ cmd' = IF mounter.kind = "rclone"
                  THEN RcloneArgsSlice(payload.args, payload.lines)
                  ELSE PopulateArgsSlice(payload.args, payload.extra)
    BY <1>4 DEF ParseMounterArgs
  <2>2. Validate'
    BY <2>1 DEF Validate
  <2> QED BY <2>1, <2>2 DEF Pipeline, Made, Posted, SecretMade, EndpointKnown, MounterMade,
                      PayloadMade, CmdMade, Verdict
<1>5. CASE ParseMounterArgsErr
  <2>1. stage = "posted" /\ stage' = "rejected" /\ ~Validate
        /\ UNCHANGED <<req, secret, mounter, payload, cmd>>
    BY <1>5 DEF ParseMounterArgsErr
  <2>2. ~Validate'
    BY <2>1 DEF Validate
  <2> QED BY <2>1, <2>2 DEF Pipeline, Made, Posted, SecretMade, EndpointKnown, MounterMade,
                      PayloadMade, CmdMade, Verdict
<1>6. CASE UNCHANGED vars
  <2>1. UNCHANGED <<req, stage, secret, mounter, payload, cmd>>
    BY <1>6 DEF vars
  <2>2. Validate' <=> Validate
    BY <2>1 DEF Validate
  <2> QED BY <2>1, <2>2 DEF Pipeline, Made, Posted, SecretMade, EndpointKnown, MounterMade,
                      PayloadMade, CmdMade, Verdict
<1> QED BY <1>1, <1>2, <1>3, <1>4, <1>5, <1>6 DEF Next

(* So it is in every reachable state.                                      *)
LEMMA PipelineAlways == Spec => []Pipeline
BY PipelineInit, PipelineStep, PTL DEF Spec

-----------------------------------------------------------------------------
(***************************************************************************)
(* The secret and the mentions of an option.                               *)
(***************************************************************************)
Completions == {"cosEndpoint", "locationConstraint", "iamEndpoint"}

(* A key the map does not have counts as empty.                            *)
LEMMA LookupText ==
  ASSUME NEW m, NEW k, k \in DOMAIN m => m[k] \in Texts
  PROVE  Lookup(m, k) \in Texts
<1>1. CASE k \in DOMAIN m
  BY <1>1 DEF Lookup
<1>2. CASE k \notin DOMAIN m
  <2>1. Lookup(m, k) = ""
    BY <1>2 DEF Lookup
  <2>2. "" \in Texts
    BY TextsAssumption
  <2> QED BY <2>1, <2>2
<1> QED BY <1>1, <1>2

(* What NodePublishVolume does not complete stays as it is.                *)
LEMMA SecretView ==
  ASSUME Pipeline, stage # "request"
  PROVE  /\ DOMAIN secret = DOMAIN req.secret \cup Completions
         /\ \A k \in DOMAIN req.secret \ Completions : secret[k] = req.secret[k]
         /\ \A k \in Completions : secret[k] \in Texts
         /\ Lookup(secret, "cosEndpoint") =
              FirstSet(Lookup(req.secret, "cosEndpoint"), Lookup(req.attrib, "cosEndpoint"), "")
<1> DEFINE r == req
           or(k, d) == IF Lookup(r.secret, k) # "" THEN r.secret[k] ELSE d
           e == or("cosEndpoint", Lookup(r.attrib, "cosEndpoint"))
           l == or("locationConstraint", Lookup(r.attrib, "locationConstraint"))
           i == or("iamEndpoint", DefaultIAM)
           s1 == Put(r.secret, "cosEndpoint", e)
           s2 == Put(s1, "locationConstraint", l)
<1>1. secret = Put(s2, "iamEndpoint", i)
  BY DEF Pipeline, SecretMade, Completed
<1>2. r \in Requests
  BY DEF Pipeline
<1>3. \A k \in DOMAIN r.secret : k # "mountOptions" => r.secret[k] \in Texts
  BY <1>2, RequestsAssumption
<1>4. \A k \in DOMAIN r.attrib : r.attrib[k] \in Texts
  BY <1>2, RequestsAssumption
<1>5. e \in Texts /\ l \in Texts /\ i \in Texts
  <2>1. /\ Lookup(r.secret, "cosEndpoint") \in Texts
        /\ Lookup(r.secret, "locationConstraint") \in Texts
        /\ Lookup(r.secret, "iamEndpoint") \in Texts
    BY <1>3, LookupText
  <2>2. /\ Lookup(r.attrib, "cosEndpoint") \in Texts
        /\ Lookup(r.attrib, "locationConstraint") \in Texts
    BY <1>4, LookupText
  <2>3. \A k : Lookup(r.secret, k) # "" => r.secret[k] = Lookup(r.secret, k)
    BY DEF Lookup
  <2>4. DefaultIAM \in Texts
    BY TextsAssumption
  <2> QED BY <2>1, <2>2, <2>3, <2>4
<1>8. e = FirstSet(Lookup(req.secret, "cosEndpoint"), Lookup(req.attrib, "cosEndpoint"), "")
  <2>1. Lookup(r.secret, "cosEndpoint") # "" =>
          r.secret["cosEndpoint"] = Lookup(r.secret, "cosEndpoint")
    BY DEF Lookup
  <2> QED BY <2>1 DEF FirstSet
<1> HIDE DEF e, l, i
<1>6. DOMAIN secret = DOMAIN req.secret \cup Completions
  BY <1>1 DEF Put, Completions
<1>7. /\ \A k \in DOMAIN req.secret \ Completions : secret[k] = req.secret[k]
      /\ secret["cosEndpoint"] = e /\ secret["locationConstraint"] = l
      /\ secret["iamEndpoint"] = i
  BY <1>1 DEF Put, Completions
<1>9. Lookup(secret, "cosEndpoint") = e
  BY <1>6, <1>7 DEF Lookup, Completions
<1> QED BY <1>5, <1>6, <1>7, <1>8, <1>9 DEF Completions

(* What NodePublishVolume does not complete is looked up as before.        *)
LEMMA LookupKept ==
  ASSUME Pipeline, stage # "request", NEW k, k \notin Completions
  PROVE  Lookup(secret, k) = Lookup(req.secret, k)
BY SecretView DEF Lookup

(* What is looked up in a secret is a text.                                *)
LEMMA LookupTexts ==
  ASSUME Pipeline, stage # "request", NEW k, k # "mountOptions"
  PROVE  Lookup(secret, k) \in Texts /\ Lookup(req.secret, k) \in Texts
<1>1. \A x \in DOMAIN req.secret : x # "mountOptions" => req.secret[x] \in Texts
  BY RequestsAssumption DEF Pipeline
<1>2. \A x \in DOMAIN secret : x # "mountOptions" => secret[x] \in Texts
  BY <1>1, SecretView
<1> QED BY <1>1, <1>2, LookupText

Lines == IF "mountOptions" \in DOMAIN req.secret THEN req.secret["mountOptions"] ELSE <<>>

(* The mentions are those of the StorageClass, then those of the secret.   *)
LEMMA MentionsView ==
  ASSUME req \in Requests
  PROVE  /\ req.flags \in Seq(OptionType) /\ Lines \in Seq(OptionType)
         /\ Mentions \in Seq(OptionType)
         /\ Mentions = req.flags \o Lines
<1>1. req.flags \in Seq(OptionType)
  BY RequestsAssumption
<1>2. Lines \in Seq(OptionType)
  BY RequestsAssumption DEF Lines
<1> QED BY <1>1, <1>2 DEF Mentions, Lines

(* An option that is mentioned has a last mention.                         *)
LEMMA LastMentionView ==
  ASSUME req \in Requests, NEW k \in Mentioned
  PROVE  \E i \in DOMAIN Mentions :
           /\ LastMention(k) = Mentions[i] /\ Mentions[i].name = k
           /\ \A j \in DOMAIN Mentions : Mentions[j].name = k => j <= i
<1> DEFINE n == Len(Mentions)
           S == {i \in 1..n : Mentions[i].name = k}
           IsFinal(i) == /\ Mentions[i].name = k
                         /\ \A j \in DOMAIN Mentions : Mentions[j].name = k => j <= i
<1>1. n \in Nat /\ DOMAIN Mentions = 1..n
  BY MentionsView
<1>2. S \in SUBSET (1..n) /\ S # {}
  BY <1>1 DEF Mentioned
<1>3. PICK x \in S : \A y \in S : x >= y
  BY <1>1, <1>2, GreatestExists
<1>4. x \in DOMAIN Mentions /\ IsFinal(x)
  <2>1. ASSUME NEW j \in DOMAIN Mentions, Mentions[j].name = k PROVE j <= x
    <3>1. j \in S /\ x >= j /\ j \in Nat /\ x \in Nat
      BY <1>1, <1>3, <2>1
    <3> QED BY <3>1
  <2> QED BY <1>1, <1>3, <2>1
<1>5. LastMention(k) = Mentions[CHOOSE i \in DOMAIN Mentions : IsFinal(i)]
  BY DEF LastMention
<1> HIDE DEF IsFinal
<1>6. PICK i \in DOMAIN Mentions : i = (CHOOSE j \in DOMAIN Mentions : IsFinal(j)) /\ IsFinal(i)
  BY <1>4
<1> QED BY <1>5, <1>6 DEF IsFinal
(* Of the indices of c, which is list a and then b, exactly those count    *)
(* that do in a and in b.                                                  *)
Counts(a, b, c, inA, inB, inC) ==
  /\ a \in Seq(OptionType) /\ b \in Seq(OptionType) /\ c = a \o b
  /\ inA \subseteq DOMAIN a /\ inB \subseteq DOMAIN b /\ inC \subseteq DOMAIN c
  /\ \A i \in DOMAIN c :
       i \in inC <=> IF i <= Len(a) THEN i \in inA ELSE i - Len(a) \in inB

LastOfTwo(a, b, c, inA, inB, inC) ==
  /\ {c[i].name : i \in inC} = {a[i].name : i \in inA} \cup {b[i].name : i \in inB}
  /\ \A i \in inC : IsLast(c, inC, i) =>
       \/ /\ IsLast(a, inA, i) /\ c[i] = a[i]
          /\ \A j \in inB : b[j].name # c[i].name
       \/ IsLast(b, inB, i - Len(a)) /\ c[i] = b[i - Len(a)]

(* The last mention in a list made of two is the last in the second, or    *)
(* the last in the first of a name the second does not have.  The sets are *)
(* the indices that count.                                                 *)
LEMMA ConcatLast ==
  ASSUME NEW a, NEW b, NEW c, NEW inA, NEW inB, NEW inC,
         Counts(a, b, c, inA, inB, inC)
  PROVE  LastOfTwo(a, b, c, inA, inB, inC)
<1> DEFINE n == Len(a)
<1> USE DEF Counts
<1>1. n \in Nat /\ Len(b) \in Nat /\ DOMAIN a = 1..n /\ DOMAIN b = 1..Len(b)
  OBVIOUS
<1>2. DOMAIN c = 1..(n + Len(b))
  OBVIOUS
<1>3. \A i \in 1..n : i \in DOMAIN c /\ c[i] = a[i]
  OBVIOUS
<1>4. \A j \in 1..Len(b) : n + j \in DOMAIN c /\ c[n + j] = b[j]
  OBVIOUS
<1>5. \A i \in DOMAIN c : i \in inC <=> IF i <= n THEN i \in inA ELSE i - n \in inB
  OBVIOUS
<1>a. inA \subseteq 1..n /\ inB \subseteq 1..Len(b) /\ inC \subseteq DOMAIN c
  OBVIOUS
<1> HIDE DEF n, Counts
<1>6. ASSUME NEW i \in inA PROVE i \in inC /\ c[i] = a[i] /\ i \in 1..n
  <2>1. i \in 1..n /\ i \in DOMAIN c /\ c[i] = a[i]
    BY <1>3, <1>a
  <2>2. i <= n
    BY <1>1, <2>1
  <2> QED BY <1>5, <2>1, <2>2
<1>7. ASSUME NEW j \in inB PROVE n + j \in inC /\ c[n + j] = b[j] /\ j \in 1..Len(b)
  <2>1. j \in 1..Len(b) /\ n + j \in DOMAIN c /\ c[n + j] = b[j]
    BY <1>1, <1>4, <1>a
  <2>2. ~(n + j <= n) /\ (n + j) - n = j
    BY <1>1, <2>1
  <2> QED BY <1>5, <2>1, <2>2
<1>8. ASSUME NEW i \in inC
      PROVE  \/ i \in inA /\ c[i] = a[i] /\ i \in 1..n
             \/ i - n \in inB /\ c[i] = b[i - n] /\ i > n /\ i \in Nat
  <2>1. i \in DOMAIN c
    BY <1>a
  <2>2. CASE i <= n
    BY <1>1, <1>2, <1>3, <1>5, <2>1, <2>2
  <2>3. CASE ~(i <= n)
    <3>1. i - n \in inB /\ i \in Nat
      BY <1>2, <1>5, <2>1, <2>3
    <3>2. c[n + (i - n)] = b[i - n]
      BY <1>7, <3>1
    <3>3. n + (i - n) = i /\ i > n
      BY <1>1, <2>3, <3>1
    <3> QED BY <3>1, <3>2, <3>3
  <2> QED BY <2>2, <2>3
<1>9. {c[i].name : i \in inC} = {a[i].name : i \in inA} \cup {b[i].name : i \in inB}
  <2>1. \A i \in inC : c[i].name \in {a[j].name : j \in inA} \cup {b[j].name : j \in inB}
    BY <1>8
  <2>2. \A i \in inA : a[i].name \in {c[j].name : j \in inC}
    BY <1>6
  <2>3. \A i \in inB : b[i].name \in {c[j].name : j \in inC}
    BY <1>7
  <2> QED BY <2>1, <2>2, <2>3
<1>10. ASSUME NEW i \in inC, IsLast(c, inC, i)
       PROVE  \/ /\ IsLast(a, inA, i) /\ c[i] = a[i]
                 /\ \A j \in inB : b[j].name # c[i].name
              \/ IsLast(b, inB, i - n) /\ c[i] = b[i - n]
  <2>1. \A j \in inC : c[j].name = c[i].name => j <= i
    BY <1>10 DEF IsLast
  <2>2. CASE i \in inA /\ c[i] = a[i] /\ i \in 1..n
    <3>1. IsLast(a, inA, i)
      BY <1>6, <2>1, <2>2 DEF IsLast
    <3>2. ASSUME NEW j \in inB, b[j].name = c[i].name PROVE FALSE
      <4>1. n + j <= i /\ j \in 1..Len(b)
        BY <1>7, <2>1, <3>2
      <4> QED BY <1>1, <2>2, <4>1
    <3> QED BY <2>2, <3>1, <3>2
  <2>3. CASE i - n \in inB /\ c[i] = b[i - n] /\ i > n /\ i \in Nat
    <3>1. ASSUME NEW j \in inB, b[j].name = b[i - n].name PROVE j <= i - n
      <4>1. n + j <= i /\ j \in 1..Len(b)
        BY <1>7, <2>1, <2>3, <3>1
      <4> QED BY <1>1, <2>3, <4>1
    <3> QED BY <2>3, <3>1 DEF IsLast
  <2> QED BY <1>8, <2>2, <2>3
<1> QED BY <1>9, <1>10 DEF n, LastOfTwo

SameValues(a, c, valA, valB, valC) ==
  \A i \in DOMAIN c : valC[i] = IF i <= Len(a) THEN valA[i] ELSE valB[i - Len(a)]

(* A map filled from one list and then from another has the last of the    *)
(* two lists together.                                                     *)
LEMMA FilledTwice ==
  ASSUME NEW a, NEW b, NEW c, NEW inA, NEW inB, NEW inC,
         Counts(a, b, c, inA, inB, inC),
         NEW valA, NEW valB, NEW valC,
         SameValues(a, c, valA, valB, valC),
         NEW m, NEW f, HasLast(f, a, inA, valA, m),
         NEW g, HasLast(g, b, inB, valB, f)
  PROVE  HasLast(g, c, inC, valC, m)
<1>1. /\ {c[i].name : i \in inC} = {a[i].name : i \in inA} \cup {b[i].name : i \in inB}
      /\ \A i \in inC : IsLast(c, inC, i) =>
           \/ /\ IsLast(a, inA, i) /\ c[i] = a[i]
              /\ \A j \in inB : b[j].name # c[i].name
           \/ IsLast(b, inB, i - Len(a)) /\ c[i] = b[i - Len(a)]
  <2>1. LastOfTwo(a, b, c, inA, inB, inC)
    BY ConcatLast
  <2> QED BY <2>1 DEF LastOfTwo
<1>a. /\ a \in Seq(OptionType) /\ b \in Seq(OptionType) /\ c = a \o b
      /\ inA \subseteq DOMAIN a /\ inB \subseteq DOMAIN b /\ inC \subseteq DOMAIN c
  BY DEF Counts
<1>b. \A i \in inC : valC[i] = IF i <= Len(a) THEN valA[i] ELSE valB[i - Len(a)]
  BY <1>a DEF SameValues
<1>2. DOMAIN g = DOMAIN m \cup {c[i].name : i \in inC}
  BY <1>1 DEF HasLast
<1>3. ASSUME NEW i \in inC, IsLast(c, inC, i) PROVE g[c[i].name] = valC[i]
  <2>1. CASE IsLast(a, inA, i) /\ c[i] = a[i] /\ \A j \in inB : b[j].name # c[i].name
    <3>1. i \in inA /\ i <= Len(a)
      BY <1>a, <2>1 DEF IsLast
    <3>2. c[i].name \in DOMAIN f /\ f[c[i].name] = valA[i]
      BY <2>1, <3>1 DEF HasLast
    <3>3. g[c[i].name] = f[c[i].name]
      BY <2>1, <3>2 DEF HasLast
    <3> QED BY <1>b, <3>1, <3>2, <3>3
  <2>2. CASE IsLast(b, inB, i - Len(a)) /\ c[i] = b[i - Len(a)]
    <3>1. i - Len(a) \in inB /\ ~(i <= Len(a))
      <4>1. i - Len(a) \in DOMAIN b /\ i \in DOMAIN c
        BY <1>a, <2>2 DEF IsLast
      <4> QED BY <1>a, <2>2, <4>1 DEF IsLast
    <3>2. g[b[i - Len(a)].name] = valB[i - Len(a)]
      BY <2>2, <3>1 DEF HasLast
    <3> QED BY <1>b, <2>2, <3>1, <3>2
  <2> QED BY <1>1, <1>3, <2>1, <2>2
<1>4. ASSUME NEW k \in DOMAIN m, \A i \in inC : c[i].name # k PROVE g[k] = m[k]
  <2>1. (\A i \in inA : a[i].name # k) /\ (\A i \in inB : b[i].name # k)
    BY <1>1, <1>4
  <2>2. k \in DOMAIN f /\ f[k] = m[k]
    BY <2>1 DEF HasLast
  <2> QED BY <2>1, <2>2 DEF HasLast
<1>5. g = [k \in DOMAIN g |-> g[k]]
  BY DEF HasLast
<1> QED BY <1>2, <1>3, <1>4, <1>5 DEF HasLast

(* The empty map is a function without keys.                               *)
LEMMA EmptyMapView ==
  EmptyMap = [k \in DOMAIN EmptyMap |-> EmptyMap[k]] /\ DOMAIN EmptyMap = {}
BY DEF EmptyMap

(* The completed secret has the mount options of the secret.               *)
LEMMA SameLines ==
  ASSUME Pipeline, stage # "request"
  PROVE  /\ "mountOptions" \in DOMAIN secret <=> "mountOptions" \in DOMAIN req.secret
         /\ "mountOptions" \in DOMAIN req.secret => secret["mountOptions"] = Lines
         /\ "mountOptions" \notin DOMAIN req.secret => Lines = <<>>
<1>1. "mountOptions" \notin Completions
  BY DEF Completions
<1> QED BY <1>1, SecretView DEF Lines

(* Both filters look at an option only, not at its place.                  *)
LEMMA FilterConcat ==
  ASSUME NEW a \in Seq(OptionType), NEW b \in Seq(OptionType), NEW c, c = a \o b
  PROVE  /\ Counts(a, b, c, Named(a), Named(b), Named(c))
         /\ Counts(a, b, c, WellFormed(a), WellFormed(b), WellFormed(c))
         /\ SameValues(a, c, ValuesOf(a), ValuesOf(b), ValuesOf(c))
         /\ SameValues(a, c, Values(a), Values(b), Values(c))
<1>1. ASSUME NEW i \in DOMAIN c
      PROVE  IF i <= Len(a) THEN i \in DOMAIN a /\ c[i] = a[i]
             ELSE i - Len(a) \in DOMAIN b /\ c[i] = b[i - Len(a)]
  OBVIOUS
<1>2. \A i \in DOMAIN c : i \in Named(c) <=>
        IF i <= Len(a) THEN i \in Named(a) ELSE i - Len(a) \in Named(b)
  BY <1>1 DEF Named
<1>3. \A i \in DOMAIN c : i \in WellFormed(c) <=>
        IF i <= Len(a) THEN i \in WellFormed(a) ELSE i - Len(a) \in WellFormed(b)
  BY <1>1 DEF WellFormed
<1>4. \A i \in DOMAIN c : ValuesOf(c)[i] =
        IF i <= Len(a) THEN ValuesOf(a)[i] ELSE ValuesOf(b)[i - Len(a)]
  BY <1>1 DEF ValuesOf
<1>5. \A i \in DOMAIN c : Values(c)[i] =
        IF i <= Len(a) THEN Values(a)[i] ELSE Values(b)[i - Len(a)]
  BY <1>1 DEF Values
<1>6. /\ Named(a) \subseteq DOMAIN a /\ Named(b) \subseteq DOMAIN b
      /\ Named(c) \subseteq DOMAIN c
  BY DEF Named
<1>7. /\ WellFormed(a) \subseteq DOMAIN a /\ WellFormed(b) \subseteq DOMAIN b
      /\ WellFormed(c) \subseteq DOMAIN c
  BY DEF WellFormed
<1> QED BY <1>2, <1>3, <1>4, <1>5, <1>6, <1>7 DEF Counts, SameValues

(* The options of StorageClass and secret for s3fs.                        *)
Merged == MergedOptions(req.flags, secret)

(* The map of the s3fs mounter has exactly the names that are mentioned,   *)
(* with the value of their last mention.                                   *)
LEMMA MergedView ==
  ASSUME Pipeline, stage # "request"
  PROVE  DOMAIN Merged = Mentioned /\ \A k \in Mentioned : Merged[k] = ValueOf(LastMention(k))
<1> PICK a, b, c : a = req.flags /\ b = Lines /\ c = Mentions
  OBVIOUS
<1> DEFINE f == classifyMountOptions(a, EmptyMap)
<1>1. a \in Seq(OptionType) /\ b \in Seq(OptionType) /\ c = a \o b /\ c \in Seq(OptionType)
  BY MentionsView DEF Pipeline
<1>2. HasLast(f, a, Named(a), ValuesOf(a), EmptyMap)
  BY <1>1, ClassifyView, EmptyMapView
<1> HIDE DEF f
<1>3. HasLast(Merged, b, Named(b), ValuesOf(b), f)
  <2>1. f = [k \in DOMAIN f |-> f[k]]
    BY <1>2 DEF HasLast
  <2>2. CASE "mountOptions" \in DOMAIN req.secret
    <3>1. Merged = classifyMountOptions(b, f)
      BY <2>2, SameLines DEF Merged, MergedOptions, f
    <3> QED BY <1>1, <2>1, <3>1, ClassifyView
  <2>3. CASE "mountOptions" \notin DOMAIN req.secret
    <3>1. Merged = f
      BY <2>3, SameLines DEF Merged, MergedOptions, f
    <3>2. b = <<>>
      BY <2>3, SameLines
    <3>3. Named(b) = {}
      BY <3>2 DEF Named
    <3> QED BY <2>1, <3>1, <3>3 DEF HasLast
  <2> QED BY <2>2, <2>3
<1>4. HasLast(Merged, c, Named(c), ValuesOf(c), EmptyMap)
  <2>1. /\ Counts(a, b, c, Named(a), Named(b), Named(c))
        /\ SameValues(a, c, ValuesOf(a), ValuesOf(b), ValuesOf(c))
    BY <1>1, FilterConcat
  <2> QED BY <1>2, <1>3, <2>1, FilledTwice
<1>5. DOMAIN Merged = Mentioned
  <2>1. DOMAIN Merged = {c[i].name : i \in Named(c)}
    BY <1>4, EmptyMapView DEF HasLast
  <2> QED BY <2>1 DEF Named, Mentioned
<1>6. ASSUME NEW k \in Mentioned PROVE Merged[k] = ValueOf(LastMention(k))
  <2>1. PICK i \in DOMAIN c :
          /\ LastMention(k) = c[i] /\ c[i].name = k
          /\ \A j \in DOMAIN c : c[j].name = k => j <= i
    BY LastMentionView DEF Pipeline
  <2>2. i \in Named(c) /\ IsLast(c, Named(c), i)
    BY <2>1 DEF Named, IsLast, Mentioned
  <2>3. ValuesOf(c)[i] = ValueOf(c[i])
    BY DEF ValuesOf
  <2> QED BY <1>4, <2>1, <2>2, <2>3 DEF HasLast
<1> QED BY <1>5, <1>6
-----------------------------------------------------------------------------
(***************************************************************************)
(* rclone.                                                                 *)
(***************************************************************************)

(* Which mounter it is.                                                    *)
LEMMA KindView ==
  ASSUME Pipeline
  PROVE  /\ mounter.kind \in {"none", "s3fs", "rclone"}
         /\ stage \in Made => mounter.kind # "none"
         /\ mounter.kind = "rclone" => stage \in Made /\ mounter = NewRcloneMounter(req, secret)
         /\ mounter.kind = "s3fs" => stage \in Made /\ mounter = NewS3fsMounter(req, secret)
<1>1. NewRcloneMounter(req, secret).kind = "rclone"
  BY DEF NewRcloneMounter
<1>2. NewS3fsMounter(req, secret).kind = "s3fs"
  BY DEF NewS3fsMounter
<1>3. CASE stage \notin Made
  BY <1>3 DEF Pipeline, MounterMade
<1>4. CASE stage \in Made /\ MounterKind(req, secret) = "rclone"
  BY <1>1, <1>4 DEF Pipeline, MounterMade
<1>5. CASE stage \in Made /\ MounterKind(req, secret) # "rclone"
  BY <1>2, <1>5 DEF Pipeline, MounterMade
<1> QED BY <1>3, <1>4, <1>5

(* Among the options that count, there is a last one of each name.         *)
LEMMA LastExists ==
  ASSUME NEW c \in Seq(OptionType), NEW S \in SUBSET DOMAIN c, NEW i \in S
  PROVE  \E j \in S : IsLast(c, S, j) /\ c[j].name = c[i].name
<1> DEFINE n == Len(c)
           T == {j \in S : c[j].name = c[i].name}
<1>1. n \in Nat /\ T \in SUBSET (1..n) /\ T # {}
  OBVIOUS
<1> HIDE DEF n
<1>2. PICK x \in T : \A y \in T : x >= y
  <2> HIDE DEF T
  <2> QED BY <1>1, GreatestExists
<1>3. ASSUME NEW j \in S, c[j].name = c[x].name PROVE j <= x
  <2>1. j \in T /\ x \in T
    BY <1>2, <1>3
  <2>2. x >= j /\ x \in Nat /\ j \in Nat
    BY <1>1, <1>2, <2>1
  <2> QED BY <2>2
<1> QED BY <1>2, <1>3 DEF IsLast

(* The lines of the config file, when the secret has options.              *)
LEMMA LinesView ==
  ASSUME Pipeline, stage # "request", "mountOptions" \in DOMAIN req.secret
  PROVE  LET c == Mentions IN
         updateMountOptions(req.flags, secret) =
           {c[i] : i \in {j \in WellFormed(c) : IsLast(c, WellFormed(c), j)}}
<1> PICK a, b, c : a = req.flags /\ b = Lines /\ c = Mentions
  OBVIOUS
<1> DEFINE f == OneValue(EmptyMap, a)
           g == OneValue(f, b)
           W == WellFormed(c)
<1>1. a \in Seq(OptionType) /\ b \in Seq(OptionType) /\ c = a \o b /\ c \in Seq(OptionType)
  BY MentionsView DEF Pipeline
<1>2. HasLast(f, a, WellFormed(a), Values(a), EmptyMap)
  BY <1>1, OneValueView, EmptyMapView
<1> HIDE DEF f
<1>3. HasLast(g, b, WellFormed(b), Values(b), f)
  <2>1. f = [k \in DOMAIN f |-> f[k]]
    BY <1>2 DEF HasLast
  <2> QED BY <1>1, <2>1, OneValueView
<1>4. updateMountOptions(req.flags, secret) = OptionsOf(g)
  BY SameLines DEF updateMountOptions, f
<1> HIDE DEF g
<1>5. /\ DOMAIN g = DOMAIN EmptyMap \cup {c[i].name : i \in W}
      /\ \A i \in W : IsLast(c, W, i) => g[c[i].name] = Values(c)[i]
  <2>1. /\ Counts(a, b, c, WellFormed(a), WellFormed(b), WellFormed(c))
        /\ SameValues(a, c, Values(a), Values(b), Values(c))
    BY <1>1, FilterConcat
  <2>2. HasLast(g, c, W, Values(c), EmptyMap)
    BY <1>2, <1>3, <2>1, FilledTwice
  <2> QED BY <2>2 DEF HasLast
<1>6. W \in SUBSET DOMAIN c
  BY DEF WellFormed
<1>7. \A i \in W : Values(c)[i] = c[i].val /\ c[i] = Option(c[i].name, c[i].val)
  <2>1. \A i \in DOMAIN c : c[i] \in OptionType
    BY <1>1
  <2>2. \A o \in OptionType : o = Option(o.name, o.val)
    BY DEF OptionType, Option
  <2>3. \A i \in DOMAIN c : Values(c)[i] = c[i].val
    BY DEF Values
  <2> QED BY <1>6, <2>1, <2>2, <2>3
<1> HIDE DEF W
<1>8. ASSUME NEW i \in W, IsLast(c, W, i) PROVE c[i] \in OptionsOf(g)
  <2>1. c[i].name \in DOMAIN g /\ g[c[i].name] = c[i].val
    BY <1>5, <1>7, <1>8
  <2> QED BY <1>7, <2>1 DEF OptionsOf
<1>9. ASSUME NEW k \in DOMAIN g
      PROVE  \E i \in W : IsLast(c, W, i) /\ c[i] = Option(k, g[k])
  <2>1. PICK j \in W : c[j].name = k
    BY <1>5, EmptyMapView
  <2>2. PICK i \in W : IsLast(c, W, i) /\ c[i].name = k
    BY <1>1, <1>6, <2>1, LastExists
  <2> QED BY <1>5, <1>7, <2>2
<1>10. OptionsOf(g) = {c[i] : i \in {j \in W : IsLast(c, W, j)}}
  BY <1>8, <1>9 DEF OptionsOf
<1> QED BY <1>4, <1>10 DEF W

(* What is posted of the arguments of rclone.                              *)
LEMMA RcloneArgsView ==
  ASSUME Pipeline, stage \in Posted, mounter.kind = "rclone"
  PROVE  LET args == payload.args
             gid == IF req.fsGroup # "" THEN req.fsGroup ELSE Lookup(secret, "gid")
             uid == IF Lookup(secret, "uid") # "" THEN Lookup(secret, "uid") ELSE gid
         IN
         /\ payload = [args |-> args, extra |-> {}, lines |-> createConfig(mounter, secret)]
         /\ mounter.MountOptions = updateMountOptions(req.flags, secret)
         /\ DOMAIN args = {"config", "daemon", "allow-other", "log-file", "vfs-cache-mode"}
              \cup (IF gid # "" THEN {"gid"} ELSE {}) \cup (IF uid # "" THEN {"uid"} ELSE {})
              \cup (IF req.readOnlyMany THEN {"read-only"} ELSE {})
         /\ args["config"] = PasswdFile /\ args["daemon"] = "true"
         /\ args["allow-other"] = "true" /\ args["log-file"] = "/var/log/rclone.log"
         /\ args["vfs-cache-mode"] = "writes"
         /\ gid # "" => args["gid"] = gid
         /\ uid # "" => args["uid"] = uid
         /\ req.readOnlyMany => args["read-only"] = "true"
<1> PICK gid : gid = IF req.fsGroup # "" THEN req.fsGroup ELSE Lookup(secret, "gid")
  OBVIOUS
<1> PICK uid : uid = IF Lookup(secret, "uid") # "" THEN Lookup(secret, "uid") ELSE gid
  OBVIOUS
<1>1. mounter = [kind |-> "rclone", AuthType |-> AuthType(secret), GID |-> gid, UID |-> uid, ReadOnly |-> req.readOnlyMany,
                 MountOptions |-> updateMountOptions(req.flags, secret)]
  BY KindView DEF NewRcloneMounter
<1> DEFINE m0 == RcloneFixed
           m1 == PutIf(gid # "", m0, "gid", gid)
           m2 == PutIf(uid # "", m1, "uid", uid)
           m3 == PutIf(req.readOnlyMany, m2, "read-only", "true")
           fixed == {"config", "daemon", "allow-other", "log-file", "vfs-cache-mode"}
           Fixed(m) == /\ m["config"] = PasswdFile /\ m["daemon"] = "true"
                       /\ m["allow-other"] = "true" /\ m["log-file"] = "/var/log/rclone.log"
                       /\ m["vfs-cache-mode"] = "writes"
<1>2. payload = [args |-> m3, extra |-> {}, lines |-> createConfig(mounter, secret)]
  BY <1>1 DEF Pipeline, PayloadMade, RclonePayload
<1>3. DOMAIN m0 = fixed /\ Fixed(m0)
  BY DEF RcloneFixed, Over
<1> HIDE DEF m0
<1>4. /\ DOMAIN m1 = fixed \cup (IF gid # "" THEN {"gid"} ELSE {})
      /\ Fixed(m1) /\ (gid # "" => m1["gid"] = gid)
  BY <1>3 DEF PutIf, Put
<1> HIDE DEF m1
<1>5. /\ DOMAIN m2 = fixed \cup (IF gid # "" THEN {"gid"} ELSE {})
                       \cup (IF uid # "" THEN {"uid"} ELSE {})
      /\ Fixed(m2) /\ (gid # "" => m2["gid"] = gid) /\ (uid # "" => m2["uid"] = uid)
  BY <1>4 DEF PutIf, Put
<1> HIDE DEF m2
<1>6. /\ DOMAIN m3 = fixed \cup (IF gid # "" THEN {"gid"} ELSE {})
                       \cup (IF uid # "" THEN {"uid"} ELSE {})
                       \cup (IF req.readOnlyMany THEN {"read-only"} ELSE {})
      /\ Fixed(m3) /\ (gid # "" => m3["gid"] = gid) /\ (uid # "" => m3["uid"] = uid)
      /\ (req.readOnlyMany => m3["read-only"] = "true")
  BY <1>5 DEF PutIf, Put
<1> HIDE DEF m3
<1>7. mounter.MountOptions = updateMountOptions(req.flags, secret)
  BY <1>1
<1>8. payload.args = m3
  BY <1>2
<1> QED BY <1>2, <1>6, <1>7, <1>8
-----------------------------------------------------------------------------
(***************************************************************************)
(* s3fs: from the merged options to what is posted.                        *)
(***************************************************************************)

(* The maps agree but for the keys of S.                                   *)
Same(n, m, S) ==
  \A k : k \notin S => (k \in DOMAIN n <=> k \in DOMAIN m) /\ (k \in DOMAIN m => n[k] = m[k])

(* Of two values, the one that is set.                                     *)
OwnerGid(m, sec, gid) ==
  IF gid # "" THEN <<gid>>
  ELSE IF Lookup(sec, "gid") # "" THEN <<Lookup(sec, "gid")>> ELSE m["gid"]
OwnerUid(m, sec) == IF Lookup(sec, "uid") # "" THEN <<Lookup(sec, "uid")>> ELSE m["uid"]
HasGid(m, sec, gid) == gid # "" \/ Lookup(sec, "gid") # "" \/ "gid" \in DOMAIN m
HasUid(m, sec) == Lookup(sec, "uid") # "" \/ "uid" \in DOMAIN m
GidIsUid(m, sec, gid) ==
  /\ HasGid(m, sec, gid) /\ OwnerGid(m, sec, gid) # <<"">>
  /\ ~(HasUid(m, sec) /\ OwnerUid(m, sec) # <<"">>)

(* Who owns the files, as the driver decides it.                           *)
OwnedAs(n, m, sec, gid) ==
  /\ "gid" \in DOMAIN n <=> HasGid(m, sec, gid)
  /\ "gid" \in DOMAIN n => n["gid"] = OwnerGid(m, sec, gid)
  /\ "uid" \in DOMAIN n <=> GidIsUid(m, sec, gid) \/ HasUid(m, sec)
  /\ "uid" \in DOMAIN n =>
       n["uid"] = IF GidIsUid(m, sec, gid) THEN OwnerGid(m, sec, gid) ELSE OwnerUid(m, sec)

(* uid and gid are what Owned decides, and nothing else is touched.        *)
LEMMA OwnedView ==
  ASSUME NEW m, NEW sec, NEW gid
  PROVE  /\ Same(Owned(m, sec, gid), m, {"uid", "gid"})
         /\ OwnedAs(Owned(m, sec, gid), m, sec, gid)
<1> DEFINE x == Lookup(sec, "uid")
           y == Lookup(sec, "gid")
           m1 == PutIf(x # "", m, "uid", <<x>>)
           m2 == PutIf(y # "", m1, "gid", <<y>>)
           m3 == PutIf(gid # "", m2, "gid", <<gid>>)
           c == Set(m3, "gid") /\ ~Set(m3, "uid")
           n == PutIf(c, m3, "uid", m3["gid"])
<1>1. Owned(m, sec, gid) = n
  BY DEF Owned, PutIf
<1>2. /\ Same(m1, m, {"uid"})
      /\ IF x # "" THEN "uid" \in DOMAIN m1 /\ m1["uid"] = <<x>>
         ELSE ("uid" \in DOMAIN m1 <=> "uid" \in DOMAIN m) /\ m1["uid"] = m["uid"]
  <2> HIDE DEF x
  <2> QED BY DEF PutIf, Put, Same
<1> HIDE DEF m1
<1>3. /\ Same(m2, m1, {"gid"})
      /\ IF y # "" THEN "gid" \in DOMAIN m2 /\ m2["gid"] = <<y>>
         ELSE ("gid" \in DOMAIN m2 <=> "gid" \in DOMAIN m1) /\ m2["gid"] = m1["gid"]
  <2> HIDE DEF y
  <2> QED BY DEF PutIf, Put, Same
<1> HIDE DEF m2
<1>4. /\ Same(m3, m2, {"gid"})
      /\ IF gid # "" THEN "gid" \in DOMAIN m3 /\ m3["gid"] = <<gid>>
         ELSE ("gid" \in DOMAIN m3 <=> "gid" \in DOMAIN m2) /\ m3["gid"] = m2["gid"]
  BY DEF PutIf, Put, Same
<1> HIDE DEF m3
<1>5. /\ Same(n, m3, {"uid"})
      /\ IF c THEN "uid" \in DOMAIN n /\ n["uid"] = m3["gid"]
         ELSE ("uid" \in DOMAIN n <=> "uid" \in DOMAIN m3) /\ n["uid"] = m3["uid"]
  <2> HIDE DEF c
  <2> QED BY DEF PutIf, Put, Same
<1> HIDE DEF n
<1>6. "gid" # "uid"
  OBVIOUS
<1>7. /\ "gid" \in DOMAIN m3 <=> HasGid(m, sec, gid)
      /\ "gid" \in DOMAIN m3 => m3["gid"] = OwnerGid(m, sec, gid)
  BY <1>2, <1>3, <1>4, <1>6 DEF Same, HasGid, OwnerGid
<1>8. /\ "uid" \in DOMAIN m3 <=> HasUid(m, sec)
      /\ "uid" \in DOMAIN m3 => m3["uid"] = OwnerUid(m, sec)
  BY <1>2, <1>3, <1>4, <1>6 DEF Same, HasUid, OwnerUid
<1>9. c <=> GidIsUid(m, sec, gid)
  BY <1>7, <1>8 DEF Set, GidIsUid
<1>10. OwnedAs(n, m, sec, gid)
  <2>1. /\ "gid" \in DOMAIN n <=> "gid" \in DOMAIN m3
        /\ "gid" \in DOMAIN m3 => n["gid"] = m3["gid"]
    BY <1>5, <1>6 DEF Same
  <2>2. c => "gid" \in DOMAIN m3
    BY DEF Set
  <2> HIDE DEF c
  <2> QED BY <1>5, <1>7, <1>8, <1>9, <2>1, <2>2 DEF OwnedAs
<1>11. Same(n, m, {"uid", "gid"})
  BY <1>2, <1>3, <1>4, <1>5 DEF Same
<1> QED BY <1>1, <1>10, <1>11

(* The known options, and what they become before they are written.        *)
Known == KnownOf(Merged)
Updated == updateS3FSMountOptions(Known, secret, req.fsGroup, req.readOnlyMany)

CachePathOptions == {"tmpdir", "use_cache"}
Decided == {"ro", "uid", "gid", "cipher_suites"} \cup CachePathOptions

SomeValue == Seq(Texts) \ {<<>>}

(* A known option has the value of its last mention.                       *)
LEMMA KnownView ==
  ASSUME Pipeline, stage # "request"
  PROVE  /\ DOMAIN Known = Mentioned \cap GetKnownS3FSOptions
         /\ \A k \in DOMAIN Known : Known[k] = ValueOf(LastMention(k))
         /\ \A k \in DOMAIN Known : Known[k] \in SomeValue
<1>1. /\ DOMAIN Known = Mentioned \cap GetKnownS3FSOptions
      /\ \A k \in DOMAIN Known : Known[k] = ValueOf(LastMention(k))
  <2>1. DOMAIN Merged = Mentioned /\ \A k \in Mentioned : Merged[k] = ValueOf(LastMention(k))
    BY MergedView
  <2> QED BY <2>1 DEF Known, KnownOf, Without
<1>2. ASSUME NEW k \in DOMAIN Known PROVE Known[k] \in SomeValue
  <2>1. LastMention(k) \in OptionType
    <3>1. req \in Requests /\ k \in Mentioned
      BY <1>1 DEF Pipeline
    <3>2. PICK i \in DOMAIN Mentions : LastMention(k) = Mentions[i]
      BY <3>1, LastMentionView
    <3>3. Mentions \in Seq(OptionType)
      BY <3>1, MentionsView
    <3> QED BY <3>2, <3>3
  <2>2. \A o \in OptionType : ValueOf(o) \in SomeValue
    <3>1. ASSUME NEW o \in OptionType PROVE ValueOf(o) \in SomeValue
      <4>1. o.name \in Texts /\ o.val \in Seq(Texts)
        BY DEF OptionType
      <4>2. <<o.name>> \in Seq(Texts) /\ <<o.name>> # <<>>
        BY <4>1
      <4> QED BY <4>1, <4>2 DEF ValueOf, SomeValue
    <3> QED BY <3>1
  <2> QED BY <1>1, <2>1, <2>2
<1> QED BY <1>1, <1>2

(* Read-only by access mode or as mentioned; cipher_suites=default is      *)
(* dropped; the owner as decided; the cache paths if they are anywhere.    *)
LEMMA UpdatedView ==
  ASSUME Pipeline, stage # "request"
  PROVE  /\ Same(Updated, Known, Decided)
         /\ OwnedAs(Updated, Known, secret, req.fsGroup)
         /\ IF req.readOnlyMany THEN "ro" \in DOMAIN Updated /\ Updated["ro"] = <<"true">>
            ELSE /\ "ro" \in DOMAIN Updated <=> "ro" \in DOMAIN Known
                 /\ "ro" \in DOMAIN Known => Updated["ro"] = Known["ro"]
         /\ "cipher_suites" \in DOMAIN Updated <=>
              "cipher_suites" \in DOMAIN Known /\ Known["cipher_suites"] # <<"default">>
         /\ "cipher_suites" \in DOMAIN Updated =>
              Updated["cipher_suites"] = Known["cipher_suites"]
         /\ \A k \in CachePathOptions :
              /\ k \in DOMAIN Updated <=> k \in DOMAIN Known \cup DOMAIN secret
              /\ k \in DOMAIN Updated => Updated[k] \in {<<Lookup(secret, k)>>, Known[k]}
              /\ k \in DOMAIN Updated \ DOMAIN Known => Updated[k] = <<Lookup(secret, k)>>
<1> PICK m, sec, gid : m = Known /\ sec = secret /\ gid = req.fsGroup
  OBVIOUS
<1> DEFINE m1 == CipherChecked(m)
           m2 == AccessMode(m1, req.readOnlyMany)
           m3 == Owned(m2, sec, gid)
           m4 == PutIf("tmpdir" \in DOMAIN sec, m3, "tmpdir", <<Lookup(sec, "tmpdir")>>)
           m5 == PutIf("use_cache" \in DOMAIN sec, m4, "use_cache", <<Lookup(sec, "use_cache")>>)
<1>1. Updated = m5
  BY DEF Updated, updateS3FSMountOptions, CachePaths
<1>2. /\ Same(m1, m, {"cipher_suites"})
      /\ "cipher_suites" \in DOMAIN m1 <=>
           "cipher_suites" \in DOMAIN m /\ m["cipher_suites"] # <<"default">>
      /\ "cipher_suites" \in DOMAIN m1 => m1["cipher_suites"] = m["cipher_suites"]
  BY DEF CipherChecked, Without, Same
<1> HIDE DEF m1
<1>3. /\ Same(m2, m1, {"ro"})
      /\ IF req.readOnlyMany THEN "ro" \in DOMAIN m2 /\ m2["ro"] = <<"true">>
         ELSE m2 = m1
  BY DEF AccessMode, PutIf, Put, Same
<1> HIDE DEF m2
<1>4. Same(m3, m2, {"uid", "gid"}) /\ OwnedAs(m3, m2, sec, gid)
  BY OwnedView
<1> HIDE DEF m3
<1>5. /\ Same(m4, m3, {"tmpdir"})
      /\ "tmpdir" \in DOMAIN m4 <=> "tmpdir" \in DOMAIN m3 \cup DOMAIN sec
      /\ IF "tmpdir" \in DOMAIN sec THEN m4["tmpdir"] = <<Lookup(sec, "tmpdir")>> ELSE m4 = m3
  BY DEF PutIf, Put, Same
<1> HIDE DEF m4
<1>6. /\ Same(m5, m4, {"use_cache"})
      /\ "use_cache" \in DOMAIN m5 <=> "use_cache" \in DOMAIN m4 \cup DOMAIN sec
      /\ IF "use_cache" \in DOMAIN sec THEN m5["use_cache"] = <<Lookup(sec, "use_cache")>>
         ELSE m5 = m4
  BY DEF PutIf, Put, Same
<1> HIDE DEF m5
<1>7. Same(m5, m, Decided)
  BY <1>2, <1>3, <1>4, <1>5, <1>6 DEF Same, Decided, CachePathOptions
<1>8. Same(m2, m, {"ro", "cipher_suites"}) /\ Same(m5, m3, CachePathOptions)
  BY <1>2, <1>3, <1>5, <1>6 DEF Same, CachePathOptions
<1>9. OwnedAs(m5, m, sec, gid)
  <2>1. /\ "gid" \in DOMAIN m2 <=> "gid" \in DOMAIN m
        /\ "uid" \in DOMAIN m2 <=> "uid" \in DOMAIN m
        /\ "gid" \in DOMAIN m => m2["gid"] = m["gid"]
        /\ "uid" \in DOMAIN m => m2["uid"] = m["uid"]
    BY <1>8 DEF Same
  <2>2. HasGid(m2, sec, gid) <=> HasGid(m, sec, gid)
    BY <2>1 DEF HasGid
  <2>3. HasUid(m2, sec) <=> HasUid(m, sec)
    BY <2>1 DEF HasUid
  <2>4. HasGid(m, sec, gid) => OwnerGid(m2, sec, gid) = OwnerGid(m, sec, gid)
    BY <2>1 DEF HasGid, OwnerGid
  <2>5. HasUid(m, sec) => OwnerUid(m2, sec) = OwnerUid(m, sec)
    BY <2>1 DEF HasUid, OwnerUid
  <2>6. GidIsUid(m2, sec, gid) <=> GidIsUid(m, sec, gid)
    BY <2>2, <2>3, <2>4, <2>5 DEF GidIsUid
  <2>7. /\ "gid" \in DOMAIN m5 <=> "gid" \in DOMAIN m3
        /\ "uid" \in DOMAIN m5 <=> "uid" \in DOMAIN m3
        /\ "gid" \in DOMAIN m3 => m5["gid"] = m3["gid"]
        /\ "uid" \in DOMAIN m3 => m5["uid"] = m3["uid"]
    BY <1>8 DEF Same, CachePathOptions
  <2>8. GidIsUid(m, sec, gid) => HasGid(m, sec, gid)
    BY DEF GidIsUid
  <2> QED BY <1>4, <2>2, <2>3, <2>4, <2>5, <2>6, <2>7, <2>8 DEF OwnedAs
<1>10. IF req.readOnlyMany THEN "ro" \in DOMAIN m5 /\ m5["ro"] = <<"true">>
       ELSE /\ "ro" \in DOMAIN m5 <=> "ro" \in DOMAIN m
            /\ "ro" \in DOMAIN m => m5["ro"] = m["ro"]
  BY <1>2, <1>3, <1>4, <1>8 DEF Same, CachePathOptions
<1>11. /\ "cipher_suites" \in DOMAIN m5 <=>
            "cipher_suites" \in DOMAIN m /\ m["cipher_suites"] # <<"default">>
       /\ "cipher_suites" \in DOMAIN m5 => m5["cipher_suites"] = m["cipher_suites"]
  BY <1>2, <1>3, <1>4, <1>8 DEF Same, CachePathOptions
<1>12. ASSUME NEW k \in CachePathOptions
       PROVE  /\ k \in DOMAIN m5 <=> k \in DOMAIN m \cup DOMAIN sec
              /\ k \in DOMAIN m5 => m5[k] \in {<<Lookup(sec, k)>>, m[k]}
              /\ k \in DOMAIN m5 \ DOMAIN m => m5[k] = <<Lookup(sec, k)>>
  <2>1. (k \in DOMAIN m3 <=> k \in DOMAIN m) /\ (k \in DOMAIN m => m3[k] = m[k])
    BY <1>2, <1>3, <1>4 DEF Same, CachePathOptions
  <2>2. CASE k = "tmpdir"
    BY <1>5, <1>6, <2>1, <2>2 DEF Same
  <2>3. CASE k = "use_cache"
    BY <1>5, <1>6, <2>1, <2>3 DEF Same
  <2> QED BY <2>2, <2>3 DEF CachePathOptions
<1> QED BY <1>1, <1>7, <1>9, <1>10, <1>11, <1>12

(* Every option that comes out is known and has a value of texts.          *)
LEMMA UpdatedTyped ==
  ASSUME Pipeline, stage # "request"
  PROVE  /\ DOMAIN Updated \subseteq GetKnownS3FSOptions
         /\ \A k \in DOMAIN Updated : Updated[k] \in SomeValue
<1>1. /\ DOMAIN Known \subseteq GetKnownS3FSOptions
      /\ \A k \in DOMAIN Known : Known[k] \in SomeValue
  BY KnownView
<1>2. Decided \subseteq GetKnownS3FSOptions
  BY DEF Decided, CachePathOptions, GetKnownS3FSOptions, S3FSArgs, BoolOptions, IntOptions
<1>3. \A x \in Texts : <<x>> \in SomeValue
  <2>1. ASSUME NEW x \in Texts PROVE <<x>> \in Seq(Texts) /\ <<x>> # <<>>
    OBVIOUS
  <2> QED BY <2>1 DEF SomeValue
<1>4. "true" \in Texts
  BY TextsAssumption
<1>5. req.fsGroup \in Texts
  BY RequestsAssumption DEF Pipeline
<1>6. /\ Lookup(secret, "gid") \in Texts /\ Lookup(secret, "uid") \in Texts
      /\ \A k \in CachePathOptions : Lookup(secret, k) \in Texts
  BY LookupTexts DEF CachePathOptions
<1>7. HasGid(Known, secret, req.fsGroup) => OwnerGid(Known, secret, req.fsGroup) \in SomeValue
  BY <1>1, <1>3, <1>5, <1>6 DEF HasGid, OwnerGid
<1>8. HasUid(Known, secret) => OwnerUid(Known, secret) \in SomeValue
  BY <1>1, <1>3, <1>6 DEF HasUid, OwnerUid
<1>9. ASSUME NEW k \in DOMAIN Updated
      PROVE  k \in GetKnownS3FSOptions /\ Updated[k] \in SomeValue
  <2>1. CASE k \notin Decided
    BY <1>1, <1>9, <2>1, UpdatedView DEF Same
  <2>2. CASE k \in Decided
    <3>1. CASE k = "ro"
      BY <1>1, <1>2, <1>3, <1>4, <1>9, <2>2, <3>1, UpdatedView
    <3>2. CASE k = "cipher_suites"
      BY <1>1, <1>2, <1>9, <2>2, <3>2, UpdatedView
    <3>3. CASE k \in CachePathOptions
      BY <1>1, <1>2, <1>3, <1>6, <1>9, <2>2, <3>3, UpdatedView
    <3>4. CASE k = "gid"
      BY <1>2, <1>7, <1>9, <2>2, <3>4, UpdatedView DEF OwnedAs
    <3>5. CASE k = "uid"
      BY <1>2, <1>7, <1>8, <1>9, <2>2, <3>5, UpdatedView DEF OwnedAs, GidIsUid
    <3> QED BY <2>2, <3>1, <3>2, <3>3, <3>4, <3>5 DEF Decided
  <2> QED BY <2>1, <2>2
<1> QED BY <1>9

(* The text of an option on its way to the host: up to a second "=", and   *)
(* "true" for one that was written without value.                          *)
Shown(k, v) == IF v = <<k>> THEN "true" ELSE v[1]

AuthOptions ==
  IF AuthType(secret) = "hmac" THEN {"default_acl"} ELSE {"ibm_iam_auth", "ibm_iam_endpoint"}
FixedOptions ==
  {"sigv2", "use_path_request_style", "passwd_file", "url", "allow_other", "mp_umask"}
    \cup (IF Lookup(secret, "locationConstraint") # "" THEN {"endpoint"} ELSE {})
NodeCipher == IF TLSCipherSuite = "" THEN {} ELSE {"cipher_suites"}

AuthValue(k) ==
  IF k = "default_acl" THEN "private"
  ELSE IF k = "ibm_iam_auth" THEN "true" ELSE Lookup(secret, "iamEndpoint")
FixedValue(k) ==
  CASE k = "passwd_file" -> PasswdFile
    [] k = "url" -> Lookup(secret, "cosEndpoint")
    [] k = "mp_umask" -> "002"
    [] k = "endpoint" -> Lookup(secret, "locationConstraint")
    [] OTHER -> "true"

(* The arguments posted for s3fs, and where each comes from.               *)
LEMMA S3fsArgsView ==
  ASSUME Pipeline, stage \in Posted, mounter.kind = "s3fs"
  PROVE  LET args == payload.args
             chosen == DOMAIN Updated \cup NodeCipher
         IN
         /\ payload = [args |-> args, extra |-> OptionsOf(Written(UnknownOf(Merged))),
                       lines |-> NoLines]
         /\ DOMAIN args = AuthOptions \cup chosen \cup FixedOptions
         /\ \A k \in AuthOptions : args[k] = AuthValue(k)
         /\ \A k \in DOMAIN Updated \ AuthOptions : args[k] = Shown(k, Updated[k])
         /\ \A k \in NodeCipher \ DOMAIN Updated : args[k] = TLSCipherSuite
         /\ \A k \in FixedOptions \ (AuthOptions \cup chosen) : args[k] = FixedValue(k)
<1>0. stage # "request"
  BY DEF Posted
<1> DEFINE slice == buildMountOptionsSlice(Updated)
           loc == Lookup(secret, "locationConstraint")
           fixed == [sigv2 |-> "true", use_path_request_style |-> "true",
                     passwd_file |-> PasswdFile, url |-> Lookup(secret, "cosEndpoint"),
                     allow_other |-> "true", mp_umask |-> "002"]
           fixed2 == PutIf(loc # "", fixed, "endpoint", loc)
           shown == [k \in DOMAIN slice |-> IF slice[k] = <<>> THEN "true" ELSE slice[k][1]]
           auth == IF AuthType(secret) = "hmac" THEN [default_acl |-> "private"]
                   ELSE [ibm_iam_auth |-> "true",
                         ibm_iam_endpoint |-> Lookup(secret, "iamEndpoint")]
           args == Over(auth, Over(shown, fixed2))
<1>1. /\ mounter.AuthType = AuthType(secret) /\ mounter.MountOptions = slice
      /\ mounter.AddMountParam = OptionsOf(Written(UnknownOf(Merged)))
  BY KindView DEF NewS3fsMounter, Updated, Known, Merged
<1>2. payload = [args |-> args, extra |-> OptionsOf(Written(UnknownOf(Merged))), lines |-> NoLines]
  <2>1. payload = S3fsPayload(mounter, secret)
    BY DEF Pipeline, PayloadMade
  <2> QED BY <1>1, <2>1 DEF S3fsPayload, Layers
<1>3. /\ DOMAIN auth = AuthOptions
      /\ \A k \in AuthOptions : auth[k] = AuthValue(k)
  BY DEF AuthOptions, AuthValue
<1>4. /\ DOMAIN fixed2 = FixedOptions
      /\ \A k \in FixedOptions : fixed2[k] = FixedValue(k)
  <2>1. /\ DOMAIN fixed = {"sigv2", "use_path_request_style", "passwd_file", "url",
                           "allow_other", "mp_umask"}
        /\ \A k \in DOMAIN fixed : fixed[k] = FixedValue(k)
        /\ loc = FixedValue("endpoint")
    BY DEF FixedValue
  <2> HIDE DEF fixed
  <2> QED BY <2>1 DEF PutIf, Put, FixedOptions
<1>5. /\ DOMAIN slice = DOMAIN Updated \cup NodeCipher
      /\ \A k \in DOMAIN Updated : slice[k] = IF Updated[k] = <<k>> THEN <<>> ELSE Updated[k]
      /\ \A k \in NodeCipher \ DOMAIN Updated : slice[k] = <<TLSCipherSuite>>
  BY DEF buildMountOptionsSlice, Over, Written, NodeCipher, EmptyMap
<1> HIDE DEF auth, fixed2, slice
<1>6. /\ DOMAIN shown = DOMAIN Updated \cup NodeCipher
      /\ \A k \in DOMAIN Updated : shown[k] = Shown(k, Updated[k])
      /\ \A k \in NodeCipher \ DOMAIN Updated : shown[k] = TLSCipherSuite
  <2>1. \A k \in DOMAIN Updated : Updated[k] # <<>>
    BY <1>0, UpdatedTyped DEF SomeValue
  <2>2. <<TLSCipherSuite>> # <<>>
    OBVIOUS
  <2> QED BY <1>5, <2>1, <2>2 DEF Shown
<1> HIDE DEF shown
<1>7. /\ DOMAIN args = AuthOptions \cup (DOMAIN Updated \cup NodeCipher) \cup FixedOptions
      /\ \A k \in AuthOptions : args[k] = AuthValue(k)
      /\ \A k \in DOMAIN shown \ AuthOptions : args[k] = shown[k]
      /\ \A k \in FixedOptions \ (AuthOptions \cup DOMAIN shown) : args[k] = FixedValue(k)
  BY <1>3, <1>4, <1>6 DEF Over
<1>8. "cipher_suites" \notin AuthOptions
  BY DEF AuthOptions
<1>9. \A k \in NodeCipher : k \notin AuthOptions
  BY <1>8 DEF NodeCipher
<1> HIDE DEF args
<1> QED BY <1>2, <1>6, <1>7, <1>9

(* What is on the command line of s3fs for a field of the request.         *)
Text(k, v) ==
  IF v = "" \/ (k = "cipher_suites" /\ v = "default") THEN {}
  ELSE {Option(k, IF v = "true" THEN <<>> ELSE <<v>>)}
Field(k) == IF k \in DOMAIN payload.args THEN Text(k, payload.args[k]) ELSE {}

(* The text of a field has the name of the field.                          *)
LEMMA FieldName ==
  ASSUME NEW k, NEW o \in Field(k)
  PROVE  o.name = k
<1>1. PICK v : o = Option(k, v)
  BY DEF Field, Text
<1> QED BY <1>1 DEF Option

(* Where the elements of two lists are in their concatenation.             *)
LEMMA ConcatView ==
  ASSUME NEW S, NEW x \in Seq(S), NEW y \in Seq(S), NEW z, z = x \o y
  PROVE  /\ DOMAIN z = 1..(Len(x) + Len(y))
         /\ \A i \in 1..Len(x) : z[i] = x[i]
         /\ \A j \in 1..Len(y) : z[Len(x) + j] = y[j]
OBVIOUS

(* The command line of s3fs: the fields, and the pieces of the custom      *)
(* options.                                                                *)
LEMMA S3fsCmdView ==
  ASSUME Pipeline, stage = "started", mounter.kind = "s3fs"
  PROVE  /\ ValidS3FS(payload.args)
         /\ \A p : p \in Given <=> \/ \E k \in DOMAIN payload.args : p \in Field(k)
                                 \/ \E o \in payload.extra : p \in Pieces(o)
         /\ \A i \in DOMAIN cmd.lead : cmd.lead[i].name \in {"ibm_iam_auth", "ibm_iam_endpoint"}
<1> PICK args : args = payload.args
  OBVIOUS
<1> DEFINE given == {k \in DOMAIN args :
                       args[k] # "" /\ ~(k = "cipher_suites" /\ args[k] = "default")}
           text(k) == Option(k, IF args[k] = "true" THEN <<>> ELSE <<args[k]>>)
           first(k) == IF k \in given THEN <<text(k)>> ELSE <<>>
           lead == first("ibm_iam_auth") \o first("ibm_iam_endpoint")
           rest == {text(k) : k \in given \ {"ibm_iam_auth", "ibm_iam_endpoint"}}
           extra == UNION {Pieces(o) : o \in payload.extra}
<1>1. ValidS3FS(payload.args)
  BY DEF Pipeline, Verdict, Validate
<1>2. cmd = [lead |-> lead, rest |-> rest, extra |-> extra, lines |-> NoLines]
  <2>1. cmd = PopulateArgsSlice(args, payload.extra)
    BY DEF Pipeline, CmdMade
  <2> QED BY <2>1 DEF PopulateArgsSlice
<1>3. /\ \A k \in given : Field(k) = {text(k)}
      /\ \A k \in DOMAIN args \ given : Field(k) = {}
  BY DEF Field, Text
<1>4. /\ ToSet(lead) = {text(k) : k \in given \cap {"ibm_iam_auth", "ibm_iam_endpoint"}}
      /\ \A i \in DOMAIN lead : lead[i].name \in {"ibm_iam_auth", "ibm_iam_endpoint"}
  <2>0. \A k : text(k).name = k
    BY DEF Option
  <2> PICK a, b : a = text("ibm_iam_auth") /\ b = text("ibm_iam_endpoint")
    OBVIOUS
  <2>1. a.name = "ibm_iam_auth" /\ b.name = "ibm_iam_endpoint"
    BY <2>0
  <2>2. /\ first("ibm_iam_auth") = IF "ibm_iam_auth" \in given THEN <<a>> ELSE <<>>
        /\ first("ibm_iam_endpoint") = IF "ibm_iam_endpoint" \in given THEN <<b>> ELSE <<>>
    OBVIOUS
  <2>3. {text(k) : k \in given \cap {"ibm_iam_auth", "ibm_iam_endpoint"}}
          = (IF "ibm_iam_auth" \in given THEN {a} ELSE {})
              \cup (IF "ibm_iam_endpoint" \in given THEN {b} ELSE {})
    <3> HIDE DEF given
    <3> QED OBVIOUS
  <2> HIDE DEF given, text, first
  <2>4. lead = (IF "ibm_iam_auth" \in given THEN <<a>> ELSE <<>>)
                 \o (IF "ibm_iam_endpoint" \in given THEN <<b>> ELSE <<>>)
    BY <2>2
  <2> HIDE DEF lead
  <2>5. CASE "ibm_iam_auth" \in given /\ "ibm_iam_endpoint" \in given
    <3>1. lead = <<a>> \o <<b>>
      BY <2>4, <2>5
    <3>2. PICK x, y, S : x = <<a>> /\ y = <<b>> /\ S = {a, b}
      OBVIOUS
    <3>3. x \in Seq(S) /\ y \in Seq(S)
      BY <3>2
    <3>b. Len(x) = 1 /\ Len(y) = 1 /\ x[1] = a /\ y[1] = b
      BY <3>2
    <3>4. lead = x \o y
      BY <3>1, <3>2
    <3>a. /\ DOMAIN lead = 1..(Len(x) + Len(y))
          /\ \A i \in 1..Len(x) : lead[i] = x[i]
          /\ \A j \in 1..Len(y) : lead[Len(x) + j] = y[j]
      BY <3>3, <3>4, ConcatView
    <3>5. DOMAIN lead = {1, 2} /\ lead[1] = a /\ lead[1 + 1] = b
      BY <3>a, <3>b
    <3> QED BY <2>1, <2>3, <2>5, <3>5 DEF ToSet
  <2>6. CASE "ibm_iam_auth" \in given /\ "ibm_iam_endpoint" \notin given
    <3>1. lead = <<a>>
      BY <2>4, <2>6
    <3> QED BY <2>1, <2>3, <2>6, <3>1 DEF ToSet
  <2>7. CASE "ibm_iam_auth" \notin given /\ "ibm_iam_endpoint" \in given
    <3>1. lead = <<b>>
      BY <2>4, <2>7
    <3> QED BY <2>1, <2>3, <2>7, <3>1 DEF ToSet
  <2>8. CASE "ibm_iam_auth" \notin given /\ "ibm_iam_endpoint" \notin given
    <3>1. lead = <<>>
      BY <2>4, <2>8
    <3> QED BY <2>1, <2>3, <2>8, <3>1 DEF ToSet
  <2> QED BY <2>5, <2>6, <2>7, <2>8
<1> HIDE DEF lead
<1>5. Given = {text(k) : k \in given} \cup extra
  <2>1. Given = ToSet(lead) \cup rest \cup extra
    BY <1>2 DEF Given
  <2> HIDE DEF given, text, extra
  <2> QED BY <1>4, <2>1
<1>6. \A p : p \in {text(k) : k \in given} <=> \E k \in DOMAIN args : p \in Field(k)
  <2>1. given \subseteq DOMAIN args
    OBVIOUS
  <2> HIDE DEF given, text
  <2> QED BY <1>3, <2>1
<1>7. \A i \in DOMAIN cmd.lead : cmd.lead[i].name \in {"ibm_iam_auth", "ibm_iam_endpoint"}
  BY <1>2, <1>4
<1>8. \A p : p \in extra <=> \E o \in payload.extra : p \in Pieces(o)
  OBVIOUS
<1> HIDE DEF extra, given, text
<1> QED BY <1>1, <1>5, <1>6, <1>7, <1>8

(* The custom options, each as it was last mentioned.                      *)
Custom(k) == Option(k, IF Merged[k] = <<k>> THEN <<>> ELSE Merged[k])

(* The custom options that are posted are those mentioned and not known.   *)
LEMMA CustomView ==
  ASSUME Pipeline, stage \in Posted, mounter.kind = "s3fs"
  PROVE  payload.extra = {Custom(k) : k \in Mentioned \ GetKnownS3FSOptions}
<1>1. payload.extra = OptionsOf(Written(UnknownOf(Merged)))
  BY S3fsArgsView
<1>2. DOMAIN Merged = Mentioned
  BY MergedView DEF Posted
<1>3. /\ DOMAIN Written(UnknownOf(Merged)) = Mentioned \ GetKnownS3FSOptions
      /\ \A k \in Mentioned \ GetKnownS3FSOptions :
           Option(k, Written(UnknownOf(Merged))[k]) = Custom(k)
  BY <1>2 DEF Written, UnknownOf, Without, Custom
<1> QED BY <1>1, <1>3 DEF OptionsOf

(* Of a known option the command line has its field, and of a custom one   *)
(* the pieces of its text; a comma can add to both.                        *)
LEMMA SaysView ==
  ASSUME Pipeline, stage = "started", mounter.kind = "s3fs"
  PROVE  /\ \A k \in GetKnownS3FSOptions : Says(k, Field(k)) /\ Field(k) \subseteq Given
         /\ \A k \in Mentioned \ GetKnownS3FSOptions :
              /\ Pieces(Custom(k)) \subseteq Given
              /\ Says(k, {o \in Pieces(Custom(k)) : o.name = k})
<1>1. /\ ValidS3FS(payload.args)
      /\ \A p : p \in Given <=> \/ \E k \in DOMAIN payload.args : p \in Field(k)
                              \/ \E o \in payload.extra : p \in Pieces(o)
  BY S3fsCmdView
<1>2. payload.extra = {Custom(k) : k \in Mentioned \ GetKnownS3FSOptions}
  BY CustomView DEF Posted
<1>3. \A k, o : o \in Field(k) => o.name = k
  BY FieldName
<1>4. \A k : Custom(k).name = k
  BY DEF Custom, Option
<1>5. DOMAIN payload.args \subseteq GetKnownS3FSOptions
  BY <1>1 DEF ValidS3FS, GetKnownS3FSOptions
<1>6. ASSUME NEW o \in payload.extra, NEW p \in Pieces(o), p # o PROVE p \in Spliced
  BY <1>6 DEF Pieces, Spliced
<1>7. ASSUME NEW o \in payload.extra, NEW p \in Pieces(o), o \in DOMAIN SplitAtCommas
      PROVE  p \in Spliced
  BY <1>7 DEF Pieces, Spliced
<1>8. ASSUME NEW k \in GetKnownS3FSOptions PROVE Says(k, Field(k)) /\ Field(k) \subseteq Given
  <2>1. Field(k) \subseteq Given
    <3>1. CASE k \in DOMAIN payload.args
      BY <1>1, <3>1
    <3>2. CASE k \notin DOMAIN payload.args
      BY <3>2 DEF Field
    <3> QED BY <3>1, <3>2
  <2>2. Field(k) \subseteq GivenFor(k)
    BY <1>3, <2>1 DEF GivenFor
  <2>3. ASSUME NEW p \in GivenFor(k) PROVE p \in Field(k) \cup Spliced
    <3>1. p \in Given /\ p.name = k
      BY DEF GivenFor
    <3>2. CASE \E x \in DOMAIN payload.args : p \in Field(x)
      BY <1>3, <3>1, <3>2
    <3>3. CASE \E o \in payload.extra : p \in Pieces(o)
      <4>1. PICK o \in payload.extra : p \in Pieces(o)
        BY <3>3
      <4>2. o.name \notin GetKnownS3FSOptions
        BY <1>2, <1>4
      <4>3. p # o
        BY <3>1, <4>2
      <4> QED BY <1>6, <4>1, <4>3
    <3> QED BY <1>1, <3>1, <3>2, <3>3
  <2> QED BY <2>1, <2>2, <2>3 DEF Says
<1>9. ASSUME NEW k \in Mentioned \ GetKnownS3FSOptions
      PROVE  /\ Pieces(Custom(k)) \subseteq Given
             /\ Says(k, {o \in Pieces(Custom(k)) : o.name = k})
  <2>1. Pieces(Custom(k)) \subseteq Given
    BY <1>1, <1>2
  <2>2. ASSUME NEW p \in GivenFor(k)
        PROVE  p \in {o \in Pieces(Custom(k)) : o.name = k} \cup Spliced
    <3>1. p \in Given /\ p.name = k
      BY DEF GivenFor
    <3>2. PICK o \in payload.extra : p \in Pieces(o)
      BY <1>1, <1>3, <1>5, <3>1
    <3>3. PICK x \in Mentioned : o = Custom(x)
      BY <1>2
    <3>4. CASE p = o
      <4>1. x = k
        BY <1>4, <3>1, <3>3, <3>4
      <4> QED BY <3>1, <3>2, <3>3, <4>1
    <3>5. CASE p # o
      BY <1>6, <3>2, <3>5
    <3> QED BY <3>4, <3>5
  <2> QED BY <2>1, <2>2 DEF Says, GivenFor
<1> QED BY <1>8, <1>9
-----------------------------------------------------------------------------
(***************************************************************************)
(* The properties.                                                         *)
(***************************************************************************)

(* The host lets no name and no "true" pass for a uid or gid, so either is *)
(* on the command line with its text, or it is empty.                      *)
LEMMA NumberView ==
  ASSUME Pipeline, stage = "started", mounter.kind = "s3fs", NEW k \in {"gid", "uid"}
  PROVE  /\ k \in DOMAIN Updated => Updated[k] # <<k>> /\ Updated[k][1] \notin S3FSArgs
         /\ Field(k) = IF k \in DOMAIN Updated /\ Updated[k][1] # ""
                       THEN {Option(k, <<Updated[k][1]>>)} ELSE {}
<1>1. k \in IntOptions /\ k \notin {"url", "passwd_file", "cipher_suites"}
  BY DEF IntOptions
<1>2. k \notin AuthOptions \cup NodeCipher \cup FixedOptions
  BY DEF AuthOptions, NodeCipher, FixedOptions
<1>3. /\ k \in DOMAIN payload.args <=> k \in DOMAIN Updated
      /\ k \in DOMAIN Updated => payload.args[k] = Shown(k, Updated[k])
  <2>1. stage \in Posted
    BY DEF Posted
  <2> QED BY <1>2, <2>1, S3fsArgsView
<1>4. k \in DOMAIN Updated => payload.args[k] = "" \/ payload.args[k] \in DOMAIN Atoi
  <2>1. ValidS3FS(payload.args)
    BY S3fsCmdView
  <2>2. k \in DOMAIN Updated => ValidValue(k, payload.args[k])
    BY <1>3, <2>1 DEF ValidS3FS
  <2> QED BY <1>1, <2>2 DEF ValidValue
<1>5. "true" \notin DOMAIN Atoi /\ k \notin DOMAIN Atoi /\ \A x \in S3FSArgs : x \notin DOMAIN Atoi
  BY <1>1, TextsAssumption DEF S3FSArgs
<1>6. "true" # ""
  OBVIOUS
<1>7. ASSUME k \in DOMAIN Updated
      PROVE  /\ Updated[k] # <<k>> /\ payload.args[k] = Updated[k][1]
             /\ payload.args[k] # "true"
  BY <1>3, <1>4, <1>5, <1>6, <1>7 DEF Shown
<1>8. "" \notin S3FSArgs
  BY DEF S3FSArgs, BoolOptions, IntOptions
<1> QED BY <1>1, <1>3, <1>4, <1>5, <1>7, <1>8 DEF Field, Text

(* What the StorageClass and the secret say of an option of a name that is *)
(* known, and what is kept of it.                                          *)
LEMMA WishView ==
  ASSUME Pipeline, stage = "started", mounter.kind = "s3fs", NEW k \in {"gid", "uid"}
  PROVE  /\ k \in DOMAIN Known <=> k \in Mentioned
         /\ k \in Mentioned /\ Known[k] # <<k>> =>
              Known[k] = LastMention(k).val /\ Wish(k) = Known[k][1]
         /\ k \notin Mentioned => Wish(k) = ""
<1>1. k \in GetKnownS3FSOptions
  BY DEF GetKnownS3FSOptions, S3FSArgs, IntOptions
<1>2. k \in DOMAIN Known <=> k \in Mentioned
  BY <1>1, KnownView
<1>3. k \in Mentioned => Known[k] = ValueOf(LastMention(k)) /\ LastMention(k).name = k
  <2>1. k \in Mentioned => LastMention(k).name = k
    BY LastMentionView DEF Pipeline
  <2> QED BY <1>2, <2>1, KnownView
<1>4. k \notin Mentioned => Wish(k) = ""
  BY DEF Wish
<1>5. k \in Mentioned /\ Known[k] # <<k>> =>
        Known[k] = LastMention(k).val /\ LastMention(k).val # <<>>
  BY <1>3 DEF ValueOf
<1> QED BY <1>2, <1>4, <1>5 DEF Wish

(* A value with one text, and one with more.                               *)
LEMMA OneText ==
  ASSUME NEW v, NEW x, v = <<x>>
  PROVE  v[1] = x /\ ~(Len(v) > 1)
<1>1. Len(<<x>>) = 1 /\ <<x>>[1] = x
  OBVIOUS
<1>2. ~(1 > 1)
  OBVIOUS
<1> QED BY <1>1, <1>2, Zenon

(* A value that is more than its first text is longer than one.            *)
LEMMA LongerText ==
  ASSUME NEW v \in Seq(Texts), v # <<>>, v # <<v[1]>>
  PROVE  Len(v) > 1
<1>1. Len(v) \in Nat /\ Len(v) # 0
  OBVIOUS
<1>2. ASSUME Len(v) = 1 PROVE FALSE
  <2>1. \E x : x = v[1] /\ v = <<x>>
    <3>1. DOMAIN v = 1..1 /\ v = [i \in 1..1 |-> v[1]]
      BY <1>2
    <3> QED BY <3>1
  <2> QED BY <2>1
<1> QED BY <1>1, <1>2

(* The owner of the files with s3fs.                                       *)
LEMMA OwnerOfS3fs ==
  ASSUME Pipeline, stage = "started", mounter.kind = "s3fs"
  PROVE  /\ Says("gid", IF WishedGid = "" THEN {} ELSE {Option("gid", <<WishedGid>>)})
         /\ Says("uid", IF WishedUid = "" THEN {} ELSE {Option("uid", <<WishedUid>>)})
<1> PICK fs, sg, su : fs = req.fsGroup /\ sg = Lookup(secret, "gid") /\ su = Lookup(secret, "uid")
  OBVIOUS
<1>1. sg = Lookup(req.secret, "gid") /\ su = Lookup(req.secret, "uid")
  BY LookupKept DEF Completions
<1>2. OwnedAs(Updated, Known, secret, fs)
  BY UpdatedView
<1>3. \A x : <<x>>[1] = x
  OBVIOUS
<1>4. Says("gid", Field("gid")) /\ Says("uid", Field("uid"))
  <2>1. {"gid", "uid"} \subseteq GetKnownS3FSOptions
    BY DEF GetKnownS3FSOptions, S3FSArgs, IntOptions
  <2> QED BY <2>1, SaysView
<1>5. WishedGid = IF "gid" \in DOMAIN Updated THEN Updated["gid"][1] ELSE ""
  <2>1. CASE fs # ""
    BY <1>2, <1>3, <2>1 DEF OwnedAs, OwnerGid, HasGid, WishedGid, FirstSet
  <2>2. CASE fs = "" /\ sg # ""
    BY <1>1, <1>2, <1>3, <2>2 DEF OwnedAs, OwnerGid, HasGid, WishedGid, FirstSet
  <2>3. CASE fs = "" /\ sg = ""
    <3>1. /\ "gid" \in DOMAIN Updated <=> "gid" \in DOMAIN Known
          /\ "gid" \in DOMAIN Updated => Updated["gid"] = Known["gid"]
      BY <1>2, <2>3 DEF OwnedAs, OwnerGid, HasGid
    <3>2. WishedGid = Wish("gid")
      BY <1>1, <2>3 DEF WishedGid, FirstSet
    <3>3. "gid" \in DOMAIN Updated => Updated["gid"] # <<"gid">>
      BY NumberView
    <3> QED BY <3>1, <3>2, <3>3, WishView
  <2> QED BY <2>1, <2>2, <2>3
<1>6. Field("gid") = IF WishedGid = "" THEN {} ELSE {Option("gid", <<WishedGid>>)}
  BY <1>5, NumberView
<1>7. WishedUid = IF "uid" \in DOMAIN Updated THEN Updated["uid"][1] ELSE ""
  <2>1. CASE su # ""
    <3>1. HasUid(Known, secret) /\ OwnerUid(Known, secret) = <<su>>
      BY <2>1 DEF HasUid, OwnerUid
    <3>2. <<su>> # <<"">>
      BY <1>3, <2>1
    <3>3. "uid" \in DOMAIN Updated /\ Updated["uid"] = <<su>>
      BY <1>2, <3>1, <3>2 DEF OwnedAs, GidIsUid
    <3>4. WishedUid = su
      BY <1>1, <2>1 DEF WishedUid, FirstSet
    <3> QED BY <1>3, <3>3, <3>4
  <2>2. CASE su = "" /\ ~GidIsUid(Known, secret, fs) /\ "uid" \in Mentioned
    <3>1. "uid" \in DOMAIN Updated /\ Updated["uid"] = Known["uid"]
      BY <1>2, <2>2, WishView DEF OwnedAs, HasUid, OwnerUid
    <3>2. Known["uid"] = LastMention("uid").val /\ Wish("uid") = Known["uid"][1]
      BY <2>2, <3>1, NumberView, WishView
    <3>3. CASE Wish("uid") # ""
      BY <1>1, <2>2, <3>1, <3>2, <3>3 DEF WishedUid, FirstSet
    <3>4. CASE Wish("uid") = "" /\ Known["uid"] = <<"">>
      <4>1. ~LostUid
        <5>1. LastMention("uid").val = <<"">>
          BY <3>2, <3>4
        <5>2. ~(Len(LastMention("uid").val) > 1)
          BY <5>1, OneText, Zenon
        <5> QED BY <5>2, Zenon DEF LostUid
      <4>2. ~("gid" \in DOMAIN Updated /\ Updated["gid"] # <<"">>)
        BY <1>2, <2>2, <3>4 DEF OwnedAs, GidIsUid, HasUid, OwnerUid
      <4>3. WishedGid = ""
        BY <1>3, <1>5, <4>2
      <4> QED BY <1>1, <2>2, <3>1, <3>2, <3>4, <4>1, <4>3 DEF WishedUid, FirstSet
    <3>5. CASE Wish("uid") = "" /\ Known["uid"] # <<"">>
      <4>1. Known["uid"] \in Seq(Texts) /\ Known["uid"] # <<>>
        BY <2>2, KnownView, WishView DEF SomeValue
      <4>2. Len(Known["uid"]) > 1
        <5>1. Known["uid"] # <<Known["uid"][1]>>
          BY <3>2, <3>5
        <5> QED BY <4>1, <5>1, LongerText
      <4>3. LostUid
        BY <2>2, <3>2, <4>2 DEF LostUid
      <4> QED BY <1>1, <2>2, <3>1, <3>2, <3>5, <4>3 DEF WishedUid, FirstSet
    <3> QED BY <3>3, <3>4, <3>5
  <2>3. CASE su = "" /\ ~GidIsUid(Known, secret, fs) /\ "uid" \notin Mentioned
    <3>1. "uid" \notin DOMAIN Updated /\ ~HasUid(Known, secret)
      BY <1>2, <2>3, WishView DEF OwnedAs, HasUid
    <3>2. ~("gid" \in DOMAIN Updated /\ Updated["gid"] # <<"">>)
      BY <1>2, <2>3, <3>1 DEF OwnedAs, GidIsUid
    <3>3. WishedGid = ""
      BY <1>3, <1>5, <3>2
    <3>4. Wish("uid") = "" /\ ~LostUid
      BY <2>3, WishView DEF LostUid
    <3> QED BY <1>1, <2>3, <3>1, <3>3, <3>4 DEF WishedUid, FirstSet
  <2>4. CASE su = "" /\ GidIsUid(Known, secret, fs)
    <3>1. "uid" \in DOMAIN Updated /\ "gid" \in DOMAIN Updated /\ Updated["uid"] = Updated["gid"]
      BY <1>2, <2>4 DEF OwnedAs, GidIsUid
    <3>2. Wish("uid") = "" /\ ~LostUid
      <4>1. CASE "uid" \notin Mentioned
        BY <4>1, WishView DEF LostUid
      <4>2. CASE "uid" \in Mentioned
        <5>1. Known["uid"] = <<"">>
          BY <2>4, <4>2, WishView DEF GidIsUid, HasUid, OwnerUid
        <5>2. Known["uid"][1] = "" /\ ~(Len(Known["uid"]) > 1)
          BY <5>1, OneText, Zenon
        <5>3. Known["uid"] # <<"uid">>
          BY <1>3, <5>2
        <5>4. LastMention("uid").val = Known["uid"] /\ Wish("uid") = Known["uid"][1]
          BY <4>2, <5>3, WishView
        <5> QED BY <5>2, <5>4, Zenon DEF LostUid
      <4> QED BY <4>1, <4>2
    <3>3. WishedUid = WishedGid
      BY <1>1, <2>4, <3>2 DEF WishedUid, FirstSet
    <3> QED BY <1>5, <3>1, <3>3
  <2> QED BY <2>1, <2>2, <2>3, <2>4
<1>8. Field("uid") = IF WishedUid = "" THEN {} ELSE {Option("uid", <<WishedUid>>)}
  BY <1>7, NumberView
<1> QED BY <1>4, <1>6, <1>8

(* What is on the command line of rclone.                                  *)
LEMMA RcloneCmdView ==
  ASSUME Pipeline, stage = "started", mounter.kind = "rclone"
  PROVE  /\ Given = {Option(k, <<payload.args[k]>>) : k \in DOMAIN payload.args}
         /\ cmd.lead = <<>> /\ cmd.lines = payload.lines
<1>1. cmd = RcloneArgsSlice(payload.args, payload.lines)
  BY DEF Pipeline, CmdMade
<1>2. /\ cmd.lead = <<>> /\ cmd.extra = {} /\ cmd.lines = payload.lines
      /\ cmd.rest = {Option(k, <<payload.args[k]>>) : k \in DOMAIN payload.args}
  BY <1>1 DEF RcloneArgsSlice
<1>3. ToSet(<<>>) = {}
  BY DEF ToSet
<1> QED BY <1>2, <1>3 DEF Given

(* What the command line of rclone has for one name.                       *)
LEMMA RcloneGivenFor ==
  ASSUME Pipeline, stage = "started", mounter.kind = "rclone", NEW k
  PROVE  GivenFor(k) = IF k \in DOMAIN payload.args
                       THEN {Option(k, <<payload.args[k]>>)} ELSE {}
<1>1. Given = {Option(x, <<payload.args[x]>>) : x \in DOMAIN payload.args}
  BY RcloneCmdView
<1>2. \A x, v : Option(x, v).name = x
  BY DEF Option
<1> QED BY <1>1, <1>2 DEF GivenFor

(* The owner of the files with rclone.                                     *)
LEMMA OwnerOfRclone ==
  ASSUME Pipeline, stage = "started", mounter.kind = "rclone"
  PROVE  /\ Says("gid", IF WishedGid = "" THEN {} ELSE {Option("gid", <<WishedGid>>)})
         /\ Says("uid", IF WishedUid = "" THEN {} ELSE {Option("uid", <<WishedUid>>)})
<1> PICK fs, sg, su, args :
      /\ fs = req.fsGroup /\ sg = Lookup(secret, "gid") /\ su = Lookup(secret, "uid")
      /\ args = payload.args
  OBVIOUS
<1> DEFINE gid == IF fs # "" THEN fs ELSE sg
           uid == IF su # "" THEN su ELSE gid
<1>1. sg = Lookup(req.secret, "gid") /\ su = Lookup(req.secret, "uid")
  BY LookupKept DEF Completions
<1>2. WishedGid = gid /\ WishedUid = uid
  BY <1>1 DEF WishedGid, WishedUid, FirstSet, Wish, LostUid
<1>3. /\ "gid" \in DOMAIN args <=> gid # ""
      /\ "uid" \in DOMAIN args <=> uid # ""
      /\ gid # "" => args["gid"] = gid
      /\ uid # "" => args["uid"] = uid
  <2>1. stage \in Posted
    BY DEF Posted
  <2> QED BY <2>1, RcloneArgsView
<1> HIDE DEF gid, uid
<1>4. \A k : GivenFor(k) = IF k \in DOMAIN args THEN {Option(k, <<args[k]>>)} ELSE {}
  BY RcloneGivenFor
<1> QED BY <1>2, <1>3, <1>4 DEF Says

(* The files of the volume have the owner that was asked for, with s3fs    *)
(* and with rclone.                                                        *)
LEMMA OwnerOfPipeline == Pipeline => OwnerHolds
<1> SUFFICES ASSUME Pipeline, stage = "started" PROVE
      \A w \in {<<"gid", WishedGid>>, <<"uid", WishedUid>>} :
        Says(w[1], IF w[2] = "" THEN {} ELSE {Option(w[1], <<w[2]>>)})
  BY DEF OwnerHolds
<1>1. mounter.kind \in {"s3fs", "rclone"}
  BY KindView DEF Made
<1>2. /\ Says("gid", IF WishedGid = "" THEN {} ELSE {Option("gid", <<WishedGid>>)})
      /\ Says("uid", IF WishedUid = "" THEN {} ELSE {Option("uid", <<WishedUid>>)})
  BY <1>1, OwnerOfS3fs, OwnerOfRclone
<1> PICK gid, uid : gid = WishedGid /\ uid = WishedUid
  OBVIOUS
<1>3. /\ <<"gid", gid>>[1] = "gid" /\ <<"gid", gid>>[2] = gid
      /\ <<"uid", uid>>[1] = "uid" /\ <<"uid", uid>>[2] = uid
  OBVIOUS
<1>4. ASSUME NEW w \in {<<"gid", gid>>, <<"uid", uid>>}
      PROVE  Says(w[1], IF w[2] = "" THEN {} ELSE {Option(w[1], <<w[2]>>)})
  <2>1. CASE w = <<"gid", gid>>
    <3>1. w[1] = "gid" /\ w[2] = gid
      BY <1>3, <2>1
    <3> HIDE <2>1
    <3> QED BY <1>2, <3>1
  <2>2. CASE w = <<"uid", uid>>
    <3>1. w[1] = "uid" /\ w[2] = uid
      BY <1>3, <2>2
    <3> HIDE <2>2
    <3> QED BY <1>2, <3>1
  <2> QED BY <2>1, <2>2
<1> QED BY <1>4

(* The last mention of each option is what s3fs is told.                   *)
LEMMA LastMentionOfPipeline == Pipeline => LastMentionWins
<1> SUFFICES ASSUME Pipeline, stage = "started", mounter.kind = "s3fs",
                    NEW k \in Mentioned \ Governed, Plain(LastMention(k))
             PROVE  Says(k, Expected(LastMention(k)))
  BY DEF LastMentionWins
<1> PICK o : o = LastMention(k)
  OBVIOUS
<1>1. o \in OptionType /\ o.name = k /\ k # ""
  <2>1. PICK i \in DOMAIN Mentions : o = Mentions[i] /\ o.name = k
    BY LastMentionView DEF Pipeline
  <2>2. Mentions \in Seq(OptionType)
    BY MentionsView DEF Pipeline
  <2>3. k # ""
    BY DEF Mentioned
  <2>4. Mentions[i] \in OptionType
    BY <2>2
  <2> QED BY <2>1, <2>3, <2>4, Zenon
<1>2. Merged[k] = IF o.val = <<>> THEN <<k>> ELSE o.val
  BY <1>1, MergedView DEF ValueOf
<1>3. <<k>> # <<>>
  OBVIOUS
<1>4. o.val \in Seq(Texts) /\ o = Option(k, o.val)
  BY <1>1 DEF OptionType, Option
<1>5. CASE k \notin GetKnownS3FSOptions
  <2>1. Custom(k) = Sent(o)
    BY <1>1, <1>2, <1>3, <1>4 DEF Custom, Sent
  <2>2. Sent(o) \notin DOMAIN SplitAtCommas
    BY <1>1, <1>5 DEF Plain
  <2>3. Pieces(Custom(k)) = {Sent(o)}
    BY <2>1, <2>2 DEF Pieces
  <2>4. Sent(o).name = k
    BY <1>1 DEF Sent, Option
  <2>5. {p \in Pieces(Custom(k)) : p.name = k} = {Sent(o)}
    BY <2>3, <2>4
  <2>6. Expected(o) = {Sent(o)}
    BY <1>1, <1>5 DEF Expected
  <2>7. Says(k, {p \in Pieces(Custom(k)) : p.name = k})
    BY <1>5, SaysView
  <2> QED BY <2>5, <2>6, <2>7
<1>6. CASE k \in GetKnownS3FSOptions
  <2>1. Says(k, Field(k))
    BY <1>6, SaysView
  <2>2. Len(o.val) <= 1 /\ o # Option("cipher_suites", <<"default">>)
    BY <1>1, <1>6 DEF Plain
  <2>3. SUFFICES Expected(o) = Field(k)
    BY <2>1, <2>3
  <2>4. k \in DOMAIN Known /\ Known[k] = Merged[k]
    BY <1>6, KnownView, MergedView
  <2>5. stage \in Posted
    BY DEF Posted
  <2>6. k \notin AuthOptions /\ k \notin {"uid", "gid"} /\ (req.readOnlyMany => k # "ro")
    <3>1. AuthType(secret) = AuthType(req.secret)
      BY LookupKept DEF AuthType, Completions
    <3> QED BY <3>1 DEF AuthOptions, Governed
  <2>8. ~(k = "cipher_suites" /\ o.val = <<"default">>)
    BY <1>4, <2>2
  <2>9. k \in DOMAIN Updated /\ Updated[k] = Merged[k]
    <3>1. CASE k \notin Decided
      BY <2>4, <3>1, UpdatedView DEF Same
    <3>2. CASE k = "ro"
      BY <2>4, <2>6, <3>2, UpdatedView
    <3>3. CASE k = "cipher_suites"
      <4>1. Merged[k] # <<"default">>
        <5>1. <<"cipher_suites">> # <<"default">>
          OBVIOUS
        <5> QED BY <1>2, <2>8, <3>3, <5>1
      <4> QED BY <2>4, <3>3, <4>1, UpdatedView
    <3>4. CASE k \in CachePathOptions
      <4>1. DOMAIN payload.args \subseteq S3FSArgs
        BY S3fsCmdView DEF ValidS3FS
      <4>2. k \in DOMAIN Updated
        BY <2>4, <3>4, UpdatedView
      <4>3. k \in DOMAIN payload.args
        BY <2>5, <4>2, S3fsArgsView
      <4>4. k \notin S3FSArgs
        BY <3>4 DEF CachePathOptions, S3FSArgs, BoolOptions, IntOptions
      <4> QED BY <4>1, <4>3, <4>4
    <3> QED BY <2>6, <3>1, <3>2, <3>3, <3>4 DEF Decided
  <2>10. k \in DOMAIN payload.args /\ payload.args[k] = Shown(k, Merged[k])
    BY <2>5, <2>6, <2>9, S3fsArgsView
  <2>11. CASE o.val \in {<<>>, <<k>>}
    <3>1. payload.args[k] = "true"
      BY <1>2, <2>10, <2>11 DEF Shown
    <3>2. Field(k) = {Option(k, <<>>)}
      BY <2>10, <3>1 DEF Field, Text
    <3>3. Sent(o) = Option(k, <<>>)
      BY <1>1, <2>11 DEF Sent
    <3>4. <<>> # <<"">> /\ <<>> # <<"true">>
      OBVIOUS
    <3>5. Sent(o).val = <<>>
      BY <3>3 DEF Option
    <3>6. Expected(o) = {Option(k, <<>>)}
      BY <1>1, <1>6, <3>3, <3>4, <3>5 DEF Expected
    <3> QED BY <3>2, <3>6
  <2>12. CASE o.val \notin {<<>>, <<k>>}
    <3>1. payload.args[k] = o.val[1]
      BY <1>2, <2>10, <2>12 DEF Shown
    <3>2. Field(k) = Text(k, o.val[1])
      BY <2>10, <3>1 DEF Field
    <3>3. o.val = <<o.val[1]>>
      <4>1. SUFFICES ASSUME o.val # <<o.val[1]>> PROVE FALSE
        OBVIOUS
      <4>2. Len(o.val) > 1
        BY <1>4, <2>12, <4>1, LongerText
      <4>3. Len(o.val) \in Nat
        BY <1>4
      <4> QED BY <2>2, <4>2, <4>3
    <3>4. ~(k = "cipher_suites" /\ o.val[1] = "default")
      BY <2>8, <3>3
    <3>5. Sent(o) = o
      BY <1>1, <2>12 DEF Sent
    <3> PICK v : v = o.val[1]
      OBVIOUS
    <3>6. o.val = <<v>> /\ o = Option(k, <<v>>)
      BY <1>4, <3>3
    <3>7. Expected(o) = IF v = "" THEN {} ELSE IF v = "true" THEN {Option(k, <<>>)}
                        ELSE {Option(k, <<v>>)}
      <4>1. \A w : <<v>> = <<w>> <=> v = w
        OBVIOUS
      <4>2. Sent(o).val = <<v>>
        BY <3>5, <3>6
      <4>3. Expected(o) = CASE <<v>> = <<"">> -> {}
                            [] <<v>> = <<"true">> -> {Option(k, <<>>)}
                            [] OTHER -> {Option(k, <<v>>)}
        BY <1>1, <1>6, <3>5, <3>6, <4>2 DEF Expected
      <4> QED BY <4>1, <4>3
    <3> QED BY <3>2, <3>4, <3>7 DEF Text
  <2> QED BY <2>11, <2>12
<1> QED BY <1>5, <1>6

(* The driver's own lines have one for the endpoint, that of the secret.   *)
LEMMA EndpointLine ==
  ASSUME NEW mo, NEW sec
  PROVE  /\ {o \in createConfig(mo, sec).own : o.name = "endpoint"}
              = {Option("endpoint", <<Lookup(sec, "cosEndpoint")>>)}
         /\ createConfig(mo, sec).user = mo.MountOptions
<1> DEFINE keys == IF mo.AuthType = "hmac"
                   THEN [access_key_id |-> Lookup(sec, "accessKey"),
                         secret_access_key |-> Lookup(sec, "secretKey"),
                         env_auth |-> "true", v2_auth |-> "false"]
                   ELSE [ibm_api_key |-> Lookup(sec, "apiKey"),
                         ibm_resource_instance_id |-> Lookup(sec, "serviceId"),
                         env_auth |-> "false", v2_auth |-> "true"]
           iam == Lookup(sec, "iamEndpoint")
           loc == Lookup(sec, "locationConstraint")
           fixed == [type |-> "s3", endpoint |-> Lookup(sec, "cosEndpoint"),
                     provider |-> "IBMCOS"]
           some == PutIf(iam # "", Over(fixed, keys), "ibm_iam_endpoint", iam)
           all == PutIf(loc # "", some, "location_constraint", loc)
<1>1. createConfig(mo, sec) =
        [own |-> {Option(k, <<all[k]>>) : k \in DOMAIN all}, user |-> mo.MountOptions]
  BY DEF createConfig
<1>2. "endpoint" \in DOMAIN fixed /\ fixed["endpoint"] = Lookup(sec, "cosEndpoint")
  OBVIOUS
<1> HIDE DEF fixed, keys
<1>3. /\ "endpoint" \in DOMAIN Over(fixed, keys)
      /\ Over(fixed, keys)["endpoint"] = Lookup(sec, "cosEndpoint")
  BY <1>2 DEF Over
<1>4. "endpoint" \in DOMAIN some /\ some["endpoint"] = Lookup(sec, "cosEndpoint")
  BY <1>3 DEF PutIf, Put
<1> HIDE DEF some
<1>5. "endpoint" \in DOMAIN all /\ all["endpoint"] = Lookup(sec, "cosEndpoint")
  BY <1>4 DEF PutIf, Put
<1> HIDE DEF all
<1>6. \A k, v : Option(k, v).name = k
  BY DEF Option
<1>7. /\ createConfig(mo, sec).own = {Option(k, <<all[k]>>) : k \in DOMAIN all}
      /\ createConfig(mo, sec).user = mo.MountOptions
  BY <1>1
<1> PICK S, e : S = createConfig(mo, sec).own /\ e = Lookup(sec, "cosEndpoint")
  OBVIOUS
<1>8. S = {Option(k, <<all[k]>>) : k \in DOMAIN all}
  BY <1>7
<1>9. ASSUME NEW o \in S, o.name = "endpoint" PROVE o = Option("endpoint", <<e>>)
  <2>1. PICK k \in DOMAIN all : o = Option(k, <<all[k]>>)
    BY <1>8
  <2>2. k = "endpoint"
    BY <1>6, <1>9, <2>1
  <2> QED BY <1>5, <2>1, <2>2
<1>10. Option("endpoint", <<e>>) \in S
  BY <1>5, <1>8
<1>11. {o \in S : o.name = "endpoint"} = {Option("endpoint", <<e>>)}
  BY <1>6, <1>9, <1>10
<1> QED BY <1>7, <1>11

(* After the driver's lines, the config file of rclone has the last        *)
(* well-formed line of each name.                                          *)
LEMMA LinesOfPipeline == Pipeline => SecretLineWins
<1> SUFFICES ASSUME Pipeline, stage = "started", mounter.kind = "rclone",
                    "mountOptions" \in DOMAIN req.secret
             PROVE  SecretLineWins
  BY DEF SecretLineWins
<1> PICK c : c = Mentions
  OBVIOUS
<1>1. stage \in Posted /\ stage # "request"
  BY DEF Posted
<1>2. /\ payload.lines = createConfig(mounter, secret)
      /\ mounter.MountOptions = updateMountOptions(req.flags, secret)
  <2> PICK args, lines : args = payload.args /\ lines = createConfig(mounter, secret)
    OBVIOUS
  <2>1. /\ payload = [args |-> args, extra |-> {}, lines |-> lines]
        /\ mounter.MountOptions = updateMountOptions(req.flags, secret)
    BY <1>1, RcloneArgsView
  <2> QED BY <2>1
<1>3. cmd.lines = createConfig(mounter, secret)
  BY <1>2, RcloneCmdView
<1>4. /\ cmd.lines.user = updateMountOptions(req.flags, secret)
      /\ {o \in cmd.lines.own : o.name = "endpoint"}
           = {Option("endpoint", <<Lookup(secret, "cosEndpoint")>>)}
  BY <1>2, <1>3, EndpointLine
<1>5. updateMountOptions(req.flags, secret) =
        {c[i] : i \in {j \in WellFormed(c) : IsLast(c, WellFormed(c), j)}}
  BY <1>1, LinesView
<1>6. Lookup(secret, "cosEndpoint") =
        FirstSet(Lookup(req.secret, "cosEndpoint"), Lookup(req.attrib, "cosEndpoint"), "")
  BY <1>1, SecretView
<1>7. cmd.lines.user = {Mentions[i] : i \in
        {i \in {i \in DOMAIN Mentions : Len(Mentions[i].val) = 1} :
           \A j \in {i2 \in DOMAIN Mentions : Len(Mentions[i2].val) = 1} :
             Mentions[j].name = Mentions[i].name => j <= i}}
  BY <1>4, <1>5 DEF WellFormed, IsLast
<1> QED BY <1>4, <1>6, <1>7 DEF SecretLineWins

(* The host never rejects what is posted for rclone ...                    *)
LEMMA RcloneValid ==
  ASSUME Pipeline, stage \in Posted, mounter.kind = "rclone"
  PROVE  ValidRClone(payload.args)
<1> PICK args : args = payload.args
  OBVIOUS
<1> DEFINE fixed == {"config", "daemon", "allow-other", "log-file", "vfs-cache-mode"}
<1>1. /\ fixed \subseteq DOMAIN args
      /\ DOMAIN args \subseteq fixed \cup {"gid", "uid", "read-only"}
      /\ args["config"] = PasswdFile /\ args["daemon"] = "true"
      /\ args["allow-other"] = "true"
      /\ "read-only" \in DOMAIN args => args["read-only"] = "true"
  BY RcloneArgsView
<1>2. fixed \cup {"gid", "uid", "read-only"} \subseteq RCloneArgs
  BY DEF RCloneArgs, RCloneBools
<1>3. (fixed \cup {"gid", "uid", "read-only"}) \cap RCloneBools
        = {"daemon", "allow-other", "read-only"}
  BY DEF RCloneBools
<1>4. Lookup(args, "config") \in CredFiles
  BY <1>1, CredFileAssumption DEF Lookup
<1> HIDE DEF fixed
<1>5. \A k \in DOMAIN args \cap RCloneBools : args[k] \in {"", "true", "false"}
  BY <1>1, <1>3
<1> QED BY <1>1, <1>2, <1>4, <1>5 DEF ValidRClone

(* ... and what is posted for s3fs only when an option is to blame.        *)
LEMMA S3fsValid ==
  ASSUME Pipeline, stage \in Posted, mounter.kind = "s3fs", ~Blamed
  PROVE  ValidS3FS(payload.args)
<1>0. stage # "request"
  BY DEF Posted
<1>1. /\ \A k \in Mentioned \cap GetKnownS3FSOptions :
           k \notin CachePathOptions /\ ValidValue(k, Shown(k, Known[k]))
      /\ CachePathOptions \cap DOMAIN secret = {}
      /\ Lookup(secret, "cosEndpoint") \in WithScheme
      /\ AuthType(secret) = "iam" => ValidValue("ibm_iam_endpoint", Lookup(secret, "iamEndpoint"))
      /\ \A v \in {req.fsGroup, Lookup(secret, "gid"), Lookup(secret, "uid")} :
           ValidValue("gid", v)
  <2>1. ASSUME NEW k \in Mentioned \cap GetKnownS3FSOptions
        PROVE  k \notin CachePathOptions /\ ValidValue(k, Shown(k, Known[k]))
    <3> PICK v : v = LastMention(k).val
      OBVIOUS
    <3>1. k \notin CachePathOptions /\ ValidValue(k, IF v \in {<<>>, <<k>>} THEN "true" ELSE v[1])
      BY DEF Blamed, CachePathOptions
    <3>2. Known[k] = IF v = <<>> THEN <<k>> ELSE v
      <4>1. LastMention(k).name = k
        BY LastMentionView DEF Pipeline
      <4>2. Known[k] = ValueOf(LastMention(k))
        BY <1>0, KnownView
      <4> QED BY <4>1, <4>2 DEF ValueOf
    <3>3. Shown(k, Known[k]) = IF v \in {<<>>, <<k>>} THEN "true" ELSE v[1]
      BY <3>2 DEF Shown
    <3> QED BY <3>1, <3>3
  <2>2. CachePathOptions \cap DOMAIN secret = {}
    BY <1>0, SecretView DEF Blamed, CachePathOptions, Completions
  <2>3. Lookup(secret, "iamEndpoint") = secret["iamEndpoint"]
    BY <1>0, SecretView DEF Lookup, Completions
  <2>4. /\ Lookup(req.secret, "gid") = Lookup(secret, "gid")
        /\ Lookup(req.secret, "uid") = Lookup(secret, "uid")
    BY <1>0, LookupKept DEF Completions
  <2> QED BY <2>1, <2>2, <2>3, <2>4 DEF Blamed
<1>2. \A x \in {"gid", "uid"} : \A v : ValidValue(x, v) <=> v = "" \/ v \in DOMAIN Atoi
  BY DEF ValidValue, BoolOptions, IntOptions
<1>3. "true" \notin DOMAIN Atoi /\ "gid" \notin DOMAIN Atoi /\ "uid" \notin DOMAIN Atoi
  BY TextsAssumption DEF S3FSArgs, IntOptions
<1>4. DOMAIN Known = Mentioned \cap GetKnownS3FSOptions
  BY <1>0, KnownView
<1>5. \A x : <<x>>[1] = x
  OBVIOUS
<1>6. HasGid(Known, secret, req.fsGroup) =>
        LET v == OwnerGid(Known, secret, req.fsGroup) IN
        v # <<"gid">> /\ v # <<"uid">> /\ (v[1] = "" \/ v[1] \in DOMAIN Atoi)
  <2> PICK v : v = OwnerGid(Known, secret, req.fsGroup)
    OBVIOUS
  <2>1. ASSUME NEW x \in {req.fsGroup, Lookup(secret, "gid")}, v = <<x>>
        PROVE  v[1] = "" \/ v[1] \in DOMAIN Atoi
    BY <1>1, <1>2, <1>5, <2>1
  <2>2. ASSUME "gid" \in DOMAIN Known, v = Known["gid"]
        PROVE  v[1] = "" \/ v[1] \in DOMAIN Atoi
    <3>1. ValidValue("gid", Shown("gid", v))
      BY <1>1, <1>4, <2>2
    <3>2. v # <<"gid">>
      BY <1>2, <1>3, <3>1 DEF Shown
    <3> QED BY <1>2, <3>1, <3>2 DEF Shown
  <2>3. HasGid(Known, secret, req.fsGroup) => v[1] = "" \/ v[1] \in DOMAIN Atoi
    BY <2>1, <2>2 DEF HasGid, OwnerGid
  <2> QED BY <1>3, <1>5, <2>3
<1>7. HasUid(Known, secret) =>
        LET v == OwnerUid(Known, secret) IN
        v # <<"uid">> /\ (v[1] = "" \/ v[1] \in DOMAIN Atoi)
  <2> PICK v : v = OwnerUid(Known, secret)
    OBVIOUS
  <2>1. ASSUME v = <<Lookup(secret, "uid")>>
        PROVE  v[1] = "" \/ v[1] \in DOMAIN Atoi
    BY <1>1, <1>2, <1>5, <2>1
  <2>2. ASSUME "uid" \in DOMAIN Known, v = Known["uid"]
        PROVE  v[1] = "" \/ v[1] \in DOMAIN Atoi
    <3>1. ValidValue("uid", Shown("uid", v))
      BY <1>1, <1>4, <2>2
    <3>2. v # <<"uid">>
      BY <1>2, <1>3, <3>1 DEF Shown
    <3> QED BY <1>2, <3>1, <3>2 DEF Shown
  <2>3. HasUid(Known, secret) => v[1] = "" \/ v[1] \in DOMAIN Atoi
    BY <2>1, <2>2 DEF HasUid, OwnerUid
  <2> QED BY <1>3, <1>5, <2>3
<1>8. ASSUME NEW k \in DOMAIN Updated
      PROVE  k \in S3FSArgs /\ ValidValue(k, Shown(k, Updated[k]))
  <2>1. CASE k = "gid"
    <3>1. Shown(k, Updated[k]) = "" \/ Shown(k, Updated[k]) \in DOMAIN Atoi
      BY <1>0, <1>6, <1>8, <2>1, UpdatedView DEF OwnedAs, Shown
    <3> QED BY <1>2, <2>1, <3>1 DEF S3FSArgs, IntOptions
  <2>2. CASE k = "uid"
    <3>1. Shown(k, Updated[k]) = "" \/ Shown(k, Updated[k]) \in DOMAIN Atoi
      BY <1>0, <1>6, <1>7, <1>8, <2>2, UpdatedView DEF OwnedAs, GidIsUid, Shown
    <3> QED BY <1>2, <2>2, <3>1 DEF S3FSArgs, IntOptions
  <2>3. CASE k = "ro" /\ req.readOnlyMany
    <3>1. Updated[k] = <<"true">>
      BY <1>0, <2>3, UpdatedView
    <3>2. Shown(k, Updated[k]) = "true"
      BY <1>5, <3>1 DEF Shown
    <3> QED BY <2>3, <3>2 DEF ValidValue, S3FSArgs, BoolOptions, IntOptions
  <2>4. CASE k \notin {"gid", "uid"} /\ ~(k = "ro" /\ req.readOnlyMany)
    <3>1. k \in DOMAIN Known /\ Updated[k] = Known[k]
      <4>1. CASE k \notin Decided
        BY <1>0, <1>8, <4>1, UpdatedView DEF Same
      <4>2. CASE k \in {"ro", "cipher_suites"}
        BY <1>0, <1>8, <2>4, <4>2, UpdatedView
      <4>3. CASE k \in CachePathOptions
        BY <1>0, <1>1, <1>4, <1>8, <4>3, UpdatedView
      <4> QED BY <2>4, <4>1, <4>2, <4>3 DEF Decided
    <3>2. k \in Mentioned \cap GetKnownS3FSOptions
      BY <1>4, <3>1
    <3> QED BY <1>1, <3>1, <3>2 DEF GetKnownS3FSOptions, CachePathOptions
  <2> QED BY <2>1, <2>2, <2>3, <2>4
<1>9. ASSUME NEW k \in AuthOptions
      PROVE  k \in S3FSArgs /\ ValidValue(k, AuthValue(k))
  <2>1. CASE k = "default_acl"
    BY <2>1 DEF AuthValue, ValidValue, S3FSArgs, BoolOptions, IntOptions
  <2>2. CASE k = "ibm_iam_auth"
    BY <2>2 DEF AuthValue, ValidValue, S3FSArgs, BoolOptions, IntOptions
  <2>3. CASE k = "ibm_iam_endpoint"
    <3>1. AuthType(secret) = "iam"
      BY <2>3 DEF AuthOptions, AuthType
    <3>2. AuthValue(k) = Lookup(secret, "iamEndpoint")
      BY <2>3 DEF AuthValue
    <3> QED BY <1>1, <2>3, <3>1, <3>2 DEF S3FSArgs
  <2> QED BY <1>9, <2>1, <2>2, <2>3 DEF AuthOptions
<1>10. ASSUME NEW k \in FixedOptions
       PROVE  k \in S3FSArgs /\ ValidValue(k, FixedValue(k))
  <2>1. CASE k = "passwd_file"
    BY <2>1, CredFileAssumption DEF FixedValue, ValidValue, S3FSArgs, BoolOptions, IntOptions
  <2>2. CASE k = "url"
    BY <1>1, <2>2 DEF FixedValue, ValidValue, S3FSArgs, BoolOptions, IntOptions
  <2>3. CASE k \in {"mp_umask", "endpoint"}
    BY <2>3 DEF ValidValue, S3FSArgs, BoolOptions, IntOptions
  <2>4. CASE k \in {"sigv2", "use_path_request_style", "allow_other"}
    BY <2>4 DEF FixedValue, ValidValue, S3FSArgs, BoolOptions, IntOptions
  <2> QED BY <1>10, <2>1, <2>2, <2>3, <2>4 DEF FixedOptions
<1>11. ASSUME NEW k \in NodeCipher, NEW v
       PROVE  k \in S3FSArgs /\ ValidValue(k, v)
  BY DEF NodeCipher, ValidValue, S3FSArgs, BoolOptions, IntOptions
<1>12. ASSUME NEW k \in DOMAIN payload.args
       PROVE  k \in S3FSArgs /\ ValidValue(k, payload.args[k])
  <2>1. CASE k \in AuthOptions
    BY <1>9, <2>1, S3fsArgsView
  <2>2. CASE k \in DOMAIN Updated \ AuthOptions
    BY <1>8, <2>2, S3fsArgsView
  <2>3. CASE k \in NodeCipher
    BY <1>11, <2>3
  <2>4. CASE k \in FixedOptions \ (AuthOptions \cup DOMAIN Updated \cup NodeCipher)
    BY <1>10, <2>4, S3fsArgsView
  <2> QED BY <1>12, <2>1, <2>2, <2>3, <2>4, S3fsArgsView
<1> QED BY <1>12 DEF ValidS3FS

(* A rejection has an option to blame.                                     *)
LEMMA RejectionOfPipeline == Pipeline => CustomOptionNeverRejects
<1> SUFFICES ASSUME Pipeline, stage = "rejected" PROVE mounter.kind = "s3fs" /\ Blamed
  BY DEF CustomOptionNeverRejects
<1>1. mounter.kind \in {"s3fs", "rclone"} /\ stage \in Posted /\ ~Validate
  BY KindView DEF Made, Posted, Pipeline, Verdict
<1>2. mounter.kind # "rclone"
  BY <1>1, RcloneValid DEF Validate
<1>3. ~ValidS3FS(payload.args)
  BY <1>1, <1>2 DEF Validate
<1> QED BY <1>1, <1>2, <1>3, S3fsValid

(* Every field that is posted is a text.                                   *)
LEMMA ArgsTyped ==
  ASSUME Pipeline
  PROVE  \A k \in DOMAIN payload.args : k \in Texts /\ payload.args[k] \in Texts
<1>1. CASE stage \notin Posted
  <2>1. payload = NoPayload
    BY <1>1 DEF Pipeline, PayloadMade
  <2> QED BY <2>1, EmptyMapView DEF NoPayload
<1>2. CASE stage \in Posted /\ mounter.kind = "rclone"
  <2> PICK args, gid, uid :
        /\ args = payload.args
        /\ gid = IF req.fsGroup # "" THEN req.fsGroup ELSE Lookup(secret, "gid")
        /\ uid = IF Lookup(secret, "uid") # "" THEN Lookup(secret, "uid") ELSE gid
    OBVIOUS
  <2>0. stage # "request"
    BY <1>2 DEF Posted
  <2>1. gid \in Texts /\ uid \in Texts
    <3>1. req.fsGroup \in Texts
      BY RequestsAssumption DEF Pipeline
    <3>2. Lookup(secret, "gid") \in Texts /\ Lookup(secret, "uid") \in Texts
      BY <2>0, LookupTexts
    <3> QED BY <3>1, <3>2
  <2>2. DOMAIN args \subseteq RCloneArgs
    BY <1>2, RcloneValid DEF ValidRClone
  <2>3. \A k \in DOMAIN args :
          args[k] \in {PasswdFile, "true", "/var/log/rclone.log", "writes", gid, uid}
    BY <1>2, RcloneArgsView
  <2>4. RCloneArgs \subseteq Texts
        /\ {PasswdFile, "true", "/var/log/rclone.log", "writes"} \subseteq Texts
    BY TextsAssumption
  <2> QED BY <2>1, <2>2, <2>3, <2>4
<1>3. CASE stage \in Posted /\ mounter.kind = "s3fs"
  <2>0. stage # "request"
    BY <1>3 DEF Posted
  <2>1. GetKnownS3FSOptions \subseteq Texts
    BY TextsAssumption
  <2>2. AuthOptions \cup FixedOptions \cup NodeCipher \subseteq GetKnownS3FSOptions
    BY DEF AuthOptions, FixedOptions, NodeCipher, GetKnownS3FSOptions, S3FSArgs,
           BoolOptions, IntOptions
  <2>3. /\ Lookup(secret, "iamEndpoint") \in Texts
        /\ Lookup(secret, "cosEndpoint") \in Texts
        /\ Lookup(secret, "locationConstraint") \in Texts
    BY <2>0, LookupTexts
  <2>4. {"true", "private", "002", "", "AESGCM", PasswdFile} \subseteq Texts
    BY TextsAssumption
  <2>5. \A k : AuthValue(k) \in Texts /\ FixedValue(k) \in Texts
    BY <2>3, <2>4 DEF AuthValue, FixedValue
  <2>6. TLSCipherSuite \in Texts
    BY <2>4, TextsAssumption
  <2>7. ASSUME NEW k \in DOMAIN Updated
        PROVE  k \in GetKnownS3FSOptions /\ Shown(k, Updated[k]) \in Texts
    <3>1. Updated[k] \in Seq(Texts) /\ Updated[k] # <<>> /\ k \in GetKnownS3FSOptions
      BY <2>0, UpdatedTyped DEF SomeValue
    <3>2. \A v \in Seq(Texts) : v # <<>> => v[1] \in Texts
      OBVIOUS
    <3> QED BY <2>4, <3>1, <3>2 DEF Shown
  <2>8. ASSUME NEW k \in DOMAIN payload.args PROVE k \in Texts /\ payload.args[k] \in Texts
    <3>1. CASE k \in AuthOptions
      BY <1>3, <2>1, <2>2, <2>5, <3>1, S3fsArgsView
    <3>2. CASE k \in DOMAIN Updated \ AuthOptions
      BY <1>3, <2>1, <2>7, <3>2, S3fsArgsView
    <3>3. CASE k \in NodeCipher \ DOMAIN Updated
      BY <1>3, <2>1, <2>2, <2>6, <3>3, S3fsArgsView
    <3>4. CASE k \in FixedOptions \ (AuthOptions \cup DOMAIN Updated \cup NodeCipher)
      BY <1>3, <2>1, <2>2, <2>5, <3>4, S3fsArgsView
    <3> QED BY <1>3, <2>8, <3>1, <3>2, <3>3, <3>4, S3fsArgsView
  <2> QED BY <2>8
<1>4. stage \in Posted => mounter.kind \in {"s3fs", "rclone"}
  BY KindView DEF Made, Posted
<1> QED BY <1>1, <1>2, <1>3, <1>4

(* Every option of the command line has a name and values of texts.        *)
LEMMA GivenTyped ==
  ASSUME Pipeline
  PROVE  /\ \A o \in Given : o.name \in Texts /\ o.val \in Seq(Texts)
         /\ \A i \in DOMAIN cmd.lead : cmd.lead[i].name \in {"ibm_iam_auth", "ibm_iam_endpoint"}
<1>1. ToSet(<<>>) = {} /\ DOMAIN <<>> = {}
  BY DEF ToSet
<1>2. \A k, v : Option(k, v).name = k /\ Option(k, v).val = v
  BY DEF Option
<1>3. \A x \in Texts : <<x>> \in Seq(Texts)
  OBVIOUS
<1>4. <<>> \in Seq(Texts)
  OBVIOUS
<1>5. CASE stage # "started"
  <2>1. cmd = NoCmd
    BY <1>5 DEF Pipeline, CmdMade
  <2>2. Given = {} /\ cmd.lead = <<>>
    BY <1>1, <2>1 DEF Given, NoCmd
  <2> QED BY <1>1, <2>2
<1>6. CASE stage = "started" /\ mounter.kind = "rclone"
  <2>1. ASSUME NEW o \in Given PROVE o.name \in Texts /\ o.val \in Seq(Texts)
    <3>1. PICK k \in DOMAIN payload.args : o = Option(k, <<payload.args[k]>>)
      BY <1>6, RcloneCmdView
    <3>2. o.name = k /\ o.val = <<payload.args[k]>>
      BY <1>2, <3>1
    <3>3. k \in Texts /\ payload.args[k] \in Texts
      BY ArgsTyped
    <3>4. <<payload.args[k]>> \in Seq(Texts)
      BY <1>3, <3>3
    <3> QED BY <3>2, <3>3, <3>4, Zenon
  <2>2. cmd.lead = <<>>
    BY <1>6, RcloneCmdView
  <2> QED BY <1>1, <2>1, <2>2
<1>7. CASE stage = "started" /\ mounter.kind = "s3fs"
  <2>1. ASSUME NEW o \in Given PROVE o.name \in Texts /\ o.val \in Seq(Texts)
    <3>1. CASE \E k \in DOMAIN payload.args : o \in Field(k)
      <4>1. PICK k \in DOMAIN payload.args : o \in Field(k)
        BY <3>1
      <4>2. k \in Texts /\ payload.args[k] \in Texts
        BY ArgsTyped
      <4>3. PICK v : o = Option(k, v) /\ v \in {<<>>, <<payload.args[k]>>}
        BY <4>1 DEF Field, Text
      <4>4. o.name = k /\ o.val = v
        BY <1>2, <4>3
      <4>5. v \in Seq(Texts)
        BY <1>3, <1>4, <4>2, <4>3
      <4> QED BY <4>2, <4>4, <4>5, Zenon
    <3>2. CASE \E x \in payload.extra : o \in Pieces(x)
      <4>1. PICK x \in payload.extra : o \in Pieces(x)
        BY <3>2
      <4>2. PICK k \in Mentioned : x = Custom(k)
        BY <1>7, CustomView DEF Posted
      <4>3. LastMention(k) \in OptionType /\ LastMention(k).name = k
        <5>1. PICK i \in DOMAIN Mentions : LastMention(k) = Mentions[i] /\ Mentions[i].name = k
          BY LastMentionView DEF Pipeline
        <5>2. Mentions \in Seq(OptionType)
          BY MentionsView DEF Pipeline
        <5>3. Mentions[i] \in OptionType
          BY <5>2
        <5> QED BY <5>1, <5>3, Zenon
      <4>4. k \in Texts /\ Merged[k] \in Seq(Texts)
        <5>1. k \in Texts /\ LastMention(k).val \in Seq(Texts)
          BY <4>3 DEF OptionType
        <5>2. Merged[k] = ValueOf(LastMention(k))
          BY <1>7, MergedView
        <5> QED BY <1>3, <4>3, <5>1, <5>2 DEF ValueOf
      <4>5. x \in OptionType
        BY <1>4, <4>2, <4>4 DEF Custom, Option, OptionType
      <4>6. o \in OptionType
        BY <4>1, <4>5, TextsAssumption DEF Pieces
      <4> QED BY <4>6 DEF OptionType
    <3> QED BY <1>7, <3>1, <3>2, S3fsCmdView
  <2> QED BY <1>7, <2>1, S3fsCmdView
<1>8. stage = "started" => mounter.kind \in {"s3fs", "rclone"}
  BY KindView DEF Made
<1> QED BY <1>5, <1>6, <1>7, <1>8

(* What the stages hold has its type.                                      *)
LEMMA TypeOfPipeline == Pipeline => TypeOK
<1> SUFFICES ASSUME Pipeline PROVE TypeOK
  OBVIOUS
<1>1. req \in Requests
      /\ stage \in {"request", "mounter", "mount", "posted", "started", "rejected", "invalid"}
  BY DEF Pipeline, Made
<1>2. /\ mounter.kind \in {"none", "s3fs", "rclone"}
      /\ stage = "started" => mounter.kind # "none" /\ secret["cosEndpoint"] # ""
  BY KindView DEF Made, Pipeline, EndpointKnown
<1> QED BY <1>1, <1>2, ArgsTyped, GivenTyped DEF TypeOK

(* Read-only whenever the access mode says so.                             *)
LEMMA ReadOnlyOfPipeline == Pipeline => ReadOnlyHolds
<1> SUFFICES ASSUME Pipeline, stage = "started", req.readOnlyMany
             PROVE  \/ mounter.kind = "s3fs" /\ Says("ro", {Option("ro", <<>>)})
                    \/ /\ mounter.kind = "rclone"
                       /\ GivenFor("read-only") = {Option("read-only", <<"true">>)}
  BY DEF ReadOnlyHolds
<1>1. stage \in Posted /\ stage # "request"
  BY DEF Posted
<1>2. CASE mounter.kind = "s3fs"
  <2>1. "ro" \in DOMAIN Updated /\ Updated["ro"] = <<"true">>
    BY <1>1, UpdatedView
  <2>2. "ro" \notin AuthOptions
    BY DEF AuthOptions
  <2>3. "ro" \in DOMAIN payload.args /\ payload.args["ro"] = Shown("ro", Updated["ro"])
    BY <1>1, <1>2, <2>1, <2>2, S3fsArgsView
  <2>4. Shown("ro", <<"true">>) = "true"
    BY DEF Shown
  <2>5. Field("ro") = {Option("ro", <<>>)}
    BY <2>1, <2>3, <2>4 DEF Field, Text
  <2>6. "ro" \in GetKnownS3FSOptions
    BY DEF GetKnownS3FSOptions, S3FSArgs, BoolOptions
  <2> QED BY <1>2, <2>5, <2>6, SaysView
<1>3. CASE mounter.kind = "rclone"
  <2> PICK args : args = payload.args
    OBVIOUS
  <2>1. "read-only" \in DOMAIN args /\ args["read-only"] = "true"
    BY <1>1, <1>3, RcloneArgsView
  <2>2. GivenFor("read-only") = {Option("read-only", <<args["read-only"]>>)}
    BY <1>3, <2>1, RcloneGivenFor
  <2> QED BY <1>3, <2>1, <2>2
<1>4. mounter.kind \in {"s3fs", "rclone"}
  BY KindView DEF Made
<1> QED BY <1>2, <1>3, <1>4

-----------------------------------------------------------------------------
(* The variables have their types: whatever the request, every field that  *)
(* is posted to the host and every option of the command line is a text,   *)
(* and a FUSE process is started for a known mounter and endpoint only.    *)
THEOREM TypeCorrect == Spec => []TypeOK
BY PipelineAlways, TypeOfPipeline, PTL

(* A ReadOnlyMany volume is mounted read-only for every list of options,   *)
(* secret, StorageClass and node.                                          *)
THEOREM ReadOnlyAlways == Spec => []ReadOnlyHolds
BY PipelineAlways, ReadOnlyOfPipeline, PTL

(* The files of a volume belong to the group of the pod, else of the       *)
(* secret, else of the options, and to the user asked for, else to the one *)
(* with the number of that group: for lists of options of any length, with *)
(* s3fs and with rclone.                                                   *)
THEOREM OwnerAlways == Spec => []OwnerHolds
BY PipelineAlways, OwnerOfPipeline, PTL

(* For lists of options of any length s3fs is told the last mention of     *)
(* each option that is plain, and nothing else of that option.             *)
THEOREM LastMentionAlways == Spec => []LastMentionWins
BY PipelineAlways, LastMentionOfPipeline, PTL

(* After the lines of the driver, the endpoint's among them, the config    *)
(* file of rclone has for each name of an option the last that is          *)
(* name=value, the secret's over the StorageClass's, for lists of options  *)
(* of any length.                                                          *)
THEOREM SecretLineAlways == Spec => []SecretLineWins
BY PipelineAlways, LinesOfPipeline, PTL

(* No custom option, whatever its text, makes the host reject a mount, and *)
(* no rclone mount is ever rejected.                                       *)
THEOREM CustomOptionAlways == Spec => []CustomOptionNeverRejects
BY PipelineAlways, RejectionOfPipeline, PTL
=============================================================================
