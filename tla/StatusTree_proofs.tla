-------------------------- MODULE StatusTree_proofs --------------------------
(***************************************************************************)
(* Proofs about StatusTree, for every set of paths and every mapping, of a *)
(* daemon that keeps values and mappings apart (Careful).                  *)
(*                                                                         *)
(* And proofs about ConfigMirror, for every set of addresses and any       *)
(* number of crashes: a daemon that says it is running shows what it was   *)
(* told.                                                                   *)
(***************************************************************************)
EXTENDS StatusTree, ConfigMirror, SequenceTheorems, WellFoundedInduction, TLAPS

\* Every non-empty set of natural numbers has a least element.
LEMMA Least ==
    ASSUME NEW T \in SUBSET Nat, T # {}
    PROVE  \E x \in T : \A y \in T : x <= y
<1> DEFINE R == OpToRel(<, Nat)
<1>1. IsWellFoundedOn(R, Nat)
    BY NatLessThanWellFounded
<1>2. PICK x \in T : \A y \in T : ~ (<<y, x>> \in R)
    <2> HIDE DEF R
    <2> QED
        BY <1>1, WFMin
<1>3. \A y \in T : y < x => <<y, x>> \in R
    BY DEF OpToRel
<1> HIDE DEF R
<1>4. \A y \in T : ~(y < x)
    BY <1>2, <1>3, Zenon
<1>5. QED
    BY <1>4
-----------------------------------------------------------------------------
(* Paths.  Keys is every sequence of keys; Under compares key by key.      *)

Keys == Seq(STRING)

\* The paths in use are sequences of keys.
LEMMA PathFacts ==
    /\ Names \subseteq Keys /\ Paths \subseteq Keys
    /\ Root \in Keys /\ Len(Root) = 0
    /\ \A p \in Keys : Len(p) \in Nat
    /\ \A p \in Keys : Len(p) = 0 <=> p = Root
    /\ \A p \in Names : Len(p) >= 1
<1>1. Root \in Keys /\ Len(Root) = 0 /\ \A p \in Keys : p # Root => Len(p) \in Nat \ {0}
    BY EmptySeq DEF Keys, Root
<1>2. \A p \in Keys : Len(p) \in Nat
    BY LenProperties DEF Keys
<1>3. Names \subseteq Keys /\ Paths \subseteq Keys /\ Root \notin Names
    BY <1>1, StatusAssumption DEF Keys, Paths
<1>4. QED
    BY <1>1, <1>2, <1>3

\* The first n keys of a path.
LEMMA FirstKeys ==
    ASSUME NEW p \in Keys, NEW n \in 0 .. Len(p)
    PROVE  /\ SubSeq(p, 1, n) \in Keys
           /\ Len(SubSeq(p, 1, n)) = n
           /\ \A i \in 1 .. n : SubSeq(p, 1, n)[i] = p[i]
<1>1. Len(p) \in Nat /\ n \in Nat
    BY PathFacts
<1>2. \A i \in 1 .. n : p[i] \in STRING
    BY <1>1, ElementOfSeq DEF Keys
<1>3. /\ SubSeq(p, 1, n) \in Seq(STRING)
      /\ Len(SubSeq(p, 1, n)) = IF 1 <= n THEN n - 1 + 1 ELSE 0
      /\ \A i \in 1 .. n - 1 + 1 : SubSeq(p, 1, n)[i] = p[1 + i - 1]
    BY <1>1, <1>2, SubSeqProperties
<1>4. QED
    BY <1>1, <1>3 DEF Keys

\* Under, key by key.
LEMMA UnderKeys ==
    ASSUME NEW p \in Keys, NEW q \in Keys
    PROVE  Under(p, q) <=> Len(q) <= Len(p) /\ \A i \in 1 .. Len(q) : p[i] = q[i]
<1>1. Len(p) \in Nat /\ Len(q) \in Nat
    BY PathFacts
<1>2. CASE Len(q) <= Len(p)
    <2> DEFINE s == SubSeq(p, 1, Len(q))
    <2>1. s \in Keys /\ Len(s) = Len(q) /\ \A i \in 1 .. Len(q) : s[i] = p[i]
        BY <1>1, <1>2, FirstKeys
    <2> HIDE DEF s
    <2>2. s = q <=> \A i \in 1 .. Len(q) : s[i] = q[i]
        BY <2>1, SeqEqual DEF Keys
    <2>3. Under(p, q) <=> s = q
        BY <1>2 DEF Under, s
    <2>4. QED
        BY <1>2, <2>1, <2>2, <2>3
<1>3. CASE ~(Len(q) <= Len(p))
    BY <1>3 DEF Under
<1>4. QED
    BY <1>2, <1>3

\* Under is a partial order.
LEMMA UnderOrder ==
    /\ \A p \in Keys : Under(p, p)
    /\ \A p, q \in Keys : Under(p, q) /\ Len(p) <= Len(q) => p = q
    /\ \A p, q, r \in Keys : Under(p, q) /\ Under(q, r) => Under(p, r)
<1>1. \A p \in Keys : Len(p) \in Nat
    BY PathFacts
<1>2. \A p \in Keys : Under(p, p)
    BY <1>1, UnderKeys
<1>3. ASSUME NEW p \in Keys, NEW q \in Keys, Under(p, q), Len(p) <= Len(q) PROVE p = q
    <2>1. Len(p) = Len(q) /\ \A i \in 1 .. Len(q) : p[i] = q[i]
        BY <1>1, <1>3, UnderKeys
    <2>2. QED
        BY <2>1, SeqEqual DEF Keys
<1>4. ASSUME NEW p \in Keys, NEW q \in Keys, NEW r \in Keys, Under(p, q), Under(q, r)
      PROVE  Under(p, r)
    <2>1. Len(q) <= Len(p) /\ \A i \in 1 .. Len(q) : p[i] = q[i]
        BY <1>4, UnderKeys
    <2>2. Len(r) <= Len(q) /\ \A i \in 1 .. Len(r) : q[i] = r[i]
        BY <1>4, UnderKeys
    <2>3. Len(r) <= Len(p) /\ \A i \in 1 .. Len(r) : p[i] = r[i]
        BY <1>1, <2>1, <2>2
    <2>4. QED
        BY <2>3, UnderKeys
<1>5. QED
    BY <1>2, <1>3, <1>4

\* The paths above a path are prefixes of each other.
LEMMA PrefixOfPrefix ==
    ASSUME NEW p \in Keys, NEW m \in 0 .. Len(p), NEW n \in 0 .. m
    PROVE  SubSeq(SubSeq(p, 1, m), 1, n) = SubSeq(p, 1, n)
<1>1. Len(p) \in Nat /\ m \in Nat /\ n \in Nat /\ n \in 0 .. Len(p)
    BY PathFacts
<1> DEFINE s == SubSeq(p, 1, m)
<1> DEFINE t == SubSeq(p, 1, n)
<1>2. s \in Keys /\ Len(s) = m /\ \A i \in 1 .. m : s[i] = p[i]
    BY <1>1, FirstKeys
<1>3. t \in Keys /\ Len(t) = n /\ \A i \in 1 .. n : t[i] = p[i]
    BY <1>1, FirstKeys
<1> HIDE DEF s, t
<1>4. Under(s, t)
    BY <1>1, <1>2, <1>3, UnderKeys
<1>5. SubSeq(s, 1, Len(t)) = t
    BY <1>4 DEF Under
<1>6. QED
    BY <1>3, <1>5 DEF s, t

\* What Parent(p) is, for a path of a mapping.
LEMMA ParentFacts ==
    ASSUME NEW p \in Keys, p # Root
    PROVE  /\ Parent(p) \in Keys
           /\ Len(Parent(p)) = Len(p) - 1
           /\ Under(p, Parent(p))
           /\ \A q \in Keys : Under(p, q) /\ q # p => Under(Parent(p), q)
<1>1. Len(p) \in Nat \ {0}
    BY PathFacts
<1>2. Len(p) - 1 \in 0 .. Len(p)
    BY <1>1
<1>3. /\ Parent(p) \in Keys /\ Len(Parent(p)) = Len(p) - 1
      /\ \A i \in 1 .. Len(p) - 1 : Parent(p)[i] = p[i]
    BY <1>2, FirstKeys DEF Parent
<1>4. Under(p, Parent(p))
    BY <1>1, <1>3, UnderKeys
<1>5. ASSUME NEW q \in Keys, Under(p, q), q # p PROVE Under(Parent(p), q)
    <2>1. Len(q) \in Nat /\ Len(q) <= Len(p) /\ \A i \in 1 .. Len(q) : p[i] = q[i]
        BY <1>5, UnderKeys, PathFacts
    <2>2. ~(Len(p) <= Len(q))
        BY <1>5, UnderOrder
    <2>3. Len(q) <= Len(p) - 1
        BY <1>1, <2>1, <2>2
    <2>4. \A i \in 1 .. Len(q) : Parent(p)[i] = q[i]
        BY <1>1, <1>3, <2>1, <2>3
    <2>5. QED
        BY <1>3, <2>3, <2>4, UnderKeys
<1>6. QED
    BY <1>3, <1>4, <1>5

\* Every mapping above a path in use is in use.
LEMMA AboveIsName ==
    ASSUME NEW p \in Names, NEW k \in 1 .. Len(p)
    PROVE  SubSeq(p, 1, k) \in Names
<1> DEFINE T == {m \in Nat : m < Len(p) /\ SubSeq(p, 1, Len(p) - m) \notin Names}
<1>1. p \in Keys /\ Len(p) \in Nat
    BY PathFacts
<1>2. SUFFICES ASSUME SubSeq(p, 1, k) \notin Names PROVE FALSE
    OBVIOUS
<1>3. Len(p) - k \in Nat /\ Len(p) - (Len(p) - k) = k /\ Len(p) - k < Len(p)
    BY <1>1
<1>4. Len(p) - k \in T
    BY <1>2, <1>3
<1>5. T \in SUBSET Nat /\ T # {}
    BY <1>4
<1>6. PICK m \in T : \A y \in T : m <= y
    <2> HIDE DEF T
    <2> QED
        BY <1>5, Least
<1>7. m \in Nat /\ m < Len(p) /\ SubSeq(p, 1, Len(p) - m) \notin Names
    BY <1>6
<1>8. m # 0
    <2>1. SUFFICES ASSUME m = 0 PROVE FALSE
        OBVIOUS
    <2>2. Under(p, p) /\ Len(p) - 0 = Len(p)
        BY <1>1, UnderOrder
    <2>3. QED
        BY <1>7, <2>1, <2>2 DEF Under
<1> DEFINE j == Len(p) - (m - 1)
<1>9. /\ m - 1 \in Nat /\ m - 1 < Len(p) /\ ~(m <= m - 1)
      /\ j \in 0 .. Len(p) /\ j - 1 = Len(p) - m /\ Len(p) - m \in 0 .. j
      /\ j - 1 # 0
    BY <1>1, <1>7, <1>8
<1>10. SubSeq(p, 1, j) \in Names
    BY <1>6, <1>9
<1>11. Parent(SubSeq(p, 1, j)) = SubSeq(p, 1, Len(p) - m)
    <2> HIDE DEF j
    <2>1. Len(SubSeq(p, 1, j)) = j
        BY <1>1, <1>9, FirstKeys
    <2>2. SubSeq(SubSeq(p, 1, j), 1, Len(p) - m) = SubSeq(p, 1, Len(p) - m)
        BY <1>1, <1>9, PrefixOfPrefix
    <2>3. QED
        BY <1>9, <2>1, <2>2 DEF Parent
<1>12. SubSeq(p, 1, Len(p) - m) \in Paths
    BY <1>10, <1>11, StatusAssumption
<1>13. SubSeq(p, 1, Len(p) - m) # Root
    <2>1. Len(p) - m \in 0 .. Len(p) /\ Len(p) - m # 0
        BY <1>1, <1>7
    <2>2. Len(SubSeq(p, 1, Len(p) - m)) = Len(p) - m
        BY <1>1, <2>1, FirstKeys
    <2>3. QED
        BY <2>1, <2>2, PathFacts
<1>14. QED
    BY <1>7, <1>12, <1>13 DEF Paths

\* Between a path in use and a mapping above it there is a key of that mapping.
LEMMA NextStep ==
    ASSUME NEW p \in Names, NEW q \in Keys, Under(p, q), p # q
    PROVE  \E r \in Names : Under(p, r) /\ Under(r, q) /\ Len(r) = Len(q) + 1
<1>1. p \in Keys /\ Len(p) \in Nat /\ Len(q) \in Nat
    BY PathFacts
<1>2. Len(q) <= Len(p) /\ \A i \in 1 .. Len(q) : p[i] = q[i]
    BY <1>1, UnderKeys
<1>3. ~(Len(p) <= Len(q))
    BY <1>1, UnderOrder
<1> DEFINE r == SubSeq(p, 1, Len(q) + 1)
<1>4. Len(q) + 1 \in 1 .. Len(p) /\ Len(q) + 1 \in 0 .. Len(p)
    BY <1>1, <1>2, <1>3
<1>5. r \in Names
    BY <1>4, AboveIsName
<1>6. r \in Keys /\ Len(r) = Len(q) + 1 /\ \A i \in 1 .. Len(q) + 1 : r[i] = p[i]
    BY <1>1, <1>4, FirstKeys
<1> HIDE DEF r
<1>7. Len(r) <= Len(p) /\ \A i \in 1 .. Len(r) : p[i] = r[i]
    BY <1>4, <1>6
<1>8. Under(p, r)
    BY <1>1, <1>6, <1>7, UnderKeys
<1>9. Len(q) <= Len(r) /\ \A i \in 1 .. Len(q) : r[i] = q[i]
    BY <1>1, <1>2, <1>6
<1>10. Under(r, q)
    BY <1>6, <1>9, UnderKeys
<1>11. QED
    BY <1>5, <1>6, <1>8, <1>10

\* Two paths below one node compare as what is left of them.
LEMMA SameNode ==
    ASSUME NEW n \in Keys, NEW p \in Keys, NEW q \in Keys, Under(n \o p, n \o q)
    PROVE  Under(p, q)
<1>1. Len(n) \in Nat /\ Len(p) \in Nat /\ Len(q) \in Nat
    BY PathFacts
<1>2. /\ n \o p \in Keys /\ Len(n \o p) = Len(n) + Len(p)
      /\ \A i \in 1 .. Len(n) + Len(p) :
            (n \o p)[i] = IF i <= Len(n) THEN n[i] ELSE p[i - Len(n)]
    BY ConcatProperties DEF Keys
<1>3. /\ n \o q \in Keys /\ Len(n \o q) = Len(n) + Len(q)
      /\ \A i \in 1 .. Len(n) + Len(q) :
            (n \o q)[i] = IF i <= Len(n) THEN n[i] ELSE q[i - Len(n)]
    BY ConcatProperties DEF Keys
<1>4. /\ Len(n \o q) <= Len(n \o p)
      /\ \A i \in 1 .. Len(n \o q) : (n \o p)[i] = (n \o q)[i]
    BY <1>2, <1>3, UnderKeys
<1>5. Len(q) <= Len(p)
    BY <1>1, <1>2, <1>3, <1>4
<1>6. ASSUME NEW i \in 1 .. Len(q) PROVE p[i] = q[i]
    <2> DEFINE j == Len(n) + i
    <2>1. /\ j \in 1 .. Len(n) + Len(q) /\ j \in 1 .. Len(n) + Len(p)
          /\ ~(j <= Len(n)) /\ j - Len(n) = i
        BY <1>1, <1>5
    <2> HIDE DEF j
    <2>2. (n \o p)[j] = p[i] /\ (n \o q)[j] = q[i]
        BY <1>2, <1>3, <2>1
    <2>3. (n \o p)[j] = (n \o q)[j]
        BY <1>3, <1>4, <2>1
    <2>4. QED
        BY <2>2, <2>3
<1>7. QED
    BY <1>5, <1>6, UnderKeys
-----------------------------------------------------------------------------
(* The index                                                               *)

\* The index of a status: every value, and every mapping above one.
Index(S) == UNION {Upto(p) : p \in S}

\* A path is in the index when a value is there or below it.
LEMMA IndexMember ==
    ASSUME NEW S \in SUBSET Names, NEW q
    PROVE  q \in Index(S) <=> q \in Names /\ \E p \in S : Under(p, q)
BY DEF Index, Upto

\* A mapping that lists nothing has nothing below it.
LEMMA NothingBelow ==
    ASSUME NEW S \in SUBSET Names, NEW q \in Keys, Below(Index(S), q) = {},
           NEW s \in S, Under(s, q)
    PROVE  s = q
<1>1. SUFFICES ASSUME s # q PROVE FALSE
    OBVIOUS
<1>2. PICK r \in Names : Under(s, r) /\ Under(r, q) /\ Len(r) = Len(q) + 1
    BY <1>1, NextStep
<1>3. r \in Index(S)
    BY <1>2, IndexMember
<1>4. QED
    BY <1>2, <1>3 DEF Below

\* _del_path leaves the index of what is left, when nothing is below the path
\* and no value is above it.
LEMMA DelPathMatches ==
    ASSUME NEW S \in SUBSET Names, NEW p \in Names,
           Below(Index(S), p) = {},
           \A s \in S : Under(p, s) => s = p
    PROVE  DelPath(Index(S), p) = Index(S \ {p})
<1> DEFINE Gone(q) == \A r \in Index(S) : q # p /\ r # q /\ Under(r, q) => Under(p, r)
<1>1. Names \subseteq Keys /\ S \ {p} \in SUBSET Names
    BY PathFacts
<1>2. \A s \in S : Under(s, p) => s = p
    BY <1>1, NothingBelow
<1>3. \A s \in S : s \in Index(S)
    BY <1>1, UnderOrder, IndexMember
<1>4. ASSUME NEW q \in Index(S), ~Under(p, q) PROVE q \in Index(S \ {p})
    <2>1. PICK s \in S : Under(s, q)
        BY IndexMember
    <2>2. q \in Names /\ s \in S \ {p}
        BY <1>4, <2>1, IndexMember
    <2>3. QED
        BY <1>1, <2>1, <2>2, IndexMember
<1>5. ASSUME NEW q \in Index(S), Under(p, q), ~Gone(q) PROVE q \in Index(S \ {p})
    <2>1. PICK r \in Index(S) : r # q /\ Under(r, q) /\ ~Under(p, r)
        BY <1>5
    <2>2. r \in Names /\ q \in Names
        BY IndexMember
    <2>3. PICK s \in S : Under(s, r)
        BY IndexMember
    <2>4. s \in S \ {p} /\ Under(s, q)
        BY <1>1, <2>1, <2>2, <2>3, UnderOrder
    <2>5. QED
        BY <1>1, <2>2, <2>4, IndexMember
<1>6. ASSUME NEW q \in Index(S \ {p}) PROVE q \in Index(S) /\ (Under(p, q) => ~Gone(q))
    <2>1. PICK s \in S \ {p} : Under(s, q)
        BY <1>1, IndexMember
    <2>2. q \in Names
        BY <1>1, IndexMember
    <2>3. q \in Index(S)
        BY <2>1, <2>2, IndexMember
    <2>4. ASSUME Under(p, q) PROVE ~Gone(q)
        <3>1. q # p
            BY <1>2, <2>1
        <3>2. s # q /\ ~Under(p, s)
            BY <1>2, <2>1, <2>4
        <3>3. s \in Index(S)
            BY <1>3, <2>1
        <3>4. QED
            BY <2>1, <3>1, <3>2, <3>3
    <2>5. QED
        BY <2>3, <2>4
<1>7. \A q \in Index(S) : q \in Names
    BY IndexMember
<1>8. DelPath(Index(S), p) = {q \in Index(S) : ~(Under(p, q) /\ Gone(q))}
    BY <1>7 DEF DelPath, Upto
<1> HIDE DEF Gone
<1>9. QED
    BY <1>4, <1>5, <1>6, <1>8
-----------------------------------------------------------------------------
(* The invariant of a careful daemon                                       *)

\* No path of R is above or below a path of S.
Apart(S, R) == \A p \in S, q \in R : Comparable(p, q) => p = q

\* What is left of an update is apart from the values and from each other.
UpdateInv == op = "update" => Apart(todo, status \cup todo)

\* The recursion of clear() and del stays below its target, and no value is above.
RemoveInv ==
    op \in {"clear", "delete"} =>
        /\ Under(at, target)
        /\ op = "delete" => target \in Names
        /\ \A s \in status : Under(at, s) => s = at

\* A value that lasts is shown, or the command has a mapping above it to enter.
ShowInv ==
    /\ lasting \subseteq status
    /\ show = "reading" =>
        \A p \in lasting : /\ Upto(p) \subseteq known
                           /\ p \in shown \/ \E q \in pending : Under(p, q)
    /\ ShowComplete

DaemonInv ==
    /\ listed = Index(status)
    /\ Apart(status, status)
    /\ UpdateInv
    /\ RemoveInv

TreeInv == TypeOK /\ DaemonInv /\ ShowInv

\* The daemon's steps: what the command still has to show is not affected.
LEMMA ShowFrame ==
    ASSUME ShowInv, UNCHANGED showVars, lasting' \subseteq lasting, lasting' \subseteq status'
    PROVE  ShowInv'
BY DEF ShowInv, ShowComplete, showVars, Upto, Under

\* The command's steps: the daemon is not affected.
LEMMA DaemonFrame ==
    ASSUME DaemonInv, UNCHANGED <<status, daemonVars>>
    PROVE  DaemonInv'
BY DEF DaemonInv, daemonVars, Index, Upto, Under, Apart, Comparable, UpdateInv, RemoveInv

\* A new value keeps the index, when it is apart from the others.
LEMMA WriteKeeps ==
    ASSUME NEW S \in SUBSET Names, NEW p \in Names, Apart(S, S),
           \A q \in S : q = p \/ ~Comparable(q, p)
    PROVE  /\ AddPath(Index(S), p) = Index(S \cup {p})
           /\ Apart(S \cup {p}, S \cup {p})
<1>1. AddPath(Index(S), p) = Index(S \cup {p})
    BY DEF AddPath, Index
<1>2. Apart(S \cup {p}, S \cup {p})
    BY DEF Apart, Comparable
<1>3. QED
    BY <1>1, <1>2

\* mapping[key] = value
LEMMA SetItemKeeps ==
    ASSUME Careful, TreeInv, NEW p \in Names, SetItem(p)
    PROVE  TreeInv'
<1>1. TypeOK'
    BY DEF TreeInv, TypeOK, SetItem, AddPath, Upto, Write, showVars
<1>2. listed' = Index(status \cup {p}) /\ Apart(status', status') /\ status' = status \cup {p}
    BY WriteKeeps DEF TreeInv, TypeOK, DaemonInv, SetItem, Settable, Write
<1>3. op' = "none"
    BY DEF SetItem
<1>4. DaemonInv'
    BY <1>2, <1>3 DEF DaemonInv, UpdateInv, RemoveInv
<1>5. ShowInv'
    BY ShowFrame DEF TreeInv, ShowInv, SetItem, Write
<1>6. QED
    BY <1>1, <1>4, <1>5 DEF TreeInv

\* del mapping[key]
LEMMA DelItemKeeps ==
    ASSUME Careful, TreeInv, NEW p \in Names, DelItem(p)
    PROVE  TreeInv'
<1>1. TypeOK'
    BY DEF TreeInv, TypeOK, DelItem, Paths, showVars
<1>2. Names \subseteq Keys /\ p # Root /\ status \subseteq Names
    BY StatusAssumption, PathFacts DEF TreeInv, TypeOK
<1>3. \A s \in status : Under(p, s) => s = p
    BY <1>2, ParentFacts DEF DelItem, Usable
<1>4. Under(p, p)
    BY <1>2, UnderOrder
<1>5. DaemonInv'
    BY <1>3, <1>4 DEF TreeInv, DaemonInv, DelItem, UpdateInv, RemoveInv
<1>6. ShowInv'
    BY ShowFrame DEF TreeInv, ShowInv, DelItem
<1>7. QED
    BY <1>1, <1>5, <1>6 DEF TreeInv

\* mapping.clear()
LEMMA ClearKeeps ==
    ASSUME Careful, TreeInv, NEW n \in nodes, Clear(n)
    PROVE  TreeInv'
<1>1. TypeOK'
    BY DEF TreeInv, TypeOK, Clear, showVars
<1>2. Under(n, n)
    BY PathFacts, UnderOrder DEF TreeInv, TypeOK
<1>3. DaemonInv'
    BY <1>2 DEF TreeInv, DaemonInv, Clear, Usable, UpdateInv, RemoveInv
<1>4. ShowInv'
    BY ShowFrame DEF TreeInv, ShowInv, Clear
<1>5. QED
    BY <1>1, <1>3, <1>4 DEF TreeInv

\* The recursion goes down to a mapping that is listed: no value is above it.
LEMMA DescendKeeps ==
    ASSUME TreeInv, Descend
    PROVE  TreeInv'
<1>1. at' \in listed /\ Under(at', at) /\ listed = Index(status) /\ status \in SUBSET Names
    BY DEF Descend, Below, TreeInv, DaemonInv, TypeOK
<1>2. TypeOK'
    BY <1>1 DEF TreeInv, TypeOK, Descend, Paths, showVars
<1>3. at \in Keys /\ at' \in Keys /\ target \in Keys /\ Names \subseteq Keys
    BY <1>2, PathFacts DEF TreeInv, TypeOK
<1>4. PICK t \in status : Under(t, at')
    BY <1>1, IndexMember
<1>5. ASSUME NEW s \in status, Under(at', s) PROVE s = at'
    <2>1. s \in Keys /\ t \in Keys
        BY <1>1, <1>3
    <2>2. Under(t, s)
        BY <1>3, <1>4, <1>5, <2>1, UnderOrder
    <2>3. t = s
        BY <2>2 DEF TreeInv, DaemonInv, Apart, Comparable
    <2>4. Len(s) <= Len(at')
        BY <1>5 DEF Under
    <2>5. Len(at') <= Len(s)
        BY <1>4, <2>3 DEF Under
    <2>6. QED
        BY <1>3, <1>5, <2>1, <2>5, UnderOrder
<1>6. Under(at', target)
    BY <1>1, <1>3, UnderOrder DEF TreeInv, DaemonInv, RemoveInv, Descend
<1>7. DaemonInv'
    BY <1>5, <1>6 DEF TreeInv, DaemonInv, Descend, UpdateInv, RemoveInv
<1>8. ShowInv'
    BY ShowFrame DEF TreeInv, ShowInv, Descend
<1>9. QED
    BY <1>2, <1>7, <1>8 DEF TreeInv

\* What is removed at the end of a recursion is the path that was cleared.
LEMMA AscendRemoves ==
    ASSUME TreeInv, Ascend, ~(op = "clear" /\ at = target)
    PROVE  /\ at \in Names
           /\ listed' = DelPath(listed, at)
           /\ status' = status \ {at} /\ lasting' = lasting \ {at}
<1>1. at \in Paths /\ target \in Paths
    BY DEF TreeInv, TypeOK
<1>2. at # Root
    <2>1. SUFFICES ASSUME at = Root PROVE FALSE
        OBVIOUS
    <2>2. Under(Root, target)
        BY <2>1 DEF TreeInv, DaemonInv, RemoveInv, Ascend
    <2>3. Len(target) <= Len(Root)
        BY <2>2 DEF Under
    <2>4. target = Root
        BY <1>1, <2>3, PathFacts
    <2>5. op = "delete" /\ target \in Names
        BY <2>1, <2>4 DEF TreeInv, DaemonInv, RemoveInv, Ascend
    <2>6. QED
        BY <2>4, <2>5, StatusAssumption
<1>3. QED
    BY <1>1, <1>2 DEF Paths, Ascend, Remove

\* The end of a recursion
LEMMA AscendKeeps ==
    ASSUME TreeInv, Ascend
    PROVE  TreeInv'
<1>1. /\ listed = Index(status) /\ status \in SUBSET Names /\ Names \subseteq Keys
      /\ at \in Paths /\ target \in Paths /\ at \in Keys /\ target \in Keys
      /\ Apart(status, status)
    BY PathFacts DEF TreeInv, DaemonInv, TypeOK
<1>2. /\ Under(at, target) /\ \A s \in status : Under(at, s) => s = at
      /\ Below(listed, at) = {} /\ op \in {"clear", "delete"}
    BY DEF TreeInv, DaemonInv, RemoveInv, Ascend
<1>3. CASE op = "clear" /\ at = target
    <2>1. TypeOK'
        BY <1>3 DEF TreeInv, TypeOK, Ascend, Return, Paths, showVars
    <2>2. DaemonInv'
        BY <1>3 DEF TreeInv, DaemonInv, UpdateInv, RemoveInv, Ascend, Return
    <2>3. ShowInv'
        BY <1>3, ShowFrame DEF TreeInv, ShowInv, Ascend
    <2>4. QED
        BY <2>1, <2>2, <2>3 DEF TreeInv
<1>4. CASE ~(op = "clear" /\ at = target)
    <2>1. /\ at \in Names
          /\ listed' = DelPath(listed, at)
          /\ status' = status \ {at} /\ lasting' = lasting \ {at}
        BY <1>4, AscendRemoves
    <2>2. listed' = Index(status')
        BY <1>1, <1>2, <2>1, DelPathMatches
    <2>3. at # target => /\ at' = Parent(at) /\ UNCHANGED <<op, target, todo>>
                         /\ Parent(at) \in Paths
        BY <2>1, StatusAssumption DEF Ascend
    <2>4. at = target => op' = "none" /\ target' = Root /\ at' = Root /\ todo' = {}
        BY DEF Ascend, Return
    <2>5. TypeOK'
        <3>1. /\ status' \in SUBSET Names /\ listed' \in SUBSET Names
              /\ lasting' \in SUBSET Names
            BY <2>1 DEF TreeInv, TypeOK, DelPath
        <3>2. /\ op' \in {"none", "clear", "delete", "update"}
              /\ target' \in Paths /\ at' \in Paths /\ todo' \in SUBSET Names
            BY <2>3, <2>4 DEF TreeInv, TypeOK, Paths
        <3>3. QED
            BY <3>1, <3>2 DEF TreeInv, TypeOK, Ascend, showVars
    <2>6. Apart(status', status')
        BY <1>1, <2>1 DEF Apart
    <2>7. UpdateInv' /\ RemoveInv'
        <3>1. CASE at = target
            BY <2>4, <3>1 DEF UpdateInv, RemoveInv
        <3>2. CASE at # target
            <4>1. at # Root
                BY <2>1, StatusAssumption
            <4>2. /\ Parent(at) \in Keys /\ Under(at, Parent(at)) /\ Under(Parent(at), target)
                BY <1>1, <1>2, <3>2, <4>1, ParentFacts
            <4>3. \A s \in status' : ~Under(Parent(at), s)
                BY <1>1, <1>2, <2>1, <4>2, UnderOrder
            <4>4. op = "delete" => target \in Names
                BY DEF TreeInv, DaemonInv, RemoveInv, Ascend
            <4>5. RemoveInv'
                BY <2>3, <3>2, <4>2, <4>3, <4>4 DEF RemoveInv
            <4>6. UpdateInv'
                BY <1>2, <2>3, <3>2 DEF UpdateInv
            <4>7. QED
                BY <4>5, <4>6
        <3>3. QED
            BY <3>1, <3>2
    <2>8. ShowInv'
        <3>1. lasting' \subseteq lasting /\ lasting' \subseteq status'
            BY <2>1 DEF TreeInv, ShowInv
        <3>2. QED
            BY <3>1, ShowFrame DEF TreeInv, Ascend
    <2>9. QED
        BY <2>2, <2>5, <2>6, <2>7, <2>8 DEF TreeInv, DaemonInv
<1>5. QED
    BY <1>3, <1>4

\* mapping.deepupdate(other)
LEMMA DeepUpdateKeeps ==
    ASSUME Careful, TreeInv, NEW n \in nodes, NEW u \in Updates, DeepUpdate(n, u)
    PROVE  TreeInv'
<1>1. TypeOK'
    BY DEF TreeInv, TypeOK, DeepUpdate, showVars
<1>2. u \subseteq Keys /\ n \in Keys /\ \A p, q \in u : Comparable(p, q) => p = q
    BY StatusAssumption, PathFacts DEF TreeInv, TypeOK, Keys
<1>3. /\ op' = "update" /\ todo' = {n \o p : p \in u} /\ UNCHANGED <<status, listed>>
      /\ \A p \in u, q \in status : q = n \o p \/ ~Comparable(q, n \o p)
    BY DEF DeepUpdate, Settable
<1>4. ASSUME NEW p \in u, NEW q \in u, Comparable(n \o p, n \o q) PROVE p = q
    <2>1. p \in Keys /\ q \in Keys
        BY <1>2
    <2>2. Under(p, q) \/ Under(q, p)
        BY <1>2, <1>4, <2>1, SameNode DEF Comparable
    <2>3. QED
        BY <1>2, <2>2 DEF Comparable
<1>5. Apart(todo', status' \cup todo')
    <2>1. ASSUME NEW p \in todo', NEW q \in status', Comparable(p, q) PROVE p = q
        BY <1>3, <2>1 DEF Comparable
    <2>2. ASSUME NEW p \in todo', NEW q \in todo', Comparable(p, q) PROVE p = q
        BY <1>3, <1>4, <2>2
    <2>3. QED
        BY <2>1, <2>2 DEF Apart
<1>6. DaemonInv'
    BY <1>3, <1>5 DEF TreeInv, DaemonInv, UpdateInv, RemoveInv
<1>7. ShowInv'
    BY ShowFrame DEF TreeInv, ShowInv, DeepUpdate
<1>8. QED
    BY <1>1, <1>6, <1>7 DEF TreeInv

\* One value of the mapping
LEMMA UpdateOneKeeps ==
    ASSUME TreeInv, UpdateOne
    PROVE  TreeInv'
<1>1. Apart(todo, status \cup todo) /\ status \in SUBSET Names /\ todo \in SUBSET Names
    BY DEF TreeInv, DaemonInv, TypeOK, UpdateInv, UpdateOne
<1>2. CASE Return /\ UNCHANGED <<status, listed, lasting>>
    <2>1. TypeOK'
        BY <1>2 DEF TreeInv, TypeOK, UpdateOne, Return, Paths, showVars
    <2>2. DaemonInv'
        BY <1>2 DEF TreeInv, DaemonInv, UpdateInv, RemoveInv, Return
    <2>3. ShowInv'
        BY <1>2, ShowFrame DEF TreeInv, ShowInv, UpdateOne
    <2>4. QED
        BY <2>1, <2>2, <2>3 DEF TreeInv
<1>3. ASSUME NEW p \in todo,
             listed' = AddPath(listed, p), Write(p), todo' = todo \ {p},
             UNCHANGED <<op, target, at>>
      PROVE  TreeInv'
    <2>1. p \in Names /\ status' = status \cup {p} /\ UNCHANGED lasting
        BY <1>1, <1>3 DEF Write
    <2>2. TypeOK'
        BY <1>3, <2>1 DEF TreeInv, TypeOK, UpdateOne, AddPath, Upto, showVars
    <2>3. \A q \in status : q = p \/ ~Comparable(q, p)
        BY <1>1 DEF Apart, Comparable
    <2>4. listed' = Index(status') /\ Apart(status', status')
        BY <1>1, <1>3, <2>1, <2>3, WriteKeeps DEF TreeInv, DaemonInv
    <2>5. Apart(todo', status' \cup todo')
        BY <1>1, <1>3, <2>1 DEF Apart
    <2>6. DaemonInv'
        BY <1>3, <2>4, <2>5 DEF DaemonInv, UpdateInv, RemoveInv, UpdateOne
    <2>7. ShowInv'
        BY <2>1, ShowFrame DEF TreeInv, ShowInv, UpdateOne
    <2>8. QED
        BY <2>2, <2>6, <2>7 DEF TreeInv
<1>4. QED
    BY <1>2, <1>3 DEF UpdateOne

\* The daemon is killed, and starts again.
LEMMA RestartKeeps ==
    ASSUME TreeInv, Restart
    PROVE  TreeInv'
<1>1. listed' = Index(status') /\ status' = status /\ op' = "none"
    BY DEF Restart, Index, Return
<1>2. restarts' \in 0 .. MaxRestarts
    BY StatusAssumption DEF TreeInv, TypeOK, Restart
<1>3. TypeOK'
    BY <1>2 DEF TreeInv, TypeOK, Restart, Return, Paths, Upto, showVars
<1>4. DaemonInv'
    BY <1>1 DEF TreeInv, DaemonInv, Apart, Comparable, Under, UpdateInv, RemoveInv
<1>5. ShowInv'
    BY ShowFrame DEF TreeInv, ShowInv, Restart
<1>6. QED
    BY <1>3, <1>4, <1>5 DEF TreeInv

\* The command builds its index: the first key of every value is to be looked up.
LEMMA ShowBeginKeeps ==
    ASSUME TreeInv, ShowBegin
    PROVE  TreeInv'
<1>1. /\ known' = UNION {AddPath({}, p) : p \in status}
      /\ pending' = Below(known', Root)
      /\ lasting' = status /\ status' = status /\ status \in SUBSET Names
      /\ show' = "reading"
    BY DEF ShowBegin, TreeInv, TypeOK
<1>2. TypeOK'
    BY <1>1 DEF TreeInv, TypeOK, ShowBegin, AddPath, Upto, Below, daemonVars
<1>3. ASSUME NEW p \in status
      PROVE  Upto(p) \subseteq known' /\ \E q \in pending' : Under(p, q)
    <2>1. p \in Names /\ p \in Keys /\ p # Root /\ Root \in Keys /\ Len(Root) = 0
        BY <1>1, PathFacts, StatusAssumption
    <2>2. Under(p, Root)
        BY <2>1, UnderKeys, PathFacts
    <2>3. PICK r \in Names : Under(p, r) /\ Under(r, Root) /\ Len(r) = Len(Root) + 1
        BY <2>1, <2>2, NextStep
    <2>4. Upto(p) \subseteq known'
        BY <1>1 DEF AddPath
    <2>5. r \in Upto(p)
        BY <2>3 DEF Upto
    <2>6. QED
        BY <1>1, <2>3, <2>4, <2>5 DEF Below
<1>4. ShowInv'
    BY <1>1, <1>3 DEF ShowInv, ShowComplete, Upto, Under
<1>5. DaemonInv'
    BY DaemonFrame DEF TreeInv, ShowBegin
<1>6. QED
    BY <1>2, <1>4, <1>5 DEF TreeInv

\* A path is looked up: the value is found, or the mapping above it is entered.
LEMMA ShowItemKeeps ==
    ASSUME TreeInv, ShowItem
    PROVE  TreeInv'
<1>1. PICK q \in pending :
        IF q \in status
        THEN shown' = shown \cup {q} /\ pending' = pending \ {q}
        ELSE pending' = (pending \ {q}) \cup Below(known, q) /\ UNCHANGED shown
    BY DEF ShowItem, Entered
<1>2. /\ show = "reading" /\ UNCHANGED <<status, daemonVars, show, known, lasting, restarts>>
      /\ pending \in SUBSET Names /\ known \in SUBSET Names /\ status \in SUBSET Names
    BY DEF ShowItem, TreeInv, TypeOK
<1>3. TypeOK'
    <2>1. pending' \in SUBSET Names /\ shown' \in SUBSET Names
        BY <1>1, <1>2 DEF TreeInv, TypeOK, Below
    <2>2. QED
        BY <1>2, <2>1 DEF TreeInv, TypeOK, daemonVars
<1>4. ASSUME NEW p \in lasting PROVE p \in shown' \/ \E r \in pending' : Under(p, r)
    <2>1. p \in status /\ p \in Names /\ q \in Names /\ q \in Keys /\ Upto(p) \subseteq known
        BY <1>2, PathFacts DEF TreeInv, ShowInv
    <2>2. CASE p \in shown
        BY <1>1, <2>2
    <2>3. CASE \E r \in pending : Under(p, r) /\ r # q
        BY <1>1, <2>3
    <2>4. CASE Under(p, q) /\ q \in status
        <3>1. p = q
            BY <2>1, <2>4 DEF TreeInv, DaemonInv, Apart, Comparable
        <3>2. QED
            BY <1>1, <2>4, <3>1
    <2>5. CASE Under(p, q) /\ q \notin status
        <3>1. PICK r \in Names : Under(p, r) /\ Under(r, q) /\ Len(r) = Len(q) + 1
            BY <2>1, <2>5, NextStep
        <3>2. r \in Below(known, q)
            BY <2>1, <3>1 DEF Upto, Below
        <3>3. QED
            BY <1>1, <2>5, <3>1, <3>2
    <2>6. QED
        BY <1>2, <2>2, <2>3, <2>4, <2>5 DEF TreeInv, ShowInv
<1>5. ShowInv'
    BY <1>2, <1>4 DEF TreeInv, ShowInv, ShowComplete, Upto, Under
<1>6. DaemonInv'
    BY <1>2, DaemonFrame DEF TreeInv
<1>7. QED
    BY <1>3, <1>5, <1>6 DEF TreeInv

\* The steps that only give the daemon a node, or end or print the command.
LEMMA OthersKeep ==
    ASSUME TreeInv, (\E p \in Names : GetNode(p)) \/ ShowEnd \/ ShowPrinted \/ UNCHANGED vars
    PROVE  TreeInv'
<1>1. CASE \E p \in Names : GetNode(p)
    <2>1. PICK p \in Names : GetNode(p)
        BY <1>1
    <2>2. TypeOK'
        BY <2>1 DEF TreeInv, TypeOK, GetNode, Paths, showVars
    <2>3. DaemonInv'
        BY <2>1 DEF TreeInv, DaemonInv, GetNode, UpdateInv, RemoveInv
    <2>4. ShowInv'
        BY <2>1, ShowFrame DEF TreeInv, ShowInv, GetNode
    <2>5. QED
        BY <2>2, <2>3, <2>4 DEF TreeInv
<1>2. CASE ShowEnd
    <2>1. TypeOK'
        BY <1>2 DEF TreeInv, TypeOK, ShowEnd, daemonVars
    <2>2. DaemonInv'
        BY <1>2, DaemonFrame DEF TreeInv, ShowEnd
    <2>3. ShowInv'
        BY <1>2 DEF TreeInv, ShowInv, ShowComplete, ShowEnd
    <2>4. QED
        BY <2>1, <2>2, <2>3 DEF TreeInv
<1>3. CASE ShowPrinted
    <2>1. TypeOK'
        BY <1>3 DEF TreeInv, TypeOK, ShowPrinted, daemonVars
    <2>2. DaemonInv'
        BY <1>3, DaemonFrame DEF TreeInv, ShowPrinted
    <2>3. ShowInv'
        BY <1>3 DEF ShowInv, ShowComplete, ShowPrinted
    <2>4. QED
        BY <2>1, <2>2, <2>3 DEF TreeInv
<1>4. CASE UNCHANGED vars
    <2>1. TypeOK'
        BY <1>4 DEF TreeInv, TypeOK, vars, daemonVars, showVars
    <2>2. DaemonInv'
        BY <1>4, DaemonFrame DEF TreeInv, vars
    <2>3. ShowInv'
        BY <1>4, ShowFrame DEF TreeInv, ShowInv, vars
    <2>4. QED
        BY <2>1, <2>2, <2>3 DEF TreeInv
<1>5. QED
    BY <1>1, <1>2, <1>3, <1>4
-----------------------------------------------------------------------------
(* Theorems                                                                *)

\* The invariant holds for an empty status.
LEMMA TreeInit == Init => TreeInv
<1> SUFFICES ASSUME Init PROVE TreeInv
    OBVIOUS
<1>1. TypeOK
    BY StatusAssumption DEF Init, TypeOK, Paths
<1>2. DaemonInv
    BY DEF Init, DaemonInv, Index, Apart, UpdateInv, RemoveInv
<1>3. ShowInv
    BY DEF Init, ShowInv, ShowComplete
<1>4. QED
    BY <1>1, <1>2, <1>3 DEF TreeInv

\* A step of anyone keeps the invariant.
LEMMA TreeNext == Careful /\ TreeInv /\ [Next]_vars => TreeInv'
<1> SUFFICES ASSUME Careful, TreeInv, [Next]_vars PROVE TreeInv'
    OBVIOUS
<1>1. ASSUME NEW p \in Names, SetItem(p) PROVE TreeInv'
    BY <1>1, SetItemKeeps
<1>2. ASSUME NEW p \in Names, DelItem(p) PROVE TreeInv'
    BY <1>2, DelItemKeeps
<1>3. ASSUME NEW n \in nodes, Clear(n) PROVE TreeInv'
    BY <1>3, ClearKeeps
<1>4. ASSUME NEW n \in nodes, NEW u \in Updates, DeepUpdate(n, u) PROVE TreeInv'
    BY <1>4, DeepUpdateKeeps
<1>5. CASE Progress
    BY <1>5, DescendKeeps, AscendKeeps, UpdateOneKeeps DEF Progress
<1>6. CASE Restart \/ ShowBegin \/ ShowItem
    BY <1>6, RestartKeeps, ShowBeginKeeps, ShowItemKeeps
<1>7. CASE (\E p \in Names : GetNode(p)) \/ ShowEnd \/ ShowPrinted \/ UNCHANGED vars
    BY <1>7, OthersKeep
<1>8. QED
    BY <1>1, <1>2, <1>3, <1>4, <1>5, <1>6, <1>7 DEF Next

\* The invariant holds in every state of a careful daemon.
THEOREM TreeInvariant == Careful => (Spec => []TreeInv)
<1> SUFFICES ASSUME Careful PROVE Spec => []TreeInv
    OBVIOUS
<1>1. TreeInv /\ [Next]_vars => TreeInv'
    BY TreeNext
<1>2. QED
    BY <1>1, TreeInit, PTL DEF Spec

\* The index of _add_path and _del_path says what Sysdb holds, at every step of a
\* recursive clear() and after every restart.
THEOREM IndexMatchesHolds == Careful => (Spec => []IndexMatches)
<1> SUFFICES ASSUME Careful PROVE Spec => []IndexMatches
    OBVIOUS
<1>1. TreeInv => IndexMatches
    BY DEF TreeInv, DaemonInv, IndexMatches, Index
<1>2. QED
    BY <1>1, TreeInvariant, PTL

\* status_as_dict() of a command shows every value that lasts as long as it runs,
\* whatever the daemon does meanwhile.
THEOREM ShowCompleteHolds == Careful => (Spec => []ShowComplete)
<1> SUFFICES ASSUME Careful PROVE Spec => []ShowComplete
    OBVIOUS
<1>1. TreeInv => ShowComplete
    BY DEF TreeInv, ShowInv
<1>2. QED
    BY <1>1, TreeInvariant, PTL

\* clear() and del leave nothing below their target, and remove nothing else.
LEMMA CleanStep ==
    ASSUME TreeInv, [Next]_vars
    PROVE  /\ restarts' = restarts /\ op \in {"clear", "delete"} /\ op' = "none"
              => \A p \in status' : Under(p, target) => op = "clear" /\ p = target
           /\ \A p \in status \ status' : op \in {"clear", "delete"} /\ Under(p, target)
<1>1. CASE Ascend
    <2>1. /\ listed = Index(status) /\ status \in SUBSET Names /\ target \in Keys
          /\ Under(at, target) /\ Below(listed, at) = {} /\ op \in {"clear", "delete"}
        BY <1>1, PathFacts DEF TreeInv, TypeOK, DaemonInv, RemoveInv, Ascend
    <2>2. at # target => op' = op
        BY <1>1 DEF Ascend
    <2>3. at = target => \A p \in status : Under(p, target) => p = target
        BY <2>1, NothingBelow
    <2>4. CASE op = "clear" /\ at = target
        BY <1>1, <2>3, <2>4 DEF Ascend
    <2>5. CASE ~(op = "clear" /\ at = target)
        <3>1. status' = status \ {at}
            BY <1>1, <2>5, AscendRemoves
        <3>2. QED
            BY <2>1, <2>2, <2>3, <3>1
    <2>6. QED
        BY <2>4, <2>5
<1>2. CASE UpdateOne
    BY <1>2 DEF UpdateOne, Write
<1>3. CASE Descend
    BY <1>3 DEF Descend
<1>4. CASE Restart
    <2>1. restarts' # restarts /\ status' = status
        BY <1>4 DEF Restart, TreeInv, TypeOK
    <2>2. QED
        BY <2>1
<1>5. CASE \E p \in Names : GetNode(p) \/ SetItem(p) \/ DelItem(p)
    BY <1>5 DEF GetNode, SetItem, DelItem, Write
<1>6. CASE \E n \in nodes : Clear(n) \/ \E u \in Updates : DeepUpdate(n, u)
    BY <1>6 DEF Clear, DeepUpdate
<1>7. CASE ShowBegin \/ ShowItem \/ ShowEnd \/ ShowPrinted \/ UNCHANGED vars
    BY <1>7 DEF ShowBegin, ShowItem, ShowEnd, ShowPrinted, vars, daemonVars
<1>8. QED
    BY <1>1, <1>2, <1>3, <1>4, <1>5, <1>6, <1>7 DEF Next, Progress

\* "Remove all status, giving us a clean slate": clear() and del leave nothing of
\* what they were to remove, and never touch a value outside of it.
THEOREM CleanSlateHolds == Careful => (Spec => CleanSlate)
<1> SUFFICES ASSUME Careful PROVE Spec => CleanSlate
    OBVIOUS
<1>1. TreeInv /\ [Next]_vars =>
        [/\ restarts' = restarts /\ op \in {"clear", "delete"} /\ op' = "none"
              => \A p \in status' : Under(p, target) => op = "clear" /\ p = target
         /\ \A p \in status \ status' : op \in {"clear", "delete"} /\ Under(p, target)]_vars
    BY CleanStep
<1>2. QED
    BY <1>1, TreeInvariant, PTL DEF Spec, CleanSlate
-----------------------------------------------------------------------------
(* The configuration a daemon mirrors: the invariant.                      *)

\* An option that the loop of on_initialized() does not have to visit any more, or never
\* had to, has its answer.
Loading ==
    \A k \in ItemKeys : k \notin iter => agentStatus[k] = mirror[k]

ConfigInv == RunningMeansLoaded /\ (proc = "loading" => Loading)

\* No option is set in the empty mirror.
LEMMA EmptyType == Empty \in Options /\ \A k \in ItemKeys : Empty[k] = None
    BY DEF Empty, Options

\* The invariant holds while there is no daemon and no option yet.
LEMMA ConfigInitInv == ConfigInit => ConfigInv
    BY EmptyType DEF ConfigInit, ConfigInv, RunningMeansLoaded, ConfigType

\* A command changes what is in Sysdb, and nothing of the daemon.
LEMMA CommandKeeps ==
    ASSUME ConfigInv, Command \/ CliStep
    PROVE  ConfigInv'
<1>1. DaemonUnchanged /\ ConfigType'
    <2>1. CASE \E k \in ItemKeys, ip \in Ips : IpAddress(k, ip)
        <3>1. PICK k \in ItemKeys, ip \in Ips : IpAddress(k, ip)
            BY <2>1
        <3>2. QED
            BY <3>1 DEF IpAddress, DaemonUnchanged, ConfigInv, RunningMeansLoaded, ConfigType, Options
    <2>2. CASE \E ip \in Ips \cup {None}, secondary \in BOOLEAN : NoIpAddress(ip, secondary)
        <3>1. PICK ip \in Ips \cup {None}, secondary \in BOOLEAN : NoIpAddress(ip, secondary)
            BY <2>2
        <3>2. QED
            BY <3>1 DEF NoIpAddress, DaemonUnchanged, ConfigInv, RunningMeansLoaded, ConfigType, sysdb
    <2>3. CASE \E on \in BOOLEAN : SetEnabled(on)
        BY <2>3 DEF SetEnabled, DaemonUnchanged, ConfigInv, RunningMeansLoaded, ConfigType
    <2>4. CASE CliStep
        <3>1. PICK k \in ItemKeys : Discard(k)
            BY <2>4 DEF CliStep
        <3>2. QED
            BY <3>1 DEF Discard, DaemonUnchanged, ConfigInv, RunningMeansLoaded, ConfigType, Options
    <2>5. QED
        BY <2>1, <2>2, <2>3, <2>4 DEF Command
<1>2. QED
    BY <1>1 DEF DaemonUnchanged, ConfigInv, RunningMeansLoaded, Loading

\* A callback writes one option of the status, to what the daemon was told of it.
LEMMA ConfigStep ==
    ASSUME agentStatus \in Options, NEW k \in ItemKeys, NEW v \in Ips \cup {None}, OnAgentConfig(k, v)
    PROVE  /\ agentStatus' \in Options
           /\ agentStatus'[k] = v
           /\ \A j \in ItemKeys \ {k} : agentStatus'[j] = agentStatus[j]
    BY DEF OnAgentConfig, Options

\* A step of the daemon, of on_initialized() or of a callback
LEMMA DaemonStepKeeps ==
    ASSUME ConfigInv, DaemonStep
    PROVE  ConfigInv'
<1>1. ConfigType
    BY DEF ConfigInv, RunningMeansLoaded
<1>2. CASE Start
    BY <1>1, <1>2 DEF Start, sysdb, ConfigInv, RunningMeansLoaded, ConfigType
<1>3. CASE InitClear
    <2>1. ConfigType'
        BY <1>1, <1>3 DEF InitClear, Cleared, sysdb, ConfigType
    <2>2. \A k \in ItemKeys : k \notin iter' => mirror'[k] = None
        BY <1>3 DEF InitClear
    <2>3. QED
        BY <2>1, <2>2, <1>3, EmptyType DEF InitClear, Cleared, ConfigInv, RunningMeansLoaded, Loading
<1>4. CASE InitDone
    <2>1. ConfigType'
        BY <1>1, <1>4 DEF InitDone, AllLoaded, sysdb, ConfigType
    <2>2. agentStatus = mirror
        <3>1. \A k \in ItemKeys : agentStatus[k] = mirror[k]
            BY <1>4 DEF InitDone, AllLoaded, ConfigInv, Loading
        <3>2. QED
            BY <3>1, <1>1 DEF ConfigType, Options
    <2>3. QED
        BY <2>1, <2>2, <1>4 DEF InitDone, ConfigInv, RunningMeansLoaded
<1>5. CASE OnAgentEnabled
    BY <1>1, <1>5 DEF OnAgentEnabled, sysdb, ConfigInv, RunningMeansLoaded, ConfigType
<1>6. CASE Stop
    BY <1>1, <1>6, EmptyType DEF Stop, sysdb, ConfigInv, RunningMeansLoaded, ConfigType
<1>7. ASSUME NEW k \in ItemKeys, InitLoad(k)
      PROVE  ConfigInv'
    <2>1. mirror[k] \in Ips \cup {None}
        BY <1>1 DEF ConfigType, Options
    <2>2. /\ agentStatus' \in Options /\ agentStatus'[k] = mirror[k]
          /\ \A j \in ItemKeys \ {k} : agentStatus'[j] = agentStatus[j]
        BY <1>1, <1>7, <2>1, ConfigStep DEF ConfigType, InitLoad
    <2>3. ConfigType'
        BY <1>1, <1>7, <2>2 DEF InitLoad, sysdb, ConfigType
    <2>4. \A j \in ItemKeys : agentStatus'[j] \in {None, mirror[j]} /\ (j \notin iter' => agentStatus'[j] = mirror[j])
        BY <1>7, <2>2 DEF InitLoad, ConfigInv, RunningMeansLoaded, Loading
    <2>5. QED
        BY <2>3, <2>4, <1>7 DEF InitLoad, ConfigInv, RunningMeansLoaded, Loading
<1>8. ASSUME NEW k \in ItemKeys, OnAgentOption(k)
      PROVE  ConfigInv'
    <2>1. config[k] \in Ips \cup {None}
        BY <1>1 DEF ConfigType, Options
    <2>2. /\ agentStatus' \in Options /\ agentStatus'[k] = config[k]
          /\ \A j \in ItemKeys \ {k} : agentStatus'[j] = agentStatus[j]
        BY <1>1, <1>8, <2>1, ConfigStep DEF ConfigType, OnAgentOption
    <2>3. mirror' \in Options /\ mirror'[k] = config[k] /\ \A j \in ItemKeys \ {k} : mirror'[j] = mirror[j]
        BY <1>1, <1>8, <2>1 DEF OnAgentOption, ConfigType, Options
    <2>4. ConfigType'
        BY <1>1, <1>8, <2>2, <2>3 DEF OnAgentOption, sysdb, ConfigType
    <2>5. proc = "up" => agentStatus' = mirror'
        <3>1. proc = "up" => \A j \in ItemKeys : agentStatus'[j] = mirror'[j]
            BY <2>2, <2>3 DEF ConfigInv, RunningMeansLoaded
        <3>2. QED
            BY <3>1, <2>2, <2>3 DEF Options
    <2>6. QED
        BY <2>4, <2>5, <1>8 DEF OnAgentOption, ConfigInv, RunningMeansLoaded
<1>9. CASE ClearEntry
    <2>1. agentStatus' \in Options /\ running' \in BOOLEAN
        BY <1>1, <1>9 DEF ClearEntry, ConfigType, Options
    <2>2. QED
        BY <1>1, <1>9, <2>1 DEF ClearEntry, sysdb, ConfigInv, RunningMeansLoaded, ConfigType
<1>10. CASE ShutDown
    BY <1>1, <1>10 DEF ShutDown, Cleared, sysdb, ConfigInv, RunningMeansLoaded, ConfigType
<1>11. QED
    BY <1>2, <1>3, <1>4, <1>5, <1>6, <1>7, <1>8, <1>9, <1>10 DEF DaemonStep

\* A daemon that dies leaves its status and nothing else.
LEMMA CrashKeeps ==
    ASSUME ConfigInv, Crash
    PROVE  ConfigInv'
    BY EmptyType DEF Crash, sysdb, ConfigInv, RunningMeansLoaded, ConfigType

\* However commands, callbacks and crashes come, a daemon that is up says so and shows
\* every option it was told of, and one that is loading shows nothing older.
THEOREM RunningMeansLoadedHolds == ConfigSpec => []RunningMeansLoaded
<1>1. ConfigInv /\ [ConfigNext]_configVars => ConfigInv'
    <2> SUFFICES ASSUME ConfigInv, [ConfigNext]_configVars PROVE ConfigInv'
        OBVIOUS
    <2>1. CASE UNCHANGED configVars
        BY <2>1 DEF configVars, ConfigInv, RunningMeansLoaded, ConfigType, Loading
    <2>2. QED
        BY <2>1, CommandKeeps, DaemonStepKeeps, CrashKeeps DEF ConfigNext
<1>2. ConfigInv => RunningMeansLoaded
    BY DEF ConfigInv
<1>3. QED
    BY <1>1, <1>2, ConfigInitInv, PTL DEF ConfigSpec
=============================================================================
