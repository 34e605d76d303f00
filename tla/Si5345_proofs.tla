---------------------------- MODULE Si5345_proofs ----------------------------
(***************************************************************************)
(* Proofs about Si5345, for any number of processes, every set of profiles *)
(* and any number of failures and deaths.                                  *)
(***************************************************************************)
EXTENDS Si5345, SequenceTheorems, WellFoundedInduction, TLAPS

\* Every non-empty set of natural numbers has a least element.
LEMMA Least ==
    ASSUME NEW T \in SUBSET Nat, T # {}
    PROVE  \E x \in T : \A y \in T : x <= y
<1> DEFINE R == OpToRel(<, Nat)
<1>1. IsWellFoundedOn(R, Nat)
    BY NatLessThanWellFounded
<1>2. PICK x \in T : \A y \in T : ~ (<<y, x>> \in R)
    <2> HIDE DEF R
    <2> QED
        BY <1>1, WFMin
<1>3. \A y \in T : y < x => <<y, x>> \in R
    BY DEF OpToRel
<1> HIDE DEF R
<1>4. \A y \in T : ~(y < x)
    BY <1>2, <1>3, Zenon
<1>5. QED
    BY <1>4
-----------------------------------------------------------------------------
(* The parser.  Table(s, n, f): f[i] is what has been kept of the first i  *)
(* lines.                                                                  *)

Table(s, n, f) ==
    f = [i \in 0 .. n |->
            IF i = 0 THEN <<>>
            ELSE IF s[i] = Comment THEN f[i - 1] ELSE Append(f[i - 1], s[i])]

\* The table exists: it is extended line by line.
LEMMA TableExists ==
    ASSUME NEW s, NEW n \in Nat
    PROVE  \E f : Table(s, n, f)
<1> DEFINE T == {m \in Nat : ~ \E f : Table(s, m, f)}
<1>1. SUFFICES ASSUME T # {} PROVE FALSE
    OBVIOUS
<1>2. PICK m \in T : \A k \in T : m <= k
    BY <1>1, Least
<1>3. CASE m = 0
    <2>1. Table(s, 0, [i \in 0 .. 0 |-> <<>>])
        BY DEF Table
    <2>2. QED
        BY <1>2, <1>3, <2>1
<1>4. CASE m # 0
    <2>1. m - 1 \in Nat /\ m - 1 \notin T
        BY <1>2, <1>4
    <2>2. PICK f : Table(s, m - 1, f)
        BY <2>1
    <2> DEFINE g == [i \in 0 .. m |->
                        IF i < m THEN f[i]
                        ELSE IF s[m] = Comment THEN f[m - 1] ELSE Append(f[m - 1], s[m])]
    <2>3. \A i \in 0 .. m : g[i] =
            IF i = 0 THEN <<>>
            ELSE IF s[i] = Comment THEN g[i - 1] ELSE Append(g[i - 1], s[i])
        <3>1. m \in Nat
            OBVIOUS
        <3>2. \A i \in 0 .. m - 1 : f[i] =
                IF i = 0 THEN <<>>
                ELSE IF s[i] = Comment THEN f[i - 1] ELSE Append(f[i - 1], s[i])
            BY <2>2 DEF Table
        <3>3. \A i \in 0 .. m - 1 : g[i] = f[i]
            BY <3>1
        <3>4. g[m] = IF s[m] = Comment THEN f[m - 1] ELSE Append(f[m - 1], s[m])
            BY <3>1
        <3> HIDE DEF g
        <3>5. QED
            BY <1>4, <3>1, <3>2, <3>3, <3>4
    <2>4. Table(s, m, g)
        BY <2>3 DEF Table
    <2>5. QED
        BY <1>2, <2>4
<1>5. QED
    BY <1>3, <1>4

\* The parser's result is the last entry of such a table.
LEMMA ParsedTable ==
    ASSUME NEW s, Len(s) \in Nat
    PROVE  \E f : Table(s, Len(s), f) /\ Parsed(s) = f[Len(s)]
<1>1. Parsed(s) = (CHOOSE f : Table(s, Len(s), f))[Len(s)]
    BY DEF Parsed, Table
<1>2. Table(s, Len(s), CHOOSE f : Table(s, Len(s), f))
    BY TableExists
<1>3. QED
    BY <1>1, <1>2

\* The lines of q up to k that are for the register r.
UpTo(q, k, r) == {i \in Lines(q, r) : i <= k}

\* v is what the last of them puts there.
Leaves(q, k, r, v) ==
    \E i \in UpTo(q, k, r) : v = q[i].value /\ \A j \in UpTo(q, k, r) : j <= i

\* What holds of the table after i lines: each kept line is one of the file's,
\* and a register is left with the same value.
Kept(s, f, i) ==
    /\ f[i] \in Seq(Items)
    /\ Len(f[i]) <= i
    /\ \A k \in 1 .. Len(f[i]) : \E j \in 1 .. i : s[j] # Comment /\ f[i][k] = s[j]
    /\ \A r, v : Leaves(s, i, r, v) => Leaves(f[i], Len(f[i]), r, v)
\* A line that is not for a register changes nothing.
LEMMA KeepComment ==
    ASSUME NEW s \in Seq(Items \cup {Comment}), NEW f, NEW i \in 1 .. Len(s),
           s[i] = Comment, f[i] = f[i - 1], Kept(s, f, i - 1)
    PROVE  Kept(s, f, i)
<1>1. i \in Nat /\ \A r : UpTo(s, i, r) = UpTo(s, i - 1, r)
    BY DEF UpTo, Lines
<1>2. \A r, v : Leaves(s, i, r, v) => Leaves(s, i - 1, r, v)
    BY <1>1 DEF Leaves
<1>3. QED
    BY <1>1, <1>2 DEF Kept

\* A line for a register is the last one kept so far.
LEMMA KeepLine ==
    ASSUME NEW s \in Seq(Items \cup {Comment}), NEW f, NEW i \in 1 .. Len(s),
           s[i] # Comment, f[i] = Append(f[i - 1], s[i]), Kept(s, f, i - 1)
    PROVE  Kept(s, f, i)
<1> DEFINE q == f[i - 1]
           L == Len(q)
           t == f[i]
<1>1. i \in Nat /\ s[i] \in Items
    BY ElementOfSeq
<1>2. q \in Seq(Items) /\ L \in Nat /\ L <= i - 1
    BY LenProperties DEF Kept
<1>3. /\ t \in Seq(Items) /\ Len(t) = L + 1
      /\ \A k \in 1 .. L : t[k] = q[k]
      /\ t[L + 1] = s[i]
    BY <1>1, <1>2, AppendProperties
<1>4. \A k \in 1 .. L : \E j \in 1 .. i - 1 : s[j] # Comment /\ q[k] = s[j]
    BY DEF Kept
<1>5. \A r, v : Leaves(s, i - 1, r, v) => Leaves(q, L, r, v)
    BY DEF Kept
<1> HIDE DEF q, L, t
<1>6. \A k \in 1 .. Len(t) : \E j \in 1 .. i : s[j] # Comment /\ t[k] = s[j]
    <2> SUFFICES ASSUME NEW k \in 1 .. L + 1
                 PROVE  \E j \in 1 .. i : s[j] # Comment /\ t[k] = s[j]
        BY <1>3
    <2>1. CASE k = L + 1
        BY <1>1, <1>3, <2>1
    <2>2. CASE k \in 1 .. L
        <3>1. PICK j \in 1 .. i - 1 : s[j] # Comment /\ q[k] = s[j]
            BY <1>4, <2>2
        <3>2. t[k] = s[j] /\ j \in 1 .. i
            BY <1>1, <1>3, <2>2, <3>1
        <3>3. QED
            BY <3>1, <3>2
    <2>3. QED
        BY <1>2, <2>1, <2>2
<1>7. ASSUME NEW r, NEW v, Leaves(s, i, r, v) PROVE Leaves(t, Len(t), r, v)
    <2>1. CASE r = <<s[i].page, s[i].address>>
        <3>1. i \in UpTo(s, i, r)
            BY <1>1, <2>1 DEF UpTo, Lines
        <3>2. PICK m \in UpTo(s, i, r) : v = s[m].value /\ \A j \in UpTo(s, i, r) : j <= m
            BY <1>7 DEF Leaves
        <3>3. m = i
            BY <1>1, <3>1, <3>2 DEF UpTo, Lines
        <3>4. L + 1 \in UpTo(t, L + 1, r)
            BY <1>1, <1>2, <1>3, <2>1, CommentAssumption DEF UpTo, Lines
        <3>5. v = t[L + 1].value
            BY <1>3, <3>2, <3>3, Zenon
        <3>6. \A j \in UpTo(t, L + 1, r) : j <= L + 1
            BY DEF UpTo
        <3>7. Leaves(t, L + 1, r, v)
            BY <3>4, <3>5, <3>6 DEF Leaves
        <3>8. QED
            BY <1>3, <3>7
    <2>2. CASE r # <<s[i].page, s[i].address>>
        <3>1. UpTo(s, i, r) = UpTo(s, i - 1, r)
            BY <1>1, <2>2 DEF UpTo, Lines
        <3>2. Leaves(s, i - 1, r, v)
            BY <1>7, <3>1 DEF Leaves
        <3>3. PICK m \in UpTo(q, L, r) : v = q[m].value /\ \A j \in UpTo(q, L, r) : j <= m
            BY <1>5, <3>2 DEF Leaves
        <3>4. m \in 1 .. L
            BY <1>2, <3>3 DEF UpTo, Lines
        <3>5. t[m] = q[m]
            BY <1>3, <3>4
        <3>6. m \in UpTo(t, L + 1, r)
            BY <1>2, <1>3, <3>3, <3>4, <3>5 DEF UpTo, Lines
        <3>7. \A j \in UpTo(t, L + 1, r) : j \in UpTo(q, L, r)
            <4> SUFFICES ASSUME NEW j \in UpTo(t, L + 1, r) PROVE j \in UpTo(q, L, r)
                OBVIOUS
            <4>1. j \in 1 .. L + 1 /\ r = <<t[j].page, t[j].address>> /\ t[j] # Comment
                BY <1>3 DEF UpTo, Lines
            <4>2. j # L + 1
                BY <1>3, <2>2, <4>1, Zenon
            <4>3. j \in 1 .. L
                BY <1>2, <4>1, <4>2
            <4>4. t[j] = q[j]
                BY <1>3, <4>3
            <4>5. r = <<q[j].page, q[j].address>> /\ q[j] # Comment
                BY <4>1, <4>4, Zenon
            <4>6. QED
                BY <1>2, <4>3, <4>5 DEF UpTo, Lines, L
        <3>8. v = t[m].value
            BY <3>3, <3>5, Zenon
        <3>9. Leaves(t, L + 1, r, v)
            BY <3>3, <3>6, <3>7, <3>8 DEF Leaves
        <3>10. QED
            BY <1>3, <3>9
    <2>3. QED
        BY <2>1, <2>2
<1>8. Len(t) <= i
    BY <1>1, <1>2, <1>3
<1>9. QED
    BY <1>3, <1>6, <1>7, <1>8 DEF Kept, t

\* By induction on the lines read so far.
LEMMA KeptAlways ==
    ASSUME NEW s \in Seq(Items \cup {Comment}), NEW f, Table(s, Len(s), f),
           NEW n \in 0 .. Len(s)
    PROVE  Kept(s, f, n)
<1> DEFINE T == {m \in 0 .. Len(s) : ~ Kept(s, f, m)}
<1>0. Len(s) \in Nat
    BY LenProperties
<1>1. SUFFICES ASSUME T # {} PROVE FALSE
    OBVIOUS
<1>2. PICK i \in T : \A k \in T : i <= k
    <2>1. T \in SUBSET Nat
        BY <1>0
    <2> HIDE DEF T
    <2>2. QED
        BY <1>1, <2>1, Least
<1>3. CASE i = 0
    <2>1. f[0] = <<>>
        BY <1>0 DEF Table
    <2>2. f[0] \in Seq(Items) /\ Len(f[0]) = 0
        BY <2>1, EmptySeq
    <2>3. \A r : UpTo(s, 0, r) = {}
        BY <1>0 DEF UpTo, Lines
    <2>4. Kept(s, f, 0)
        BY <2>2, <2>3 DEF Kept, Leaves
    <2>5. QED
        BY <1>2, <1>3, <2>4
<1>4. CASE i # 0
    <2>1. i \in 1 .. Len(s) /\ i - 1 \in 0 .. Len(s) /\ i - 1 \notin T
        BY <1>0, <1>2, <1>4
    <2>2. Kept(s, f, i - 1)
        BY <2>1
    <2>3. f[i] = IF s[i] = Comment THEN f[i - 1] ELSE Append(f[i - 1], s[i])
        <3>1. \A m \in 0 .. Len(s) : f[m] =
                IF m = 0 THEN <<>>
                ELSE IF s[m] = Comment THEN f[m - 1] ELSE Append(f[m - 1], s[m])
            BY DEF Table
        <3>2. QED
            BY <1>0, <1>4, <2>1, <3>1
    <2>4. Kept(s, f, i)
        BY <2>1, <2>2, <2>3, KeepComment, KeepLine
    <2>5. QED
        BY <1>2, <2>4
<1>5. QED
    BY <1>3, <1>4

\* What _reg_map_parser returns: lines of the file, no more than it has, which put
\* into each register what the file's last line for it says.
LEMMA ParsedFacts ==
    ASSUME NEW s \in Seq(Items \cup {Comment})
    PROVE  /\ Parsed(s) \in Seq(Items)
           /\ Len(Parsed(s)) <= Len(s)
           /\ \A k \in 1 .. Len(Parsed(s)) :
                \E j \in 1 .. Len(s) : s[j] # Comment /\ Parsed(s)[k] = s[j]
           /\ \A r, v : Leaves(s, Len(s), r, v) => Leaves(Parsed(s), Len(Parsed(s)), r, v)
<1>1. Len(s) \in Nat
    BY LenProperties
<1>2. PICK f : Table(s, Len(s), f) /\ Parsed(s) = f[Len(s)]
    BY <1>1, ParsedTable
<1>3. Kept(s, f, Len(s))
    BY <1>1, <1>2, KeptAlways
<1>4. QED
    BY <1>2, <1>3 DEF Kept
-----------------------------------------------------------------------------
(* The bus.  OneHolder and NoStray follow together: a process in an access *)
(* has the device to itself, so the page it selected stays selected.       *)

BusInv ==
    /\ OneHolder
    /\ next \in [Procs -> Nat]
    /\ \A p \in Procs : next[p] <= Len(Parsed(profile[p])) + 1
    /\ \A p \in Procs : at[p] = "access" => page = Page(p)
    /\ NoStray

\* What a process is about to write is a line of its file, for a named register.
LEMMA LineFacts ==
    ASSUME TypeOK, NEW p \in Procs
    PROVE  /\ Len(profile[p]) \in Nat
           /\ Parsed(profile[p]) \in Seq(Items)
           /\ Len(Parsed(profile[p])) \in Nat
           /\ Len(Parsed(profile[p])) <= Len(profile[p])
           /\ Page(p) \in Pages
           /\ ~Polls(p) => /\ Line(p) \in Items
                           /\ Page(p) = Line(p).page
                           /\ <<Page(p), Line(p).address>> \in Named
<1> DEFINE s == profile[p]
           q == Parsed(s)
<1>1. s \in Profiles \/ s = <<>>
    BY DEF TypeOK
<1>2. s \in Seq(Items \cup {Comment})
    BY <1>1, ProfilesAssumption, EmptySeq
<1>3. /\ q \in Seq(Items)
      /\ Len(q) <= Len(s)
      /\ \A k \in 1 .. Len(q) : \E j \in 1 .. Len(s) : s[j] # Comment /\ q[k] = s[j]
    BY <1>2, ParsedFacts
<1>4. Len(s) \in Nat /\ Len(q) \in Nat
    BY <1>2, <1>3, LenProperties
<1>5. ASSUME ~Polls(p)
      PROVE  /\ Line(p) \in Items
             /\ Page(p) = Line(p).page
             /\ <<Page(p), Line(p).address>> \in Named
    <2>1. next[p] \in 1 .. Len(q)
        BY <1>4, <1>5 DEF TypeOK, Polls
    <2>2. Line(p) = q[next[p]] /\ Line(p) \in Items
        BY <1>3, <2>1, ElementOfSeq DEF Line
    <2>3. Page(p) = Line(p).page
        BY <1>5 DEF Page
    <2>4. PICK j \in 1 .. Len(s) : s[j] # Comment /\ Line(p) = s[j]
        BY <1>3, <2>1, <2>2
    <2>5. j \in Lines(s, <<s[j].page, s[j].address>>)
        BY <2>4 DEF Lines
    <2>6. s \in Profiles
        BY <1>1, <1>4, <2>4, EmptySeq
    <2>7. <<Line(p).page, Line(p).address>> \in Register
        BY <2>2 DEF Items, Register
    <2>8. Lines(s, <<Line(p).page, Line(p).address>>) # {}
        BY <2>4, <2>5, Zenon
    <2>9. <<Line(p).page, Line(p).address>> \in Named
        BY <2>6, <2>7, <2>8 DEF Named
    <2>10. QED
        BY <2>2, <2>3, <2>9
<1>6. Page(p) \in Pages
    <2>1. CASE Polls(p)
        BY <2>1, PagesAssumption DEF Page
    <2>2. CASE ~Polls(p)
        BY <1>5, <2>2 DEF Items
    <2>3. QED
        BY <2>1, <2>2
<1>7. QED
    BY <1>3, <1>4, <1>5, <1>6

\* The line and the page of an access depend only on the process's own progress.
LEMMA PageFrame ==
    ASSUME NEW p \in Procs, profile'[p] = profile[p], next'[p] = next[p]
    PROVE  /\ Line(p)' = Line(p)
           /\ Polls(p)' = Polls(p)
           /\ Page(p)' = Page(p)
    BY DEF Page, Polls, Line

\* A write goes to the page that was selected for it.
LEMMA WriteItemKeeps ==
    ASSUME BusInv, NEW p \in Procs, at[p] = "access", ~Polls(p), WriteItem(p)
    PROVE  /\ regs' \in [Register -> Values]
           /\ ready' \in BOOLEAN
           /\ NoStray'
<1>1. TypeOK /\ page = Page(p)
    BY DEF BusInv, OneHolder
<1>2. /\ Line(p) \in Items
      /\ <<page, Line(p).address>> \in Named
    BY <1>1, LineFacts
<1>3. Line(p).value \in Values
    BY <1>2 DEF Items
<1>4. regs' = [regs EXCEPT ![<<page, Line(p).address>>] = Line(p).value] /\ ready' = FALSE
    BY DEF WriteItem, Written
<1>5. Named' = Named
    BY DEF Named
<1>6. \A r \in Register \ Named : regs'[r] = regs[r]
    BY <1>1, <1>2, <1>4 DEF TypeOK
<1>7. QED
    BY <1>1, <1>3, <1>4, <1>5, <1>6 DEF BusInv, TypeOK, NoStray
Held(p) == at[p] \in {"select", "access", "release"}

\* Only one process is in an access.
LEMMA Alone ==
    ASSUME OneHolder, NEW p \in Procs, Held(p), NEW q \in Procs, q # p
    PROVE  holder = p /\ ~Held(q)
    BY NobodyAssumption DEF OneHolder, Held

\* Steps that write no register, and move neither the line nor the page under a
\* process that is about to access.
LEMMA BusFrame ==
    ASSUME BusInv, TypeOK', UNCHANGED <<regs, profile>>,
           next' \in [Procs -> Nat],
           \A p \in Procs : next'[p] <= Len(Parsed(profile[p])) + 1,
           \A p \in Procs : (holder = p <=> Held(p))',
           \A p \in Procs : at'[p] = "access" => page' = Page(p)'
    PROVE  BusInv'
<1>1. NoStray'
    BY DEF BusInv, NoStray, Named
<1>2. QED
    BY <1>1 DEF BusInv, OneHolder, Held

\* A new load starts with the first line, outside any access.
LEMMA LoadKeeps ==
    ASSUME BusInv, NEW p \in Procs, NEW s \in Profiles, Load(p, s)
    PROVE  BusInv'
<1> USE DEF BusInv, OneHolder, TypeOK, Places
<1>1. s \in Seq(Items \cup {Comment}) /\ Len(s) \in Nat
    BY ProfilesAssumption, LenProperties
<1>2. Len(Parsed(s)) \in Nat
    BY <1>1, ParsedFacts, LenProperties
<1>3. /\ at[p] = "idle" /\ at' = [at EXCEPT ![p] = "grab"]
      /\ profile' = [profile EXCEPT ![p] = s]
      /\ next' = [next EXCEPT ![p] = 1]
      /\ told' = [told EXCEPT ![p] = "none"]
      /\ alone' = [q \in Procs |-> q = p /\ \A o \in Procs \ {p} : at[o] = "idle"]
      /\ loads' = loads + 1 /\ loads < MaxLoads
      /\ UNCHANGED <<chip, holder, error, errors>>
    BY DEF Load
<1>4. \A q \in Procs \ {p} : profile'[q] = profile[q] /\ next'[q] = next[q]
    BY <1>3
<1>5. profile'[p] = s /\ next'[p] = 1
    BY <1>3
<1>6. \A q \in Procs : next'[q] \in 1 .. Len(profile'[q]) + 1
    BY <1>1, <1>4, <1>5
<1>7. TypeOK'
    <2>1. alone' \in [Procs -> BOOLEAN]
        BY <1>3
    <2>2. loads' \in 0 .. MaxLoads
        BY <1>3, BoundsAssumption
    <2>3. QED
        BY <1>3, <1>6, <2>1, <2>2 DEF chip
<1>8. \A q \in Procs : next'[q] <= Len(Parsed(profile'[q])) + 1
    <2> SUFFICES ASSUME NEW q \in Procs PROVE next'[q] <= Len(Parsed(profile'[q])) + 1
        OBVIOUS
    <2>1. CASE q = p
        BY <1>2, <1>5, <2>1
    <2>2. CASE q # p
        <3>1. profile'[q] = profile[q] /\ next'[q] = next[q]
            BY <1>4, <2>2
        <3>2. QED
            BY <3>1
    <2>3. QED
        BY <2>1, <2>2
<1>9. \A q \in Procs : at'[q] = "access" => page' = Page(q)'
    <2> SUFFICES ASSUME NEW q \in Procs, at'[q] = "access" PROVE page' = Page(q)'
        OBVIOUS
    <2>1. q # p /\ at[q] = "access"
        BY <1>3
    <2>2. Page(q)' = Page(q)
        BY <1>4, <2>1, PageFrame
    <2>3. QED
        BY <1>3, <2>1, <2>2 DEF chip
<1>10. NoStray'
    BY <1>3 DEF NoStray, Named, chip
<1>11. \A q \in Procs : holder' = q <=> at'[q] \in {"select", "access", "release"}
    BY <1>3
<1>12. QED
    BY <1>3, <1>7, <1>8, <1>9, <1>10, <1>11

\* The device is grabbed only when nobody has it.
LEMMA GrabKeeps ==
    ASSUME BusInv, NEW p \in Procs, Grab(p)
    PROVE  BusInv'
<1> USE DEF BusInv, OneHolder, TypeOK, Places, chip
<1>1. TypeOK'
    BY DEF Grab
<1>2. \A q \in Procs : (holder = q <=> Held(q))'
    BY NobodyAssumption DEF Grab, CanGrab, Held
<1>3. \A q \in Procs : at'[q] = "access" => page' = Page(q)'
    BY PageFrame DEF Grab
<1>4. QED
    BY <1>1, <1>2, <1>3, BusFrame DEF Grab

\* The page is selected while the device is held, so nobody else is in an access.
LEMMA SelectKeeps ==
    ASSUME BusInv, NEW p \in Procs, Select(p)
    PROVE  BusInv'
<1> USE DEF BusInv, TypeOK, Places
<1>1. Page(p) \in Pages
    BY LineFacts DEF OneHolder
<1>2. TypeOK'
    BY <1>1 DEF OneHolder, Select
<1>3. \A q \in Procs : (holder = q <=> Held(q))'
    BY DEF OneHolder, Select, Held
<1>4. \A q \in Procs : at'[q] = "access" => page' = Page(q)'
    <2> SUFFICES ASSUME NEW q \in Procs, at'[q] = "access" PROVE page' = Page(q)'
        OBVIOUS
    <2>1. Page(q)' = Page(q) /\ page' = Page(p)
        BY PageFrame DEF Select
    <2>2. CASE q = p
        BY <2>1, <2>2
    <2>3. CASE q # p
        <3>1. ~Held(q)
            BY <2>3, Alone DEF Select, Held
        <3>2. QED
            BY <2>3, <3>1 DEF OneHolder, Select, Held
    <2>4. QED
        BY <2>2, <2>3
<1>5. QED
    BY <1>2, <1>3, <1>4, BusFrame DEF Select

\* A register is written on the selected page, and the next line is due.
LEMMA WriteKeeps ==
    ASSUME BusInv, NEW p \in Procs, Write(p)
    PROVE  BusInv'
<1> USE DEF TypeOK, Places
<1>1. TypeOK /\ at[p] = "access" /\ ~Polls(p) /\ WriteItem(p)
    BY DEF BusInv, OneHolder, Write
<1>2. regs' \in [Register -> Values] /\ ready' \in BOOLEAN /\ NoStray'
    BY <1>1, WriteItemKeeps
<1>3. /\ next' = [next EXCEPT ![p] = next[p] + 1]
      /\ at' = [at EXCEPT ![p] = "release"]
      /\ UNCHANGED <<page, holder, profile, error, told, alone, loads, errors>>
    BY DEF Write
<1>4. /\ Len(Parsed(profile[p])) \in Nat /\ Len(profile[p]) \in Nat
      /\ Len(Parsed(profile[p])) <= Len(profile[p])
    BY <1>1, LineFacts
<1>5. next[p] \in Nat /\ next[p] <= Len(Parsed(profile[p])) /\ next[p] >= 1
    BY <1>1, <1>4 DEF BusInv, Polls
<1>6. next'[p] = next[p] + 1 /\ \A q \in Procs \ {p} : next'[q] = next[q]
    BY <1>3 DEF BusInv
<1>7. next' \in [Procs -> Nat]
    BY <1>3, <1>5 DEF BusInv
<1>8. \A q \in Procs : /\ next'[q] <= Len(Parsed(profile'[q])) + 1
                       /\ next'[q] \in 1 .. Len(profile'[q]) + 1
    <2> SUFFICES ASSUME NEW q \in Procs
                 PROVE  /\ next'[q] <= Len(Parsed(profile[q])) + 1
                        /\ next'[q] \in 1 .. Len(profile[q]) + 1
        BY <1>3
    <2>1. CASE q = p
        BY <1>4, <1>5, <1>6, <2>1
    <2>2. CASE q # p
        BY <1>1, <1>6, <2>2 DEF BusInv
    <2>3. QED
        BY <2>1, <2>2
<1>9. TypeOK'
    BY <1>1, <1>2, <1>3, <1>8
<1>10. \A q \in Procs : (holder = q <=> Held(q))'
    BY <1>1, <1>3 DEF BusInv, OneHolder, Held
<1>11. \A q \in Procs : at'[q] = "access" => page' = Page(q)'
    <2> SUFFICES ASSUME NEW q \in Procs, at'[q] = "access" PROVE page' = Page(q)'
        OBVIOUS
    <2>1. q # p /\ at[q] = "access"
        BY <1>1, <1>3
    <2>2. Page(q)' = Page(q)
        BY <1>3, <1>6, <2>1, PageFrame
    <2>3. QED
        BY <1>3, <2>1, <2>2 DEF BusInv
<1>12. QED
    BY <1>2, <1>7, <1>8, <1>9, <1>10, <1>11 DEF BusInv, OneHolder, Held

\* A transfer fails with or without its effect; the device is still held.
LEMMA FailKeeps ==
    ASSUME BusInv, NEW p \in Procs, Fail(p)
    PROVE  BusInv'
<1> USE DEF TypeOK, Places
<1>1. /\ TypeOK /\ OneHolder
      /\ at[p] \in {"select", "access"}
      /\ error' = [error EXCEPT ![p] = TRUE]
      /\ at' = [at EXCEPT ![p] = "release"]
      /\ errors' = errors + 1 /\ errors < MaxErrors
      /\ UNCHANGED <<holder, profile, next, told, alone, loads>>
    BY DEF BusInv, OneHolder, Fail, Finally
<1>2. /\ page' \in Pages /\ regs' \in [Register -> Values] /\ ready' \in BOOLEAN
      /\ NoStray'
    <2>1. CASE UNCHANGED chip
        BY <1>1, <2>1 DEF BusInv, NoStray, Named, chip
    <2>2. CASE at[p] = "select" /\ page' = Page(p) /\ UNCHANGED <<regs, ready>>
        BY <1>1, <2>2, LineFacts DEF BusInv, NoStray, Named
    <2>3. CASE at[p] = "access" /\ ~Polls(p) /\ WriteItem(p) /\ UNCHANGED page
        BY <1>1, <2>3, WriteItemKeeps
    <2>4. QED
        BY <2>1, <2>2, <2>3 DEF Fail
<1>3. errors' \in 0 .. MaxErrors
    BY <1>1, BoundsAssumption
<1>4. TypeOK'
    BY <1>1, <1>2, <1>3
<1>5. \A q \in Procs : (holder = q <=> Held(q))'
    BY <1>1 DEF OneHolder, Held
<1>6. \A q \in Procs : at'[q] # "access"
    <2> SUFFICES ASSUME NEW q \in Procs, q # p PROVE at[q] # "access"
        BY <1>1
    <2>1. QED
        BY <1>1, Alone DEF Held
<1>7. QED
    BY <1>1, <1>2, <1>4, <1>5, <1>6 DEF BusInv, OneHolder, Held

\* The steps that end an access, or happen outside one.
LEMMA OtherKeeps ==
    ASSUME BusInv, NEW p \in Procs, Poll(p) \/ Release(p) \/ TimedOut(p) \/ Crash(p)
    PROVE  BusInv'
<1> USE DEF BusInv, OneHolder, TypeOK, Places, chip
<1>1. TypeOK'
    <2>1. CASE Poll(p)
        <3>1. told' \in [Procs -> {"none", "waiting", "loaded", "failed"}]
            BY <2>1 DEF Poll
        <3>2. QED
            BY <2>1, <3>1 DEF Poll
    <2>2. CASE Release(p)
        BY <2>2 DEF Release
    <2>3. CASE TimedOut(p)
        BY <2>3 DEF TimedOut
    <2>4. CASE Crash(p)
        <3>1. errors' \in 0 .. MaxErrors
            BY <2>4, BoundsAssumption DEF Crash
        <3>2. QED
            BY <2>4, <3>1 DEF Crash
    <2>5. QED
        BY <2>1, <2>2, <2>3, <2>4
<1>2. \A q \in Procs : (holder = q <=> Held(q))'
    BY NobodyAssumption DEF Poll, Release, TimedOut, Crash, Held
<1>3. /\ \A q \in Procs : at'[q] = "access" => at[q] = "access"
      /\ UNCHANGED <<chip, profile, next>>
    BY DEF Poll, Release, TimedOut, Crash
<1>4. \A q \in Procs : at'[q] = "access" => page' = Page(q)'
    BY <1>3, PageFrame
<1>5. QED
    BY <1>1, <1>2, <1>3, <1>4, BusFrame

\* The bus's invariant holds in every reachable state.
THEOREM BusInvariant == Spec => []BusInv
<1>1. Init => BusInv
    <2> SUFFICES ASSUME Init PROVE BusInv
        OBVIOUS
    <2>1. Len(<<>>) = 0 /\ <<>> \in Seq(Items \cup {Comment})
        BY EmptySeq
    <2>2. TypeOK
        <3>1. \A p \in Procs : Len(profile[p]) = 0 /\ next[p] = 1
            BY <2>1 DEF Init
        <3>2. \A p \in Procs : next[p] \in 1 .. Len(profile[p]) + 1
            <4>1. 1 \in 1 .. 0 + 1
                OBVIOUS
            <4>2. QED
                BY <3>1, <4>1, Zenon
        <3>3. regs \in [Register -> Values] /\ loads \in 0 .. MaxLoads /\ errors \in 0 .. MaxErrors
            BY ValuesAssumption, BoundsAssumption DEF Init
        <3>4. /\ at \in [Procs -> Places]
              /\ profile \in [Procs -> Profiles \cup {<<>>}]
              /\ error \in [Procs -> BOOLEAN]
              /\ told \in [Procs -> {"none", "waiting", "loaded", "failed"}]
              /\ alone \in [Procs -> BOOLEAN]
            BY DEF Init, Places
        <3>5. page \in Pages /\ ready \in BOOLEAN /\ holder \in Procs \cup {Nobody}
            BY DEF Init
        <3>6. QED
            BY <3>2, <3>3, <3>4, <3>5 DEF TypeOK
    <2>3. Len(Parsed(<<>>)) \in Nat
        BY <2>1, ParsedFacts, LenProperties
    <2>4. QED
        BY <2>1, <2>2, <2>3, NobodyAssumption DEF Init, BusInv, OneHolder, NoStray
<1>2. BusInv /\ [Next]_vars => BusInv'
    <2> SUFFICES ASSUME BusInv, [Next]_vars PROVE BusInv'
        OBVIOUS
    <2>1. CASE Lock \/ UNCHANGED vars
        <3>1. UNCHANGED <<page, regs, holder, at, profile, next, error, told, alone, loads, errors>>
            BY <2>1 DEF Lock, vars, chip
        <3>2. ready' \in BOOLEAN
            BY <2>1 DEF Lock, vars, chip, BusInv, OneHolder, TypeOK
        <3>3. TypeOK'
            BY <3>1, <3>2 DEF BusInv, OneHolder, TypeOK
        <3>4. \A p \in Procs : Page(p)' = Page(p)
            BY <3>1, PageFrame
        <3>5. QED
            BY <3>1, <3>3, <3>4, BusFrame DEF BusInv, OneHolder, Held
    <2>2. ASSUME NEW p \in Procs, NEW s \in Profiles, Load(p, s) PROVE BusInv'
        BY <2>2, LoadKeeps
    <2>3. ASSUME NEW p \in Procs, Grab(p) PROVE BusInv'
        BY <2>3, GrabKeeps
    <2>4. ASSUME NEW p \in Procs, Select(p) PROVE BusInv'
        BY <2>4, SelectKeeps
    <2>5. ASSUME NEW p \in Procs, Write(p) PROVE BusInv'
        BY <2>5, WriteKeeps
    <2>6. ASSUME NEW p \in Procs, Fail(p) PROVE BusInv'
        BY <2>6, FailKeeps
    <2>7. ASSUME NEW p \in Procs, Poll(p) \/ Release(p) \/ TimedOut(p) \/ Crash(p) PROVE BusInv'
        BY <2>7, OtherKeeps
    <2>8. QED
        BY <2>1, <2>2, <2>3, <2>4, <2>5, <2>6, <2>7 DEF Next, Access
<1>3. QED
    BY <1>1, <1>2, PTL DEF Spec

\* The I2C device is grabbed exactly while its process is in an access, and is free
\* again however the access ends.
THEOREM OneHolderHolds == Spec => []OneHolder
<1>1. BusInv => OneHolder
    BY DEF BusInv
<1>2. QED
    BY <1>1, BusInvariant, PTL

\* No byte reaches a register that no profile names, whatever comes between the
\* selection of a page and the write.
THEOREM NoStrayHolds == Spec => []NoStray
<1>1. BusInv => NoStray
    BY DEF BusInv
<1>2. QED
    BY <1>1, BusInvariant, PTL
-----------------------------------------------------------------------------
(* The load.  A process that has been alone on the chip since it called    *)
(* load_profile has put there what the lines up to the one it is at say.   *)

Going(p) == ~error[p] /\ (at[p] # "idle" \/ told[p] = "loaded")

LoadInv(p) ==
    /\ alone[p] => \A o \in Procs \ {p} : at[o] = "idle"
    /\ error[p] => at[p] = "release"
    /\ told[p] = "loaded" => at[p] \in {"release", "idle"} /\ Polls(p)
    /\ alone[p] /\ Going(p) =>
        \A r, v : Leaves(Parsed(profile[p]), next[p] - 1, r, v) => regs[r] = v

\* Nothing that LoadInv(p) reads changes.
LEMMA LoadFrame ==
    ASSUME TypeOK, NEW p \in Procs, LoadInv(p),
           at'[p] = at[p], error'[p] = error[p], told'[p] = told[p],
           profile'[p] = profile[p], next'[p] = next[p], alone'[p] => alone[p],
           alone'[p] => regs' = regs /\ \A o \in Procs \ {p} : at'[o] = "idle"
    PROVE  LoadInv(p)'
<1>1. Polls(p)' = Polls(p)
    BY PageFrame
<1>2. QED
    BY <1>1 DEF LoadInv, Going

\* No line before the first.
LEMMA LeavesNothing ==
    ASSUME NEW q, NEW r, NEW v
    PROVE  ~ Leaves(q, 0, r, v)
<1>1. UpTo(q, 0, r) = {}
    BY DEF UpTo, Lines
<1>2. QED
    BY <1>1 DEF Leaves

\* The next line decides the register it names, and leaves the others alone.
LEMMA LeavesNext ==
    ASSUME NEW q \in Seq(Items), NEW n \in 1 .. Len(q), NEW r, NEW v, Leaves(q, n, r, v)
    PROVE  /\ r \in Register
           /\ r = <<q[n].page, q[n].address>> => v = q[n].value
           /\ r # <<q[n].page, q[n].address>> => Leaves(q, n - 1, r, v)
<1>0. n \in Nat /\ q[n] \in Items
    BY ElementOfSeq
<1>1. PICK m \in UpTo(q, n, r) : v = q[m].value /\ \A j \in UpTo(q, n, r) : j <= m
    BY DEF Leaves
<1>2. m \in 1 .. Len(q) /\ r = <<q[m].page, q[m].address>> /\ m <= n
    BY <1>1 DEF UpTo, Lines
<1>3. q[m] \in Items
    BY <1>2, ElementOfSeq
<1>4. r \in Register
    BY <1>2, <1>3 DEF Items, Register
<1>5. ASSUME r = <<q[n].page, q[n].address>> PROVE v = q[n].value
    <2>1. n \in UpTo(q, n, r)
        BY <1>0, <1>5, CommentAssumption DEF UpTo, Lines
    <2>2. m = n
        BY <1>0, <1>1, <1>2, <2>1
    <2>3. QED
        BY <1>1, <2>2
<1>6. ASSUME r # <<q[n].page, q[n].address>> PROVE Leaves(q, n - 1, r, v)
    <2>1. UpTo(q, n - 1, r) = UpTo(q, n, r)
        BY <1>0, <1>6 DEF UpTo, Lines
    <2>2. QED
        BY <1>1, <2>1 DEF Leaves
<1>7. QED
    BY <1>4, <1>5, <1>6

\* The steps of the process itself.
LEMMA OwnLoad ==
    ASSUME BusInv, NEW p \in Procs, LoadInv(p),
           \/ \E s \in Profiles : Load(p, s)
           \/ Grab(p) \/ Access(p) \/ Fail(p) \/ TimedOut(p) \/ Crash(p)
    PROVE  LoadInv(p)'
<1> USE DEF TypeOK
<1>0. TypeOK /\ next \in [Procs -> Nat]
    BY DEF BusInv, OneHolder
<1>1. CASE \E s \in Profiles : Load(p, s)
    <2>1. PICK s \in Profiles : Load(p, s)
        BY <1>1
    <2>2. /\ at[p] = "idle" /\ at'[p] = "grab" /\ told'[p] = "none"
          /\ next'[p] = 1 /\ error'[p] = error[p]
        BY <1>0, <2>1 DEF Load
    <2>3. alone'[p] => \A o \in Procs \ {p} : at'[o] = "idle"
        BY <1>0, <2>1 DEF Load
    <2>4. next'[p] - 1 = 0
        BY <2>2
    <2>5. QED
        BY <2>2, <2>3, <2>4, LeavesNothing DEF LoadInv
<1>2. CASE Grab(p) \/ Select(p)
    <2>1. /\ UNCHANGED <<regs, profile, next, error, told, alone>>
          /\ at[p] \in {"grab", "select"} /\ at'[p] \in {"select", "access"}
          /\ \A o \in Procs \ {p} : at'[o] = at[o]
        BY <1>0, <1>2 DEF Grab, Select, chip
    <2>2. Polls(p)' = Polls(p)
        BY <2>1, PageFrame
    <2>3. QED
        BY <2>1, <2>2 DEF LoadInv, Going
<1>3. CASE Write(p)
    <2>1. /\ at[p] = "access" /\ ~Polls(p) /\ WriteItem(p)
          /\ next'[p] = next[p] + 1 /\ at'[p] = "release"
          /\ \A o \in Procs \ {p} : at'[o] = at[o]
          /\ UNCHANGED <<page, profile, error, told, alone>>
        BY <1>0, <1>3 DEF Write
    <2> DEFINE s == profile[p]
               q == Parsed(s)
               n == next[p]
    <2>2. q \in Seq(Items) /\ Len(q) \in Nat /\ n \in 1 .. Len(q)
        <3>1. /\ q \in Seq(Items) /\ Len(q) \in Nat /\ Len(s) \in Nat
              /\ n \in 1 .. Len(s) + 1
            BY <1>0, LineFacts
        <3>2. ~(n > Len(q))
            BY <2>1 DEF Polls
        <3> HIDE DEF n, q
        <3>3. QED
            BY <3>1, <3>2
    <2>3. page = q[n].page /\ Line(p) = q[n]
        BY <1>0, <2>1, LineFacts DEF BusInv, Line
    <2>4. regs' = [regs EXCEPT ![<<q[n].page, q[n].address>>] = q[n].value]
        BY <2>1, <2>3 DEF WriteItem, Written
    <2>5. ~error[p] /\ told[p] # "loaded"
        BY <2>1 DEF LoadInv
    <2>6. ASSUME alone[p], NEW r, NEW v, Leaves(q, n, r, v) PROVE regs'[r] = v
        <3>1. /\ r \in Register
              /\ r = <<q[n].page, q[n].address>> => v = q[n].value
              /\ r # <<q[n].page, q[n].address>> => Leaves(q, n - 1, r, v)
            BY <2>2, <2>6, LeavesNext
        <3>2. CASE r = <<q[n].page, q[n].address>>
            <4>1. regs'[r] = q[n].value
                BY <1>0, <2>4, <3>1, <3>2
            <4>2. QED
                BY <3>1, <3>2, <4>1
        <3>3. CASE r # <<q[n].page, q[n].address>>
            <4>1. regs'[r] = regs[r]
                BY <1>0, <2>4, <3>1, <3>3
            <4>2. Going(p)
                BY <2>1, <2>5 DEF Going
            <4>3. regs[r] = v
                BY <2>6, <3>1, <3>3, <4>2 DEF LoadInv
            <4>4. QED
                BY <4>1, <4>3
        <3>4. QED
            BY <3>2, <3>3
    <2>7. next'[p] - 1 = n /\ Parsed(profile[p])' = q
        BY <1>0, <2>1, <2>2
    <2> HIDE DEF q, n
    <2>8. QED
        BY <2>1, <2>5, <2>6, <2>7 DEF LoadInv
<1>4. CASE Poll(p)
    <2>1. /\ at[p] = "access" /\ Polls(p) /\ at'[p] = "release"
          /\ \A o \in Procs \ {p} : at'[o] = at[o]
          /\ UNCHANGED <<chip, profile, next, error, alone>>
        BY <1>0, <1>4 DEF Poll
    <2>2. Polls(p)' = Polls(p)
        BY <2>1, PageFrame
    <2>3. QED
        BY <2>1, <2>2 DEF LoadInv, Going, chip
<1>5. CASE Fail(p)
    <2>1. /\ at[p] \in {"select", "access"} /\ at'[p] = "release" /\ error'[p]
          /\ \A o \in Procs \ {p} : at'[o] = at[o]
          /\ UNCHANGED <<told, alone>>
        BY <1>0, <1>5 DEF Fail, Finally
    <2>2. QED
        BY <2>1 DEF LoadInv, Going
<1>6. CASE Release(p)
    <2>1. /\ at[p] = "release" /\ ~error'[p]
          /\ \/ at'[p] = "idle" /\ told'[p] = "failed"
             \/ ~error[p] /\ told[p] = "loaded" /\ at'[p] = "idle" /\ told'[p] = told[p]
             \/ ~error[p] /\ told[p] # "loaded" /\ at'[p] = "grab" /\ told'[p] = told[p]
          /\ \A o \in Procs \ {p} : at'[o] = at[o]
          /\ UNCHANGED <<chip, profile, next, alone>>
        BY <1>0, <1>6 DEF Release
    <2>2. Polls(p)' = Polls(p)
        BY <2>1, PageFrame
    <2>3. QED
        BY <2>1, <2>2 DEF LoadInv, Going, chip
<1>7. CASE TimedOut(p) \/ Crash(p)
    <2>1. /\ at'[p] = "idle" /\ told'[p] # "loaded"
          /\ error[p] /\ TimedOut(p) => at[p] = "grab"
          /\ Crash(p) => ~error'[p]
          /\ TimedOut(p) => error'[p] = error[p] /\ at[p] = "grab"
          /\ \A o \in Procs \ {p} : at'[o] = at[o]
          /\ UNCHANGED alone
        BY <1>0, <1>7 DEF TimedOut, Crash
    <2>2. QED
        BY <1>7, <2>1 DEF LoadInv, Going
<1>8. QED
    BY <1>1, <1>2, <1>3, <1>4, <1>5, <1>6, <1>7 DEF Access

\* A process that is not idle is not p's company, unless p is alone no longer.
LEMMA OthersLoad ==
    ASSUME BusInv, NEW p \in Procs, LoadInv(p), NEW o \in Procs, o # p,
           \/ \E s \in Profiles : Load(o, s)
           \/ Grab(o) \/ Access(o) \/ Fail(o) \/ TimedOut(o) \/ Crash(o)
    PROVE  LoadInv(p)'
<1> USE DEF TypeOK
<1>0. TypeOK /\ next \in [Procs -> Nat]
    BY DEF BusInv, OneHolder
<1>1. CASE \E s \in Profiles : Load(o, s)
    <2>1. PICK s \in Profiles : Load(o, s)
        BY <1>1
    <2>2. ~alone'[p]
        BY <2>1 DEF Load
    <2>3. QED
        BY <1>0, <2>1, <2>2, LoadFrame DEF Load
<1>2. CASE Grab(o) \/ Access(o) \/ Fail(o) \/ TimedOut(o) \/ Crash(o)
    <2>1. at[o] # "idle" /\ UNCHANGED <<alone, profile>>
        BY <1>2 DEF Grab, Access, Select, Write, Poll, Release, Fail, TimedOut, Crash
    <2>2. ~alone'[p]
        BY <2>1 DEF LoadInv
    <2>3. at'[p] = at[p] /\ error'[p] = error[p] /\ told'[p] = told[p] /\ next'[p] = next[p]
        BY <1>0, <1>2 DEF Grab, Access, Select, Write, Poll, Release, Fail, TimedOut, Crash
    <2>4. QED
        BY <1>0, <2>1, <2>2, <2>3, LoadFrame
<1>3. QED
    BY <1>1, <1>2

\* Every process's clause holds in every reachable state.
THEOREM LoadInvariant == Spec => []\A p \in Procs : LoadInv(p)
<1> DEFINE Inv == \A p \in Procs : LoadInv(p)
<1>1. Init => Inv
    BY DEF Init, LoadInv, Going
<1>2. BusInv /\ Inv /\ [Next]_vars => Inv'
    <2> SUFFICES ASSUME BusInv, Inv, [Next]_vars, NEW p \in Procs PROVE LoadInv(p)'
        OBVIOUS
    <2>0. LoadInv(p) /\ TypeOK
        BY DEF BusInv, OneHolder
    <2>1. CASE Lock \/ UNCHANGED vars
        <3>1. UNCHANGED <<regs, at, profile, next, error, told, alone>>
            BY <2>1 DEF Lock, vars, chip
        <3>2. alone[p] => \A o \in Procs \ {p} : at[o] = "idle"
            BY <2>0 DEF LoadInv
        <3>3. QED
            BY <2>0, <3>1, <3>2, LoadFrame
    <2>2. ASSUME NEW o \in Procs,
                 \/ \E s \in Profiles : Load(o, s)
                 \/ Grab(o) \/ Access(o) \/ Fail(o) \/ TimedOut(o) \/ Crash(o)
          PROVE  LoadInv(p)'
        BY <2>0, <2>2, OwnLoad, OthersLoad
    <2>3. QED
        BY <2>1, <2>2 DEF Next
<1>3. QED
    BY <1>1, <1>2, BusInvariant, PTL DEF Spec

\* The last line of a file for a register that has one.
LEMMA LastLine ==
    ASSUME NEW s, Len(s) \in Nat, NEW r, Lines(s, r) # {}
    PROVE  \E i \in Lines(s, r) : \A j \in Lines(s, r) : j <= i
<1> DEFINE L == Len(s)
           T == {k \in Nat : k <= L /\ L - k \in Lines(s, r)}
<1>1. Lines(s, r) \subseteq 1 .. L
    BY DEF Lines
<1>2. T # {}
    <2>1. PICK i \in Lines(s, r) : TRUE
        OBVIOUS
    <2>2. L - i \in Nat /\ L - i <= L /\ L - (L - i) = i
        BY <1>1, <2>1
    <2>3. L - i \in T
        BY <2>1, <2>2
    <2>4. QED
        BY <2>3
<1>3. PICK k \in T : \A m \in T : k <= m
    <2>1. T \in SUBSET Nat
        OBVIOUS
    <2> HIDE DEF T
    <2>2. QED
        BY <1>2, <2>1, Least
<1>4. L - k \in Lines(s, r)
    OBVIOUS
<1>5. ASSUME NEW j \in Lines(s, r) PROVE j <= L - k
    <2>1. L - j \in Nat /\ L - j <= L /\ L - (L - j) = j
        BY <1>1
    <2>2. L - j \in T
        BY <2>1
    <2>3. k <= L - j /\ k \in Nat
        BY <1>3, <2>2
    <2>4. QED
        BY <1>1, <2>3
<1>6. QED
    BY <1>4, <1>5

\* A load_profile that returned, of a process that had the chip to itself, has put
\* into every register what the file's last line for it says.
THEOREM ProfileLoadedHolds == Spec => []ProfileLoaded
<1> DEFINE Inv == \A p \in Procs : LoadInv(p)
<1>1. BusInv /\ Inv => ProfileLoaded
    <2> SUFFICES ASSUME BusInv, Inv, NEW p \in Procs, at[p] = "idle", told[p] = "loaded",
                        alone[p], NEW r \in Named
                 PROVE  regs[r] = Loaded(profile[p], r, regs[r])
        BY DEF ProfileLoaded
    <2> DEFINE s == profile[p]
               q == Parsed(s)
    <2>0. TypeOK /\ LoadInv(p)
        BY DEF BusInv, OneHolder
    <2>1. s \in Seq(Items \cup {Comment}) /\ Len(s) \in Nat /\ Len(q) \in Nat
        BY <2>0, LineFacts, ProfilesAssumption, EmptySeq DEF TypeOK
    <2>2. next[p] - 1 = Len(q)
        BY <2>0, <2>1 DEF LoadInv, Polls, BusInv
    <2>3. \A v : Leaves(q, Len(q), r, v) => regs[r] = v
        BY <2>0, <2>2 DEF LoadInv, Going
    <2> HIDE DEF q, s
    <2>4. CASE Lines(s, r) = {}
        BY <2>4 DEF Loaded, s
    <2>5. CASE Lines(s, r) # {}
        <3> DEFINE i == CHOOSE i \in Lines(s, r) : \A j \in Lines(s, r) : j <= i
        <3>1. i \in Lines(s, r) /\ \A j \in Lines(s, r) : j <= i
            BY <2>1, <2>5, LastLine
        <3>2. Loaded(s, r, regs[r]) = s[i].value
            BY <2>5 DEF Loaded
        <3> HIDE DEF i
        <3>3. UpTo(s, Len(s), r) = Lines(s, r)
            BY <2>1 DEF UpTo, Lines
        <3>4. Leaves(s, Len(s), r, s[i].value)
            BY <3>1, <3>3 DEF Leaves
        <3>5. Leaves(q, Len(q), r, s[i].value)
            BY <2>1, <3>4, ParsedFacts DEF q
        <3>6. QED
            BY <2>3, <3>2, <3>5 DEF s
    <2>6. QED
        BY <2>4, <2>5
<1>2. QED
    BY <1>1, BusInvariant, LoadInvariant, PTL
=============================================================================
