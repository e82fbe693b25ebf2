----------------------------- MODULE WebProofs -----------------------------
(***************************************************************************)
(* What TLAPS proves of the parts of the server that have no state to      *)
(* share: for any page size and any number of problems, turning the pages  *)
(* leaves no problem out (ProblemList); for any block size, files are      *)
(* equal exactly when they are found to be (FileCompare); and for texts of *)
(* any length, what of a request arrives and which names meet in a key     *)
(* (RequestTools).                                                         *)
(***************************************************************************)
EXTENDS RequestTools, FileCompare, ProblemList, FiniteSetTheorems, SequenceTheorems,
        WellFoundedInduction, TLAPS

-----------------------------------------------------------------------------
(* ProblemList *)

\* An id that was public when the list was opened still is: no row is changed.
ListInv ==
    /\ table \in Seq(BOOLEAN)
    /\ currentPage \in Nat /\ loading \in Nat
    /\ old \subseteq Public

\* The page of an id begins at or before it, and ends after it.
LEMMA PageOf ==
    ASSUME NEW id \in Nat
    PROVE  /\ id \div PAGE_SIZE \in Nat
           /\ (id \div PAGE_SIZE) * PAGE_SIZE <= id
           /\ id < (id \div PAGE_SIZE) * PAGE_SIZE + PAGE_SIZE
<1>1. PAGE_SIZE \in Nat \ {0}
  BY ListAssumption
<1>2. id \div PAGE_SIZE \in Nat
  BY <1>1
<1>3. (id \div PAGE_SIZE) * PAGE_SIZE <= id
  BY <1>1
<1>4. id < (id \div PAGE_SIZE) * PAGE_SIZE + PAGE_SIZE
  BY <1>1
<1> QED
  BY <1>2, <1>3, <1>4

\* The query for a page finds every public id of the page: the rows before it that are
\* not below the first id of the page are fewer than LIMIT, with or without gaps.
LEMMA PageFindsID ==
    ASSUME NEW id \in Public, Public \subseteq Nat, NEW begin \in Nat,
           begin <= id, id < begin + PAGE_SIZE
    PROVE  id \in get_problem_list(begin)
<1>1. id \in Nat /\ PAGE_SIZE \in Nat
  BY ListAssumption
<1> DEFINE before == {i \in From(begin) : i < id}
<1>2. before \subseteq begin..(id - 1)
  <2> SUFFICES ASSUME NEW i \in Public, i >= begin, i < id PROVE i \in begin..(id - 1)
    BY DEF From
  <2>1. i \in Nat
    OBVIOUS
  <2> QED
    BY <1>1, <2>1
<1>3. /\ IsFiniteSet(begin..(id - 1))
      /\ Cardinality(begin..(id - 1)) = IF begin > id - 1 THEN 0 ELSE (id - 1) - begin + 1
  <2>1. begin \in Int /\ id - 1 \in Int
    BY <1>1
  <2> QED
    BY <2>1, FS_Interval
<1>4. IsFiniteSet(before) /\ Cardinality(before) <= Cardinality(begin..(id - 1))
  <2>1. before \in SUBSET (begin..(id - 1))
    BY <1>2
  <2> HIDE DEF before
  <2> QED
    BY <1>3, <2>1, FS_Subset
<1>5. Cardinality(before) \in Nat
  BY <1>4, FS_CardinalityType
<1>6. Cardinality(before) < PAGE_SIZE
  <2> HIDE DEF before
  <2> QED
    BY <1>1, <1>3, <1>4, <1>5
<1>7. id \in From(begin)
  BY DEF From
<1> QED
  BY <1>6, <1>7 DEF get_problem_list

\* The ids are the numbers from 1 on.
LEMMA IdsAreNumbers ==
    ASSUME ListInv
    PROVE  Public \subseteq Nat
  BY DEF ListInv, Public

\* At the start there are no problems and the list is not open.
LEMMA ListInitInv == ListInit => ListInv /\ NoneIsSkipped
  BY DEF ListInit, ListInv, NoneIsSkipped, Public

\* Rows are only added, and a page number is never below 0.
LEMMA ListStep ==
    ASSUME ListInv, [ListNext]_listVars
    PROVE  ListInv'
<1> USE DEF ListInv
<1>1. CASE AddRow
  <2>1. PICK public \in BOOLEAN : table' = Append(table, public)
    BY <1>1 DEF AddRow
  <2>2. /\ table' \in Seq(BOOLEAN)
        /\ \A id \in DOMAIN table : id \in DOMAIN table' /\ table'[id] = table[id]
    BY <2>1
  <2>3. Public \subseteq Public'
    BY <2>2 DEF Public
  <2> QED
    BY <1>1, <2>2, <2>3 DEF AddRow
<1>2. CASE Open
  BY <1>2 DEF Open, loadProblems, Public
<1>3. CASE Turn
  BY <1>3 DEF Turn, loadProblems, Public
<1>4. CASE Show \/ LoadingFailed \/ UNCHANGED listVars
  BY <1>4 DEF Show, LoadingFailed, listVars, Public
<1> QED
  BY <1>1, <1>2, <1>3, <1>4 DEF ListNext

\* A page that is shown has all the problems of its ids that were there to be listed.
LEMMA SkippedStep ==
    ASSUME ListInv, NoneIsSkipped, [ListNext]_listVars
    PROVE  NoneIsSkipped'
<1>1. CASE Show
  <2> SUFFICES ASSUME NEW id \in old, (id \div PAGE_SIZE) + 1 \in loaded'
               PROVE  id \in seen'
    BY <1>1 DEF Show, NoneIsSkipped
  <2>1. /\ seen' = seen \cup get_problem_list((loading - 1) * PAGE_SIZE)
        /\ loaded' = loaded \cup {loading}
    BY <1>1 DEF Show
  <2>2. CASE (id \div PAGE_SIZE) + 1 \in loaded
    BY <2>1, <2>2 DEF NoneIsSkipped
  <2>3. CASE loading = (id \div PAGE_SIZE) + 1
    <3>1. id \in Public /\ Public \subseteq Nat /\ id \in Nat
      BY IdsAreNumbers DEF ListInv
    <3> DEFINE begin == (id \div PAGE_SIZE) * PAGE_SIZE
    <3>2. id \div PAGE_SIZE \in Nat /\ begin <= id /\ id < begin + PAGE_SIZE
      BY <3>1, PageOf
    <3>3. begin \in Nat
      BY <3>2, ListAssumption
    <3>4. (loading - 1) * PAGE_SIZE = begin
      <4>1. loading - 1 = id \div PAGE_SIZE
        BY <2>3, <3>2
      <4> QED
        BY <4>1
    <3> HIDE DEF begin
    <3>5. id \in get_problem_list(begin)
      BY <3>1, <3>2, <3>3, PageFindsID
    <3> QED
      BY <2>1, <3>4, <3>5
  <2> QED
    BY <2>1, <2>2, <2>3
<1>2. CASE ~Show
  BY <1>2
     DEF ListNext, AddRow, Open, Turn, LoadingFailed, listVars, NoneIsSkipped
<1> QED
  BY <1>1, <1>2

\* The pages leave nothing out, whatever the size of a page, the gaps among the ids, the
\* problems added meanwhile and the order of the pages.
THEOREM NoneIsSkippedHolds == ListSpec => []NoneIsSkipped
<1> DEFINE Inv == ListInv /\ NoneIsSkipped
<1>1. ListInit => Inv
  BY ListInitInv
<1>2. Inv /\ [ListNext]_listVars => Inv'
  BY ListStep, SkippedStep
<1>3. Inv => NoneIsSkipped
  OBVIOUS
<1> HIDE DEF Inv
<1> QED
  BY <1>1, <1>2, <1>3, PTL DEF ListSpec

-----------------------------------------------------------------------------
(* FileCompare *)

\* What has been read of both files is equal; a file that is not open is not read, and
\* the loop is left with 1 only at the end of both.
CompareInv ==
    /\ pos \in Nat /\ result \in {-1, 0, 1} /\ state \in {"idle", "reading", "returned"}
    /\ f1 \in Seq(Bytes) \cup {NoFile} /\ f2 \in Seq(Bytes) \cup {NoFile}
    /\ state = "idle" => pos = 0
    /\ state = "reading" =>
          /\ result = 1 /\ NoFile \notin {f1, f2}
          /\ pos <= Len(f1) /\ pos <= Len(f2)
          /\ \A i \in 1..pos : f1[i] = f2[i]
    /\ FilesCompared

\* fread gives the next bytes of the file, all of a block or as many as are left.
LEMMA BlockIs ==
    ASSUME NEW file \in Seq(Bytes), pos \in Nat, pos <= Len(file)
    PROVE  /\ Block(file) \in Seq(Bytes)
           /\ Len(Block(file)) = IF pos + BlockSize <= Len(file) THEN BlockSize
                                                               ELSE Len(file) - pos
           /\ \A i \in 1..Len(Block(file)) : Block(file)[i] = file[pos + i]
<1> DEFINE end == Min({pos + BlockSize, Len(file)})
<1>1. Len(file) \in Nat /\ BlockSize \in Nat \ {0}
  BY CompareAssumption
<1>2. end = IF pos + BlockSize <= Len(file) THEN pos + BlockSize ELSE Len(file)
  BY <1>1, SMT DEF Min
<1>3. Block(file) = SubSeq(file, pos + 1, end)
  BY DEF Block
<1> HIDE DEF end
<1>4. \A i \in (pos + 1)..end : file[i] \in Bytes
  BY <1>1, <1>2
<1>5. pos + 1 \in Int /\ end \in Int
  BY <1>1, <1>2
<1>6. /\ SubSeq(file, pos + 1, end) \in Seq(Bytes)
      /\ Len(SubSeq(file, pos + 1, end)) = IF pos + 1 <= end THEN end - (pos + 1) + 1 ELSE 0
      /\ \A i \in 1..(end - (pos + 1) + 1) : SubSeq(file, pos + 1, end)[i] = file[pos + 1 + i - 1]
  BY <1>4, <1>5, SubSeqProperties
<1> QED
  BY <1>1, <1>2, <1>3, <1>6

\* A round keeps the invariant: a block that is read in full from both files moves pos
\* on, one that is empty in both is the end of both, and two that differ show a byte, or
\* an end, in which the files differ.
LEMMA CompareBlockKeeps ==
    ASSUME CompareInv, CompareBlock
    PROVE  CompareInv'
<1>1. /\ pos \in Nat /\ pos <= Len(f1) /\ pos <= Len(f2) /\ result = 1
      /\ f1 \in Seq(Bytes) /\ f2 \in Seq(Bytes) /\ NoFile \notin {f1, f2}
      /\ \A i \in 1..pos : f1[i] = f2[i]
  BY DEF CompareInv, CompareBlock
<1>2. BlockSize \in Nat \ {0} /\ Len(f1) \in Nat /\ Len(f2) \in Nat
  BY <1>1, CompareAssumption
<1> DEFINE b1 == Block(f1)
           b2 == Block(f2)
<1>3. /\ b1 \in Seq(Bytes)
      /\ Len(b1) = IF pos + BlockSize <= Len(f1) THEN BlockSize ELSE Len(f1) - pos
      /\ \A i \in 1..Len(b1) : b1[i] = f1[pos + i]
  BY <1>1, BlockIs
<1>4. /\ b2 \in Seq(Bytes)
      /\ Len(b2) = IF pos + BlockSize <= Len(f2) THEN BlockSize ELSE Len(f2) - pos
      /\ \A i \in 1..Len(b2) : b2[i] = f2[pos + i]
  BY <1>1, BlockIs
<1>5. /\ f1' = f1 /\ f2' = f2 /\ pos' = pos + Len(b1)
      /\ \/ ~SameBlock /\ result' = 0 /\ state' = "returned"
         \/ SameBlock /\ result' = result
            /\ state' = IF b1 # <<>> /\ b2 # <<>> THEN "reading" ELSE "returned"
      /\ SameBlock <=> Len(b1) = Len(b2) /\ b1 = b2
  BY DEF CompareBlock, SameBlock
<1> HIDE DEF b1, b2
<1>6. Len(b1) \in Nat /\ Len(b2) \in Nat
  BY <1>3, <1>4
<1>7. /\ pos' \in Nat /\ result' \in {-1, 0, 1} /\ state' \in {"reading", "returned"}
      /\ f1' \in Seq(Bytes) /\ f2' \in Seq(Bytes) /\ NoFile \notin {f1', f2'}
      /\ result' # -1
  BY <1>1, <1>5, <1>6
<1>8. CASE ~SameBlock
  <2>1. f1 # f2
    <3> SUFFICES ASSUME f1 = f2 PROVE FALSE
      OBVIOUS
    <3>1. Len(b1) = Len(b2) /\ \A i \in 1..Len(b1) : b1[i] = b2[i]
      BY <1>2, <1>3, <1>4, <1>6
    <3>2. b1 = b2
      BY <3>1, <1>3, <1>4, SeqEqual
    <3> QED
      BY <1>5, <1>8, <3>1, <3>2
  <2>2. result' = 0 /\ state' = "returned"
    BY <1>5, <1>8
  <2> QED
    BY <1>5, <1>7, <2>1, <2>2 DEF CompareInv, FilesCompared
<1>9. CASE SameBlock
  <2>1. b1 = b2 /\ result' = 1
    BY <1>1, <1>5, <1>9
  <2>2. pos' <= Len(f1) /\ pos' <= Len(f2)
    BY <1>1, <1>2, <1>3, <1>4, <1>5, <2>1
  <2>3. \A i \in 1..pos' : f1[i] = f2[i]
    <3> SUFFICES ASSUME NEW i \in 1..pos' PROVE f1[i] = f2[i]
      OBVIOUS
    <3>1. CASE i <= pos
      BY <1>1, <3>1
    <3>2. CASE i > pos
      <4>1. i - pos \in 1..Len(b1) /\ pos + (i - pos) = i
        BY <1>1, <1>5, <1>6, <3>2
      <4> QED
        BY <1>3, <1>4, <2>1, <4>1
    <3> QED
      BY <1>1, <1>5, <1>6, <3>1, <3>2
  <2>4. CASE b1 # <<>>
    <3>1. state' = "reading"
      BY <1>5, <1>9, <2>1, <2>4
    <3> QED
      BY <1>5, <1>7, <2>1, <2>2, <2>3, <3>1 DEF CompareInv, FilesCompared
  <2>5. CASE b1 = <<>>
    <3>1. state' = "returned" /\ Len(b1) = 0
      BY <1>5, <1>9, <2>1, <2>5
    <3>2. Len(f1) = pos /\ Len(f2) = pos
      <4>1. Len(b2) = 0
        BY <2>1, <3>1
      <4>2. Len(f1) = pos
        BY <1>1, <1>2, <1>3, <3>1
      <4>3. Len(f2) = pos
        BY <1>1, <1>2, <1>4, <4>1
      <4> QED
        BY <4>2, <4>3
    <3>3. f1 = f2
      BY <1>1, <3>2, SeqEqual
    <3> QED
      BY <1>5, <1>7, <2>1, <3>1, <3>3 DEF CompareInv, FilesCompared
  <2> QED
    BY <2>4, <2>5
<1> QED
  BY <1>8, <1>9

\* FilesCompared holds of every behaviour: for files of any length and blocks of any
\* size, file_cmp returns 1 exactly for two files that are equal, and -1 exactly when one
\* of them cannot be opened.
THEOREM FilesComparedHolds == CompareSpec => []FilesCompared
<1>1. CompareInit => CompareInv
  BY DEF CompareInit, CompareInv, FilesCompared
<1>2. CompareInv /\ [CompareNext]_compareVars => CompareInv'
  <2> SUFFICES ASSUME CompareInv, [CompareNext]_compareVars PROVE CompareInv'
    OBVIOUS
  <2>1. CASE OpenFiles
    <3>1. /\ f1' \in Seq(Bytes) \cup {NoFile} /\ f2' \in Seq(Bytes) \cup {NoFile}
          /\ pos = 0 /\ pos' = 0
      BY <2>1, CompareAssumption DEF OpenFiles, CompareInv
    <3>2. CASE NoFile \in {f1', f2'}
      <4>1. result' = -1 /\ state' = "returned"
        BY <2>1, <3>2 DEF OpenFiles
      <4> QED
        BY <3>1, <3>2, <4>1 DEF CompareInv, FilesCompared
    <3>3. CASE NoFile \notin {f1', f2'}
      <4>1. result' = 1 /\ state' = "reading"
        BY <2>1, <3>3 DEF OpenFiles
      <4>2. Len(f1') \in Nat /\ Len(f2') \in Nat
        BY <3>1, <3>3
      <4> QED
        BY <3>1, <3>3, <4>1, <4>2 DEF CompareInv, FilesCompared
    <3> QED
      BY <3>2, <3>3
  <2>2. CASE CompareBlock
    BY <2>2, CompareBlockKeeps
  <2>3. CASE UNCHANGED compareVars
    BY <2>3 DEF CompareInv, FilesCompared, compareVars
  <2> QED
    BY <2>1, <2>2, <2>3 DEF CompareNext
<1>3. CompareInv => FilesCompared
  BY DEF CompareInv
<1> QED
  BY <1>1, <1>2, <1>3, PTL DEF CompareSpec

-----------------------------------------------------------------------------
(* RequestTools: texts *)

\* The numbers are well ordered by <: a set of them that is not empty has a least one.
LEMMA LeastMember ==
    ASSUME NEW P, P \subseteq Nat, P # {}
    PROVE  \E m \in P : \A i \in P : m <= i
<1>1. \A i, m \in Nat : i < m => <<i, m>> \in OpToRel(<, Nat)
  BY Zenon DEF OpToRel
<1>2. PICK m \in P : \A i \in P : ~(<<i, m>> \in OpToRel(<, Nat))
  BY NatLessThanWellFounded, WFMin, Zenon
<1>3. \A i \in P : ~(i < m)
  BY <1>1, <1>2, Zenon
<1> QED
  BY <1>3

\* find() finds the first place of a symbol that is there.
LEMMA FindFirst ==
    ASSUME NEW S, NEW text \in Seq(S), NEW c, Contains(text, c)
    PROVE  /\ Find(text, c) \in 1..Len(text)
           /\ text[Find(text, c)] = c
           /\ \A i \in 1..(Find(text, c) - 1) : text[i] # c
<1> DEFINE P == Positions(text, c)
<1>1. Len(text) \in Nat
  OBVIOUS
<1>2. P # {} /\ P \subseteq Nat /\ P \subseteq 1..Len(text)
  BY <1>1 DEF Contains, Positions
<1>3. \E m \in P : \A i \in P : m <= i
  <2> HIDE DEF P
  <2> QED
    BY <1>2, LeastMember
<1>4. Find(text, c) \in P /\ \A i \in P : Find(text, c) <= i
  BY <1>3 DEF Find, Min
<1> QED
  BY <1>1, <1>2, <1>4 DEF Positions

\* What find() and substr() give when the first place of a symbol is known ...
LEMMA FindIs ==
    ASSUME NEW S, NEW text \in Seq(S), NEW c, NEW p \in 1..Len(text), text[p] = c,
           \A i \in 1..(p - 1) : text[i] # c
    PROVE  /\ Contains(text, c) /\ Find(text, c) = p
           /\ Before(text, c) = SubSeq(text, 1, p - 1)
           /\ After(text, c) = SubSeq(text, p + 1, Len(text))
<1>1. Contains(text, c) /\ Len(text) \in Nat
  BY DEF Contains
<1>2. /\ Find(text, c) \in 1..Len(text) /\ text[Find(text, c)] = c
      /\ \A i \in 1..(Find(text, c) - 1) : text[i] # c
  BY <1>1, FindFirst
<1>3. Find(text, c) = p
  BY <1>1, <1>2
<1> QED
  BY <1>1, <1>3 DEF Before, After

\* ... and when the symbol is not there.
LEMMA FindNone ==
    ASSUME NEW S, NEW text \in Seq(S), NEW c, ~Contains(text, c)
    PROVE  Before(text, c) = text /\ After(text, c) = text
BY SubSeqFull DEF Before, After, Find

\* The text before a symbol is the longest beginning without it.
LEMMA BeforeIs ==
    ASSUME NEW S, NEW text \in Seq(S), NEW c
    PROVE  /\ Before(text, c) \in Seq(S)
           /\ Len(Before(text, c)) <= Len(text)
           /\ \A i \in 1..Len(Before(text, c)) : Before(text, c)[i] = text[i] /\ text[i] # c
           /\ Len(Before(text, c)) < Len(text) => text[Len(Before(text, c)) + 1] = c
<1>1. Len(text) \in Nat /\ \A i \in 1..Len(text) : text[i] \in S
  OBVIOUS
<1>2. CASE ~Contains(text, c)
  BY <1>1, <1>2 DEF Before, Contains
<1>3. CASE Contains(text, c)
  <2> DEFINE p == Find(text, c)
  <2>1. p \in 1..Len(text) /\ text[p] = c /\ \A i \in 1..(p - 1) : text[i] # c
    BY <1>3, FindFirst
  <2>2. Before(text, c) = SubSeq(text, 1, p - 1)
    BY <1>3 DEF Before
  <2> HIDE DEF p
  <2>3. 1 \in Int /\ p - 1 \in Int /\ \A i \in 1..(p - 1) : text[i] \in S
    BY <1>1, <2>1
  <2>4. /\ SubSeq(text, 1, p - 1) \in Seq(S)
        /\ Len(SubSeq(text, 1, p - 1)) = IF 1 <= p - 1 THEN p - 1 - 1 + 1 ELSE 0
        /\ \A i \in 1..(p - 1 - 1 + 1) : SubSeq(text, 1, p - 1)[i] = text[1 + i - 1]
    BY <2>3, SubSeqProperties
  <2>5. Len(SubSeq(text, 1, p - 1)) = p - 1
    BY <2>1, <2>4
  <2> QED
    BY <1>1, <2>1, <2>2, <2>4, <2>5
<1> QED
  BY <1>2, <1>3

\* A symbol that is in the first of two texts ends it there; if it is not, and the second
\* begins with it, it stands between the two.
LEMMA BeforeConcat ==
    ASSUME NEW S, NEW s \in Seq(S), NEW t \in Seq(S), NEW c
    PROVE  /\ Contains(s, c) => Before(s \o t, c) = Before(s, c)
           /\ ~Contains(s, c) /\ t # <<>> /\ t[1] = c =>
                  Before(s \o t, c) = s /\ After(s \o t, c) = SubSeq(t, 2, Len(t))
<1>1. /\ s \o t \in Seq(S) /\ Len(s \o t) = Len(s) + Len(t)
      /\ \A i \in 1..(Len(s) + Len(t)) :
            (s \o t)[i] = IF i <= Len(s) THEN s[i] ELSE t[i - Len(s)]
  BY ConcatProperties
<1>2. Len(s) \in Nat /\ Len(t) \in Nat
  OBVIOUS
<1>3. ASSUME Contains(s, c) PROVE Before(s \o t, c) = Before(s, c)
  <2> DEFINE p == Find(s, c)
  <2>1. p \in 1..Len(s) /\ s[p] = c /\ \A i \in 1..(p - 1) : s[i] # c
    BY <1>3, FindFirst
  <2>2. Before(s, c) = SubSeq(s, 1, p - 1)
    BY <1>3 DEF Before
  <2> HIDE DEF p
  <2>3. p \in 1..Len(s \o t) /\ (s \o t)[p] = c /\ \A i \in 1..(p - 1) : (s \o t)[i] # c
    BY <1>1, <1>2, <2>1
  <2>4. Before(s \o t, c) = SubSeq(s \o t, 1, p - 1)
    BY <1>1, <2>3, FindIs
  <2>5. SubSeq(s \o t, 1, p - 1) = SubSeq(s, 1, p - 1)
    <3>1. CASE p = 1
      BY <3>1, SubSeqEmpty
    <3>2. CASE p # 1
      <4>1. 1 \in 1..Len(s) /\ p - 1 \in 1..Len(s)
        BY <1>2, <2>1, <3>2
      <4> QED
        BY <4>1, SubSeqOfConcat1
    <3> QED
      BY <3>1, <3>2
  <2> QED
    BY <2>2, <2>4, <2>5
<1>4. ASSUME ~Contains(s, c), t # <<>>, t[1] = c
      PROVE  Before(s \o t, c) = s /\ After(s \o t, c) = SubSeq(t, 2, Len(t))
  <2> DEFINE p == Len(s) + 1
  <2>1. Len(t) >= 1
    BY <1>2, <1>4, EmptySeq
  <2>2. p \in 1..Len(s \o t) /\ (s \o t)[p] = c
    BY <1>1, <1>2, <1>4, <2>1
  <2>3. \A i \in 1..(p - 1) : (s \o t)[i] # c
    BY <1>1, <1>2, <1>4 DEF Contains
  <2>4. /\ Before(s \o t, c) = SubSeq(s \o t, 1, p - 1)
        /\ After(s \o t, c) = SubSeq(s \o t, p + 1, Len(s \o t))
    <3> HIDE DEF p
    <3> QED
      BY <1>1, <2>2, <2>3, FindIs
  <2>5. SubSeq(s \o t, 1, p - 1) = s
    <3>1. /\ SubSeq(s \o t, 1, p - 1) \in Seq(S) /\ Len(SubSeq(s \o t, 1, p - 1)) = Len(s)
          /\ \A i \in 1..Len(s) : SubSeq(s \o t, 1, p - 1)[i] = s[i]
      BY <1>1, <1>2
    <3> QED
      BY <3>1, SeqEqual
  <2>6. SubSeq(s \o t, p + 1, Len(s \o t)) = SubSeq(t, 2, Len(t))
    <3>1. CASE Len(t) = 1
      <4>1. SubSeq(s \o t, p + 1, Len(s \o t)) = <<>>
        <5>1. p + 1 \in Int /\ Len(s \o t) \in Int /\ Len(s \o t) < p + 1
          BY <1>1, <1>2, <3>1
        <5> QED
          BY <5>1, SubSeqEmpty
      <4>2. SubSeq(t, 2, Len(t)) = <<>>
        BY <3>1, SubSeqEmpty
      <4> QED
        BY <4>1, <4>2
    <3>2. CASE Len(t) >= 2
      <4>1. /\ Len(s) + 2 \in (Len(s) + 1)..(Len(s) + Len(t))
            /\ Len(s) + Len(t) \in (Len(s) + 1)..(Len(s) + Len(t))
            /\ p + 1 = Len(s) + 2 /\ Len(s) + 2 - Len(s) = 2
            /\ Len(s) + Len(t) - Len(s) = Len(t)
        <5>1. \A m, n \in Nat : n >= 2 => /\ m + 2 \in (m + 1)..(m + n)
                                        /\ m + n \in (m + 1)..(m + n)
                                        /\ (m + 1) + 1 = m + 2
                                        /\ m + 2 - m = 2 /\ m + n - m = n
          OBVIOUS
        <5> QED
          BY <1>2, <3>2, <5>1
      <4>2. SubSeq(s \o t, Len(s) + 2, Len(s) + Len(t))
                = SubSeq(t, Len(s) + 2 - Len(s), Len(s) + Len(t) - Len(s))
        BY <4>1, SubSeqOfConcat2
      <4> QED
        BY <1>1, <4>1, <4>2
    <3>3. \A n \in Nat : n >= 1 => n = 1 \/ n >= 2
      OBVIOUS
    <3> QED
      BY <1>2, <2>1, <3>1, <3>2, <3>3
  <2> QED
    BY <2>4, <2>5, <2>6
<1> QED
  BY <1>3, <1>4

-----------------------------------------------------------------------------
(* RequestTools: decoding and splitting *)

\* What a URI consists of.
Signs == Symbols \cup {"/", "?", "x", "y", "&", "=", "+", " ", "#", "A"} \cup DOMAIN Meaning

\* What is left of a URI behind the "?".
KV(a, b) == (<<"x", "=">> \o a) \o (<<"&", "y", "=">> \o b)

\* An escape is undone, a "+" becomes a blank, and all else stays.
LEMMA UnescapedIs ==
    /\ \A c \in Symbols : Unescaped(IF c \in DOMAIN Escape THEN Escape[c] ELSE c) = c
    /\ \A c \in DOMAIN Escape : Escape[c] \in Signs
    /\ \A c \in {"/", "?", "x", "y", "&", "="} : Unescaped(c) = c
    /\ \A c \in Unsafe \ {"#"} : Unescaped(c) # c
    /\ \A c : c \notin Unsafe => Unescaped(c) = c
    /\ \A c \in Signs : Unescaped(c) \in Signs
<1>1. /\ DOMAIN Escape = {"&", "=", "+", " ", "#", "%26", "%41"}
      /\ Escape["&"] = "%26" /\ Escape["="] = "%3D" /\ Escape["+"] = "%2B" /\ Escape[" "] = "%20"
      /\ Escape["#"] = "%23" /\ Escape["%26"] = "%2526" /\ Escape["%41"] = "%2541"
  BY DEF Escape
<1>2. /\ DOMAIN Meaning = {"%26", "%3D", "%2B", "%20", "%23", "%41", "%2526", "%2541"}
      /\ Meaning["%26"] = "&" /\ Meaning["%3D"] = "=" /\ Meaning["%2B"] = "+"
      /\ Meaning["%20"] = " " /\ Meaning["%23"] = "#" /\ Meaning["%41"] = "A"
      /\ Meaning["%2526"] = "%26" /\ Meaning["%2541"] = "%41"
  BY DEF Meaning
<1>3. \A c \in DOMAIN Escape : Escape[c] \in DOMAIN Meaning /\ Meaning[Escape[c]] = c
  BY <1>1, <1>2
<1>4. \A c \in DOMAIN Escape : Escape[c] # "+" /\ Unescaped(Escape[c]) = c
  BY <1>1, <1>3 DEF Unescaped
<1>5. ASSUME NEW c \in Symbols, c \notin DOMAIN Escape PROVE Unescaped(c) = c
  BY <1>1, <1>5, ToolsAssumption DEF Unescaped
<1>6. \A c \in Symbols : Unescaped(IF c \in DOMAIN Escape THEN Escape[c] ELSE c) = c
  BY <1>4, <1>5
<1>7. \A c \in {"/", "?", "x", "y", "&", "="} : Unescaped(c) = c
  BY <1>2 DEF Unescaped
<1>8. \A c \in DOMAIN Meaning : Meaning[c] # c /\ c # "+" /\ Meaning[c] \in Signs
  BY <1>2 DEF Signs
<1>9. \A c \in Unsafe \ {"#"} : Unescaped(c) # c
  BY <1>8 DEF Unescaped, Unsafe
<1>10. \A c : c \notin Unsafe => Unescaped(c) = c
  BY DEF Unescaped, Unsafe
<1>11. \A c \in Signs : Unescaped(c) \in Signs
  BY <1>8 DEF Unescaped, Signs
<1>12. \A c \in DOMAIN Escape : Escape[c] \in Signs
  BY <1>3 DEF Signs
<1> QED
  BY <1>6, <1>7, <1>9, <1>10, <1>11, <1>12

\* url_decode decodes symbol by symbol.
LEMMA DecodedIs ==
    ASSUME NEW e \in Seq(Signs)
    PROVE  /\ url_decode(e) \in Seq(Signs) /\ Len(url_decode(e)) = Len(e)
           /\ \A i \in 1..Len(e) : url_decode(e)[i] = Unescaped(e[i])
<1>1. DOMAIN e = 1..Len(e) /\ Len(e) \in Nat /\ \A i \in 1..Len(e) : e[i] \in Signs
  OBVIOUS
<1>2. url_decode(e) = [i \in 1..Len(e) |-> Unescaped(e[i])]
  BY <1>1 DEF url_decode
<1>3. \A i \in 1..Len(e) : Unescaped(e[i]) \in Signs
  BY <1>1, UnescapedIs
<1> QED
  BY <1>1, <1>2, <1>3

\* Decoding undoes the encoding.
LEMMA EncodedArrives ==
    ASSUME NEW x \in Seq(Symbols)
    PROVE  /\ encodeURIComponent(x) \in Seq(Signs)
           /\ url_decode(encodeURIComponent(x)) = x
<1> DEFINE e == encodeURIComponent(x)
<1>1. /\ DOMAIN x = 1..Len(x) /\ Len(x) \in Nat
      /\ \A i \in 1..Len(x) : x[i] \in Symbols /\ x[i] \in Signs
  <2>1. Symbols \subseteq Signs
    BY DEF Signs
  <2> QED
    BY <2>1
<1>2. e = [i \in 1..Len(x) |-> IF x[i] \in DOMAIN Escape THEN Escape[x[i]] ELSE x[i]]
  BY <1>1 DEF encodeURIComponent
<1>3. \A i \in 1..Len(x) : (IF x[i] \in DOMAIN Escape THEN Escape[x[i]] ELSE x[i]) \in Signs
  BY <1>1, UnescapedIs
<1>4. e \in Seq(Signs) /\ Len(e) = Len(x)
  BY <1>1, <1>2, <1>3
<1>5. \A i \in 1..Len(x) : Unescaped(e[i]) = x[i]
  BY <1>1, <1>2, UnescapedIs
<1> HIDE DEF e
<1>6. /\ url_decode(e) \in Seq(Signs) /\ Len(url_decode(e)) = Len(x)
      /\ \A i \in 1..Len(x) : url_decode(e)[i] = x[i]
  BY <1>4, <1>5, DecodedIs
<1>7. x \in Seq(Signs)
  BY <1>1
<1>8. url_decode(e) = x
  BY <1>6, <1>7, SeqEqual
<1> QED
  BY <1>4, <1>8 DEF e

\* Decoding goes through the parts of a text one by one.
LEMMA DecodedConcat ==
    ASSUME NEW s \in Seq(Signs), NEW t \in Seq(Signs)
    PROVE  url_decode(s \o t) = url_decode(s) \o url_decode(t)
<1> DEFINE st == s \o t
           l == url_decode(st)
           ds == url_decode(s)
           dt == url_decode(t)
           r == ds \o dt
           m == Len(s)
           n == Len(t)
<1>1. m \in Nat /\ n \in Nat
  OBVIOUS
<1>2. /\ st \in Seq(Signs) /\ Len(st) = m + n
      /\ \A i \in 1..(m + n) : st[i] = IF i <= m THEN s[i] ELSE t[i - m]
  BY ConcatProperties
<1>3. l \in Seq(Signs) /\ Len(l) = m + n /\ \A i \in 1..(m + n) : l[i] = Unescaped(st[i])
  BY <1>2, DecodedIs
<1>4. /\ ds \in Seq(Signs) /\ Len(ds) = m /\ \A i \in 1..m : ds[i] = Unescaped(s[i])
      /\ dt \in Seq(Signs) /\ Len(dt) = n /\ \A i \in 1..n : dt[i] = Unescaped(t[i])
  BY DecodedIs
<1> HIDE DEF st, l, ds, dt, m, n
<1>5. /\ r \in Seq(Signs) /\ Len(r) = m + n
      /\ \A i \in 1..(m + n) : r[i] = IF i <= m THEN ds[i] ELSE dt[i - m]
  BY <1>4, ConcatProperties
<1> HIDE DEF r
<1>6. \A i \in 1..(m + n) : l[i] = r[i]
  <2> SUFFICES ASSUME NEW i \in 1..(m + n) PROVE l[i] = r[i]
    OBVIOUS
  <2>1. CASE i <= m
    <3>1. i \in 1..m
      BY <1>1, <2>1
    <3> QED
      BY <1>2, <1>3, <1>4, <1>5, <2>1, <3>1
  <2>2. CASE ~(i <= m)
    <3>1. i - m \in 1..n
      BY <1>1, <2>2
    <3> QED
      BY <1>2, <1>3, <1>4, <1>5, <2>2, <3>1
  <2> QED
    BY <2>1, <2>2
<1>7. l = r
  BY <1>3, <1>5, <1>6, SeqEqual
<1> QED
  BY <1>7 DEF st, l, r, ds, dt

\* The fixed parts of a URI are the same decoded.
LEMMA FixedParts ==
    /\ <<"/", "?">> \in Seq(Signs) /\ <<"x", "=">> \in Seq(Signs)
    /\ <<"&", "y", "=">> \in Seq(Signs)
    /\ url_decode(<<"/", "?">>) = <<"/", "?">>
    /\ url_decode(<<"x", "=">>) = <<"x", "=">>
    /\ url_decode(<<"&", "y", "=">>) = <<"&", "y", "=">>
<1>1. {"/", "?", "x", "y", "&", "="} \subseteq Signs
  BY DEF Signs
<1>2. \A c \in {"/", "?", "x", "y", "&", "="} : Unescaped(c) = c
  BY UnescapedIs
<1>3. /\ <<"/", "?">> \in Seq(Signs) /\ <<"x", "=">> \in Seq(Signs)
      /\ <<"&", "y", "=">> \in Seq(Signs)
  BY <1>1
<1>4. url_decode(<<"/", "?">>) = <<"/", "?">>
  <2> DEFINE e == <<"/", "?">>
  <2>1. e \in Seq(Signs) /\ Len(e) = 2 /\ \A i \in 1..2 : Unescaped(e[i]) = e[i]
    BY <1>2, <1>3
  <2> HIDE DEF e
  <2>2. /\ url_decode(e) \in Seq(Signs) /\ Len(url_decode(e)) = 2
        /\ \A i \in 1..2 : url_decode(e)[i] = e[i]
    BY <2>1, DecodedIs
  <2>3. url_decode(e) = e
    BY <2>1, <2>2, SeqEqual
  <2> QED
    BY <2>3 DEF e
<1>5. url_decode(<<"x", "=">>) = <<"x", "=">>
  <2> DEFINE e == <<"x", "=">>
  <2>1. e \in Seq(Signs) /\ Len(e) = 2 /\ \A i \in 1..2 : Unescaped(e[i]) = e[i]
    BY <1>2, <1>3
  <2> HIDE DEF e
  <2>2. /\ url_decode(e) \in Seq(Signs) /\ Len(url_decode(e)) = 2
        /\ \A i \in 1..2 : url_decode(e)[i] = e[i]
    BY <2>1, DecodedIs
  <2>3. url_decode(e) = e
    BY <2>1, <2>2, SeqEqual
  <2> QED
    BY <2>3 DEF e
<1>6. url_decode(<<"&", "y", "=">>) = <<"&", "y", "=">>
  <2> DEFINE e == <<"&", "y", "=">>
  <2>1. e \in Seq(Signs) /\ Len(e) = 3 /\ \A i \in 1..3 : Unescaped(e[i]) = e[i]
    BY <1>2, <1>3
  <2> HIDE DEF e
  <2>2. /\ url_decode(e) \in Seq(Signs) /\ Len(url_decode(e)) = 3
        /\ \A i \in 1..3 : url_decode(e)[i] = e[i]
    BY <2>1, DecodedIs
  <2>3. url_decode(e) = e
    BY <2>1, <2>2, SeqEqual
  <2> QED
    BY <2>3 DEF e
<1> QED
  BY <1>3, <1>4, <1>5, <1>6

\* It does not matter in which order the parts of a URI are joined.
LEMMA Associative ==
    ASSUME NEW s \in Seq(Signs), NEW t \in Seq(Signs), NEW u \in Seq(Signs)
    PROVE  (s \o t) \o u = s \o (t \o u)
BY ConcatAssociative

\* The two pairs stand behind the "?".
LEMMA QueryIs ==
    ASSUME NEW e1 \in Seq(Signs), NEW e2 \in Seq(Signs)
    PROVE  Query(e1, e2) = <<"/", "?">> \o KV(e1, e2)
<1> DEFINE x == <<"x", "=">>
           y == <<"&", "y", "=">>
           start == <<"/", "?">>
<1>1. x \in Seq(Signs) /\ y \in Seq(Signs) /\ start \in Seq(Signs)
  BY FixedParts
<1>2. <<"/", "?", "x", "=">> = start \o x
  OBVIOUS
<1>3. Query(e1, e2) = (((start \o x) \o e1) \o y) \o e2
  BY <1>2 DEF Query
<1>4. KV(e1, e2) = (x \o e1) \o (y \o e2)
  BY DEF KV
<1> HIDE DEF x, y, start
<1>5. /\ x \o e1 \in Seq(Signs) /\ y \o e2 \in Seq(Signs)
      /\ start \o x \in Seq(Signs) /\ (start \o x) \o e1 \in Seq(Signs)
  BY <1>1, ConcatProperties
<1>6. (start \o x) \o e1 = start \o (x \o e1)
  BY <1>1, Associative
<1> DEFINE head == (start \o x) \o e1
           xe == x \o e1
           ye == y \o e2
<1>7. (head \o y) \o e2 = head \o ye
  <2>1. head \in Seq(Signs)
    BY <1>5
  <2> HIDE DEF head
  <2> QED
    BY <1>1, Associative, <2>1
<1>8. (start \o xe) \o ye = start \o (xe \o ye)
  <2>1. xe \in Seq(Signs) /\ ye \in Seq(Signs)
    BY <1>5
  <2> HIDE DEF xe, ye
  <2> QED
    BY <1>1, Associative, <2>1
<1> QED
  BY <1>3, <1>4, <1>6, <1>7, <1>8 DEF start

\* What is behind the "?" of a URI is found, decoded, by a handler.
LEMMA BehindQuestion ==
    ASSUME NEW e \in Seq(Signs)
    PROVE  After(url_decode(<<"/", "?">> \o e), "?") = url_decode(e)
<1> DEFINE K == url_decode(e)
<1>1. K \in Seq(Signs) /\ url_decode(<<"/", "?">> \o e) = <<"/", "?">> \o K
  BY DecodedIs, FixedParts, DecodedConcat
<1> HIDE DEF K
<1>2. <<"/", "?">> \o K = <<"/">> \o (<<"?">> \o K)
  <2>1. "/" \in Signs /\ "?" \in Signs
    BY DEF Signs
  <2>2. <<"/">> \in Seq(Signs) /\ <<"?">> \in Seq(Signs) /\ <<"/", "?">> = <<"/">> \o <<"?">>
    BY <2>1
  <2> QED
    BY <1>1, <2>2, ConcatAssociative
<1>3. After(<<"/">> \o (<<"?">> \o K), "?") = K
  <2> DEFINE t == <<"?">> \o K
  <2>1. <<"/">> \in Seq(Signs) /\ <<"?">> \in Seq(Signs)
    <3>1. "/" \in Signs /\ "?" \in Signs
      BY DEF Signs
    <3> QED
      BY <3>1
  <2>2. t \in Seq(Signs) /\ Len(t) = 1 + Len(K) /\ t[1] = "?"
    BY <1>1, <2>1, ConcatProperties
  <2>3. t # <<>>
    BY <1>1, <2>2
  <2>4. ~Contains(<<"/">>, "?")
    BY DEF Contains
  <2>5. SubSeq(t, 2, Len(t)) = K
    <3>1. Len(K) \in Nat
      BY <1>1
    <3>2. \A i \in 1..Len(K) : t[i + 1] = K[i]
      BY <1>1, <2>1, <3>1, ConcatProperties
    <3> HIDE DEF t
    <3>3. /\ SubSeq(t, 2, Len(t)) \in Seq(Signs) /\ Len(SubSeq(t, 2, Len(t))) = Len(K)
          /\ \A i \in 1..Len(K) : SubSeq(t, 2, Len(t))[i] = t[i + 1]
      BY <2>2, <3>1
    <3> QED
      BY <1>1, <3>2, <3>3, SeqEqual
  <2> HIDE DEF t
  <2>6. After(<<"/">> \o t, "?") = SubSeq(t, 2, Len(t))
    BY <2>1, <2>2, <2>3, <2>4, BeforeConcat
  <2> QED
    BY <2>5, <2>6 DEF t
<1> QED
  BY <1>1, <1>2, <1>3 DEF K

\* A handler finds the two values, decoded, behind the "?".
LEMMA QueryArrives ==
    ASSUME NEW e1 \in Seq(Signs), NEW e2 \in Seq(Signs)
    PROVE  After(url_decode(Query(e1, e2)), "?") = KV(url_decode(e1), url_decode(e2))
<1> DEFINE a == url_decode(e1)
           b == url_decode(e2)
           K == KV(a, b)
<1>1. a \in Seq(Signs) /\ b \in Seq(Signs)
  BY DecodedIs
<1>2. Query(e1, e2) = <<"/", "?">> \o KV(e1, e2)
  BY QueryIs
<1>3. /\ url_decode(KV(e1, e2)) = K
      /\ KV(e1, e2) \in Seq(Signs) /\ K \in Seq(Signs)
  <2>1. /\ <<"x", "=">> \o e1 \in Seq(Signs) /\ <<"&", "y", "=">> \o e2 \in Seq(Signs)
        /\ <<"x", "=">> \o a \in Seq(Signs) /\ <<"&", "y", "=">> \o b \in Seq(Signs)
    BY <1>1, FixedParts, ConcatProperties
  <2>2. /\ url_decode(<<"x", "=">> \o e1) = <<"x", "=">> \o a
        /\ url_decode(<<"&", "y", "=">> \o e2) = <<"&", "y", "=">> \o b
    BY FixedParts, DecodedConcat
  <2>3. url_decode((<<"x", "=">> \o e1) \o (<<"&", "y", "=">> \o e2))
            = (<<"x", "=">> \o a) \o (<<"&", "y", "=">> \o b)
    BY <2>1, <2>2, DecodedConcat
  <2>4. /\ (<<"x", "=">> \o e1) \o (<<"&", "y", "=">> \o e2) \in Seq(Signs)
        /\ (<<"x", "=">> \o a) \o (<<"&", "y", "=">> \o b) \in Seq(Signs)
    BY <2>1, ConcatProperties
  <2> QED
    BY <2>3, <2>4 DEF KV
<1> HIDE DEF a, b, K
<1> QED
  BY <1>2, <1>3, BehindQuestion DEF K, a, b

\* A pair is split at its first "=": the key has none.
LEMMA PairIs ==
    ASSUME NEW k \in {"x", "y"}, NEW v \in Seq(Signs)
    PROVE  /\ <<k, "=">> \o v \in Seq(Signs)
           /\ Before(<<k, "=">> \o v, "=") = <<k>>
           /\ After(<<k, "=">> \o v, "=") = v
           /\ Before(<<k, "=">> \o v, "&") = <<k, "=">> \o Before(v, "&")
           /\ Contains(<<k, "=">> \o v, "&") <=> Contains(v, "&")
<1> DEFINE s == <<k, "=">> \o v
           n == Len(v)
           w == Before(v, "&")
           r == <<k, "=">> \o w
<1>1. k \in Signs /\ "=" \in Signs /\ n \in Nat
  <2>1. k \in Signs /\ "=" \in Signs
    BY DEF Signs
  <2> QED
    BY <2>1
<1>2. <<k, "=">> \in Seq(Signs) /\ <<k>> \in Seq(Signs) /\ Len(<<k, "=">>) = 2
  BY <1>1
<1>3. /\ s \in Seq(Signs) /\ Len(s) = n + 2 /\ s[1] = k /\ s[2] = "="
      /\ \A i \in 1..n : s[i + 2] = v[i]
  BY <1>1, <1>2, ConcatProperties
<1>4. /\ w \in Seq(Signs) /\ Len(w) <= n
      /\ \A i \in 1..Len(w) : w[i] = v[i] /\ v[i] # "&"
      /\ Len(w) < n => v[Len(w) + 1] = "&"
  BY BeforeIs
<1> HIDE DEF w
<1>5. Len(w) \in Nat
  BY <1>4
<1>6. /\ r \in Seq(Signs) /\ Len(r) = Len(w) + 2 /\ r[1] = k /\ r[2] = "="
      /\ \A i \in 1..Len(w) : r[i + 2] = w[i]
  BY <1>1, <1>2, <1>4, <1>5, ConcatProperties
<1> HIDE DEF s, r, n
<1>7. Before(s, "=") = <<k>> /\ After(s, "=") = v
  <2>1. 2 \in 1..Len(s) /\ s[2] = "=" /\ \A i \in 1..(2 - 1) : s[i] # "="
    BY <1>1, <1>3
  <2>2. Before(s, "=") = SubSeq(s, 1, 2 - 1) /\ After(s, "=") = SubSeq(s, 2 + 1, Len(s))
    BY <1>3, <2>1, FindIs
  <2>3. SubSeq(s, 1, 1) = <<k>>
    <3>1. /\ SubSeq(s, 1, 1) \in Seq(Signs) /\ Len(SubSeq(s, 1, 1)) = 1
          /\ \A i \in 1..1 : SubSeq(s, 1, 1)[i] = k
      BY <1>1, <1>3
    <3>2. Len(<<k>>) = 1 /\ \A i \in 1..1 : <<k>>[i] = k
      OBVIOUS
    <3> QED
      BY <1>2, <3>1, <3>2, SeqEqual
  <2>4. SubSeq(s, 3, Len(s)) = v
    <3> DEFINE z == SubSeq(s, 3, Len(s))
    <3>1. z \in Seq(Signs) /\ Len(z) = n /\ \A i \in 1..n : z[i] = s[i + 2]
      BY <1>1, <1>3
    <3> HIDE DEF z
    <3>2. z = v
      BY <1>3, <3>1, SeqEqual DEF n
    <3> QED
      BY <3>2 DEF z
  <2>5. 2 - 1 = 1 /\ 2 + 1 = 3
    OBVIOUS
  <2> QED
    BY <2>2, <2>3, <2>4, <2>5
<1>8. CASE Len(w) = n
  <2>1. w = v
    BY <1>4, <1>8, SeqEqual DEF n
  <2>2. r = s
    BY <2>1 DEF r, s
  <2>3. ~Contains(v, "&")
    BY <1>1, <1>4, <1>8 DEF Contains, n
  <2>4. ~Contains(s, "&")
    <3> SUFFICES ASSUME NEW i \in 1..Len(s) PROVE s[i] # "&"
      BY DEF Contains
    <3>1. CASE i \in 1..2
      BY <1>3, <3>1
    <3>2. CASE i \in 3..(n + 2)
      <4>1. i - 2 \in 1..n /\ (i - 2) + 2 = i
        BY <1>1, <3>2
      <4> QED
        BY <1>3, <1>4, <1>8, <4>1
    <3> QED
      BY <1>1, <1>3, <3>1, <3>2
  <2>5. Before(s, "&") = r
    BY <2>2, <2>4 DEF Before
  <2> QED
    BY <1>3, <1>7, <2>3, <2>4, <2>5 DEF s, r, w
<1>9. CASE Len(w) < n
  <2> DEFINE p == Len(w) + 3
  <2>1. p \in 1..Len(s)
    BY <1>1, <1>3, <1>5, <1>9
  <2>2. s[p] = "&"
    <3>1. Len(w) + 1 \in 1..n /\ (Len(w) + 1) + 2 = p
      BY <1>1, <1>5, <1>9
    <3> QED
      BY <1>3, <1>4, <1>9, <3>1
  <2>3. \A i \in 1..(p - 1) : s[i] = r[i] /\ s[i] # "&"
    <3> SUFFICES ASSUME NEW i \in 1..(p - 1) PROVE s[i] = r[i] /\ s[i] # "&"
      OBVIOUS
    <3>1. CASE i \in 1..2
      BY <1>3, <1>6, <3>1
    <3>2. CASE i \in 3..(Len(w) + 2)
      <4>1. i - 2 \in 1..Len(w) /\ i - 2 \in 1..n /\ (i - 2) + 2 = i
        BY <1>1, <1>5, <1>9, <3>2
      <4> QED
        BY <1>3, <1>4, <1>6, <4>1
    <3> QED
      BY <1>5, <3>1, <3>2
  <2> HIDE DEF p
  <2>4. Contains(s, "&") /\ Before(s, "&") = SubSeq(s, 1, p - 1)
    BY <1>3, <2>1, <2>2, <2>3, FindIs
  <2>5. SubSeq(s, 1, p - 1) = r
    <3> DEFINE z == SubSeq(s, 1, p - 1)
    <3>1. p - 1 = Len(r) /\ p - 1 \in Nat /\ p - 1 <= Len(s)
      BY <1>1, <1>3, <1>5, <1>6, <2>1 DEF p
    <3>2. z \in Seq(Signs) /\ Len(z) = p - 1 /\ \A i \in 1..(p - 1) : z[i] = s[i]
      BY <1>3, <3>1
    <3> HIDE DEF z
    <3>3. z = r
      BY <1>6, <2>3, <3>1, <3>2, SeqEqual
    <3> QED
      BY <3>3 DEF z
  <2>6. Contains(v, "&")
    BY <1>1, <1>4, <1>5, <1>9 DEF Contains, n
  <2> QED
    BY <1>3, <1>7, <2>4, <2>5, <2>6 DEF s, r, w
<1>10. Len(w) = n \/ Len(w) < n
  BY <1>1, <1>4, <1>5
<1> QED
  BY <1>8, <1>9, <1>10

\* The same of the parts of a URI, at an "&".
LEMMA SplitAtAmpersand ==
    ASSUME NEW s \in Seq(Signs), NEW t \in Seq(Signs), t # <<>>, t[1] = "&"
    PROVE  /\ Contains(s, "&") => Before(s \o t, "&") = Before(s, "&")
           /\ ~Contains(s, "&") =>
                  Before(s \o t, "&") = s /\ After(s \o t, "&") = SubSeq(t, 2, Len(t))
BY BeforeConcat

\* The first round finds the first value up to its first "&" and, if it has none, leaves
\* the second pair.  There are at least two rounds.
LEMMA FirstPairIs ==
    ASSUME NEW a \in Seq(Signs), NEW b \in Seq(Signs)
    PROVE  /\ Before(KV(a, b), "&") = <<"x", "=">> \o Before(a, "&")
           /\ ~Contains(a, "&") => After(KV(a, b), "&") = <<"y", "=">> \o b
           /\ Cardinality(Positions(KV(a, b), "&")) \in Nat \ {0}
<1> DEFINE s == <<"x", "=">> \o a
           t == <<"&", "y", "=">> \o b
           rest == <<"y", "=">> \o b
<1>1. /\ s \in Seq(Signs)
      /\ Before(s, "&") = <<"x", "=">> \o Before(a, "&")
      /\ Contains(s, "&") <=> Contains(a, "&")
  BY PairIs
<1>2. Len(s) \in Nat /\ Len(b) \in Nat
  BY <1>1
<1>3. /\ t \in Seq(Signs) /\ Len(t) = Len(b) + 3 /\ t[1] = "&" /\ t[2] = "y" /\ t[3] = "="
      /\ \A i \in 1..Len(b) : t[i + 3] = b[i]
  BY <1>2, FixedParts, ConcatProperties
<1>4. /\ rest \in Seq(Signs) /\ Len(rest) = Len(b) + 2 /\ rest[1] = "y" /\ rest[2] = "="
      /\ \A i \in 1..Len(b) : rest[i + 2] = b[i]
  <2>1. <<"y", "=">> \in Seq(Signs)
    <3>1. "y" \in Signs /\ "=" \in Signs
      BY DEF Signs
    <3> QED
      BY <3>1
  <2> QED
    BY <1>2, <2>1, ConcatProperties
<1>5. KV(a, b) = s \o t
  BY DEF KV
<1> HIDE DEF s, t, rest
<1>6. t # <<>>
  BY <1>2, <1>3
<1>7. SubSeq(t, 2, Len(t)) = rest
  <2> DEFINE z == SubSeq(t, 2, Len(t))
  <2>1. z \in Seq(Signs) /\ Len(z) = Len(b) + 2 /\ \A i \in 1..(Len(b) + 2) : z[i] = t[i + 1]
    BY <1>2, <1>3
  <2> HIDE DEF z
  <2>2. \A i \in 1..(Len(b) + 2) : z[i] = rest[i]
    <3> SUFFICES ASSUME NEW i \in 1..(Len(b) + 2) PROVE z[i] = rest[i]
      OBVIOUS
    <3>1. CASE i \in 1..2
      BY <1>2, <1>3, <1>4, <2>1, <3>1
    <3>2. CASE i \in 3..(Len(b) + 2)
      <4>1. i - 2 \in 1..Len(b) /\ (i - 2) + 3 = i + 1 /\ (i - 2) + 2 = i
        BY <1>2, <3>2
      <4> QED
        BY <1>3, <1>4, <2>1, <4>1
    <3> QED
      BY <1>2, <3>1, <3>2
  <2>3. z = rest
    BY <1>4, <2>1, <2>2, SeqEqual
  <2> QED
    BY <2>3 DEF z
<1>8. /\ Contains(s, "&") => Before(s \o t, "&") = Before(s, "&")
      /\ ~Contains(s, "&") => Before(s \o t, "&") = s /\ After(s \o t, "&") = rest
  <2>1. t # <<>> /\ t[1] = "&"
    BY <1>3, <1>6
  <2>2. /\ Contains(s, "&") => Before(s \o t, "&") = Before(s, "&")
        /\ ~Contains(s, "&") =>
               Before(s \o t, "&") = s /\ After(s \o t, "&") = SubSeq(t, 2, Len(t))
    BY <1>1, <1>3, <2>1, SplitAtAmpersand
  <2> QED
    BY <1>7, <2>1, <2>2
<1>9. ~Contains(s, "&") => Before(s, "&") = s
  BY DEF Before
<1>10. Cardinality(Positions(s \o t, "&")) \in Nat \ {0}
  <2> DEFINE P == Positions(s \o t, "&")
             l == Len(s \o t)
  <2>1. l = Len(s) + Len(t) /\ l \in Nat /\ (s \o t)[Len(s) + 1] = "&" /\ Len(s) + 1 \in 1..l
    <3> DEFINE st == s \o t
               m == Len(s)
               n == Len(t)
    <3>1. st \in Seq(Signs) /\ Len(st) = m + n
      BY <1>1, <1>3, ConcatProperties
    <3>2. \A i \in 1..(m + n) : st[i] = IF i <= m THEN s[i] ELSE t[i - m]
      BY <1>1, <1>3, ConcatProperties
    <3>3. m \in Nat /\ n \in Nat /\ n >= 1
      BY <1>2, <1>3
    <3> HIDE DEF st, m, n
    <3>4. m + 1 \in 1..(m + n) /\ ~(m + 1 <= m) /\ (m + 1) - m = 1 /\ m + n \in Nat
      BY <3>3
    <3>5. st[m + 1] = "&"
      BY <1>3, <3>2, <3>4
    <3> QED
      BY <3>1, <3>4, <3>5 DEF st, m, n
  <2>2. P \subseteq 1..l /\ P # {}
    BY <2>1 DEF Positions
  <2> HIDE DEF P, l
  <2>3. IsFiniteSet(1..l)
    BY <2>1, FS_Interval
  <2>4. IsFiniteSet(P)
    BY <2>2, <2>3, FS_Subset
  <2>5. Cardinality(P) \in Nat /\ (Cardinality(P) = 0 <=> P = {})
    BY <2>4, FS_CardinalityType, FS_EmptySet
  <2> QED
    BY <2>2, <2>5 DEF P
<1> QED
  BY <1>1, <1>5, <1>8, <1>9, <1>10 DEF rest

-----------------------------------------------------------------------------
(* RequestTools: what the loop of uriKV_get finds *)

\* No pair of the dashboard's request has been taken off yet.
Whole ==
    /\ allKV = KV(typed[1], typed[2]) /\ rounds >= 2 /\ DOMAIN uriKV = {}

\* Its first value has been found, and the second one too or it is next, unless the first
\* value has an "&".
FoundFirst ==
    /\ <<"x">> \in DOMAIN uriKV /\ uriKV[<<"x">>] = Before(typed[1], "&")
    /\ \/ Contains(typed[1], "&")
       \/ rounds >= 1 /\ allKV = <<"y", "=">> \o typed[2] /\ <<"y">> \notin DOMAIN uriKV
       \/ <<"y">> \in DOMAIN uriKV /\ uriKV[<<"y">>] = Before(typed[2], "&")

\* What the submit page's request brings of the title, and how it begins: with the title,
\* up to the "&" in front of the second pair or to its end.
Bare == url_decode(Before(typed[1], "#"))
BareWhole ==
    /\ \E t \in Seq(Signs) : /\ t = <<>> \/ t[1] = "&"
                             /\ allKV = (<<"x", "=">> \o Bare) \o t
    /\ rounds >= 1 /\ DOMAIN uriKV = {}
BareFound == <<"x">> \in DOMAIN uriKV /\ uriKV[<<"x">>] = Before(Bare, "&")

\* The inductive invariant of the requests.
RequestInv ==
    /\ typed \in Seq(Symbols) \X Seq(Symbols)
    /\ page \in {"none", "dashboard", "submit"}
    /\ rounds \in Nat
    /\ page = "none" => rounds = 0
    /\ page = "dashboard" => Whole \/ FoundFirst
    /\ page = "submit" => /\ BareWhole \/ BareFound
                         /\ stored = Before(typed[1], "&")

\* A typed text is part of a URI, encoded or not.
LEMMA TypedIsSent ==
    ASSUME NEW x \in Seq(Symbols)
    PROVE  x \in Seq(Signs) /\ url_decode(x) \in Seq(Signs)
<1>1. Symbols \subseteq Signs
  BY DEF Signs
<1>2. x \in Seq(Signs)
  BY <1>1
<1> QED
  BY <1>2, DecodedIs

\* A round takes the pair in front of the first "&".
LEMMA RoundTakes ==
    ASSUME NEW k \in {"x", "y"}, NEW v \in Seq(Signs), NEW single,
           single = <<k, "=">> \o Before(v, "&")
    PROVE  Before(single, "=") = <<k>> /\ After(single, "=") = Before(v, "&")
<1>1. Before(v, "&") \in Seq(Signs)
  BY BeforeIs
<1> QED
  BY <1>1, PairIs

\* A new request: its handler has all of what was sent, behind the "?".
LEMMA ArriveWhole ==
    ASSUME NEW e1 \in Seq(Signs), NEW e2 \in Seq(Signs), Arrive(Query(e1, e2))
    PROVE  /\ allKV' = KV(url_decode(e1), url_decode(e2))
           /\ rounds' \in Nat /\ rounds' >= 2 /\ DOMAIN uriKV' = {}
<1>1. allKV' = KV(url_decode(e1), url_decode(e2))
  BY QueryArrives DEF Arrive
<1>2. url_decode(e1) \in Seq(Signs) /\ url_decode(e2) \in Seq(Signs)
  BY DecodedIs
<1>3. Cardinality(Positions(allKV', "&")) \in Nat \ {0}
  BY <1>1, <1>2, FirstPairIs
<1>4. rounds' = Cardinality(Positions(allKV', "&")) + 1 /\ uriKV' = <<>>
  BY DEF Arrive
<1>5. DOMAIN uriKV' = {}
  BY <1>4
<1> QED
  BY <1>1, <1>3, <1>4, <1>5

LEMMA RequestInitInv == RequestInit => RequestInv
<1> SUFFICES ASSUME RequestInit PROVE RequestInv
  OBVIOUS
<1>1. <<>> \in Seq(Symbols)
  OBVIOUS
<1> QED
  BY <1>1 DEF RequestInit, RequestInv

LEMMA UploadInv == RequestInv /\ Upload => RequestInv'
<1> SUFFICES ASSUME RequestInv, Upload PROVE RequestInv'
  OBVIOUS
<1>1. PICK x, y \in Texts :
         typed' = <<x, y>> /\ Arrive(Query(encodeURIComponent(x), encodeURIComponent(y)))
  BY DEF Upload
<1>2. x \in Seq(Symbols) /\ y \in Seq(Symbols)
  BY ToolsAssumption
<1>3. /\ encodeURIComponent(x) \in Seq(Signs) /\ encodeURIComponent(y) \in Seq(Signs)
      /\ url_decode(encodeURIComponent(x)) = x /\ url_decode(encodeURIComponent(y)) = y
  BY <1>2, EncodedArrives
<1>4. allKV' = KV(x, y) /\ rounds' \in Nat /\ rounds' >= 2 /\ DOMAIN uriKV' = {}
  BY <1>1, <1>3, ArriveWhole
<1>5. page' = "dashboard"
  BY DEF Upload
<1>6. Whole'
  BY <1>1, <1>4, <1>5 DEF Whole
<1>7. typed' \in Seq(Symbols) \X Seq(Symbols)
  BY <1>1, <1>2
<1> QED
  BY <1>4, <1>5, <1>6, <1>7 DEF RequestInv

\* A symbol that is not in the first of two texts is looked for in the second.
LEMMA BeforeSkips ==
    ASSUME NEW s \in Seq(Signs), NEW t \in Seq(Signs), NEW c, ~Contains(s, c)
    PROVE  Before(s \o t, c) = s \o Before(t, c)
<1> DEFINE st == s \o t
           b == Before(st, c)
           w == Before(t, c)
           r == s \o w
           m == Len(s)
           n == Len(t)
<1>1. m \in Nat /\ n \in Nat
  OBVIOUS
<1>2. /\ st \in Seq(Signs) /\ Len(st) = m + n
      /\ \A i \in 1..(m + n) : st[i] = IF i <= m THEN s[i] ELSE t[i - m]
  BY ConcatProperties
<1>3. /\ w \in Seq(Signs) /\ Len(w) <= n
      /\ \A i \in 1..Len(w) : w[i] = t[i] /\ t[i] # c
      /\ Len(w) < n => t[Len(w) + 1] = c
  BY BeforeIs
<1>4. \A i \in 1..m : s[i] # c
  BY DEF Contains
<1> HIDE DEF st
<1>5. /\ b \in Seq(Signs) /\ Len(b) <= m + n
      /\ \A i \in 1..Len(b) : b[i] = st[i] /\ st[i] # c
      /\ Len(b) < m + n => st[Len(b) + 1] = c
  BY <1>2, BeforeIs
<1> HIDE DEF b, w, m, n
<1>6. /\ r \in Seq(Signs) /\ Len(r) = m + Len(w)
      /\ \A i \in 1..(m + Len(w)) : r[i] = IF i <= m THEN s[i] ELSE w[i - m]
  BY <1>3, ConcatProperties DEF m
<1> HIDE DEF r
<1>7. Len(b) \in Nat /\ Len(w) \in Nat
  BY <1>3, <1>5
<1>8. \A i \in 1..(m + Len(w)) : st[i] = r[i] /\ st[i] # c
  <2> SUFFICES ASSUME NEW i \in 1..(m + Len(w)) PROVE st[i] = r[i] /\ st[i] # c
    OBVIOUS
  <2>1. i \in 1..(m + n)
    BY <1>1, <1>3, <1>7
  <2>2. CASE i <= m
    <3>1. i \in 1..m
      BY <1>1, <2>2
    <3> QED
      BY <1>2, <1>4, <1>6, <2>1, <2>2, <3>1
  <2>3. CASE ~(i <= m)
    <3>1. i - m \in 1..Len(w)
      BY <1>1, <1>7, <2>3
    <3> QED
      BY <1>2, <1>3, <1>6, <2>1, <2>3, <3>1
  <2> QED
    BY <2>2, <2>3
<1>9. ~(Len(b) < m + Len(w))
  <2> SUFFICES ASSUME Len(b) < m + Len(w) PROVE FALSE
    OBVIOUS
  <2>1. Len(b) < m + n /\ Len(b) + 1 \in 1..(m + Len(w))
    BY <1>1, <1>3, <1>7
  <2> QED
    BY <1>5, <1>8, <2>1
<1>10. ~(Len(b) > m + Len(w))
  <2> SUFFICES ASSUME Len(b) > m + Len(w) PROVE FALSE
    OBVIOUS
  <2> DEFINE p == m + Len(w) + 1
  <2>1. Len(w) < n /\ p \in 1..(m + n) /\ p \in 1..Len(b) /\ ~(p <= m) /\ p - m = Len(w) + 1
    BY <1>1, <1>3, <1>5, <1>7
  <2> HIDE DEF p
  <2> QED
    BY <1>2, <1>3, <1>5, <2>1
<1>11. Len(b) = m + Len(w)
  BY <1>1, <1>7, <1>9, <1>10
<1>12. b = r
  BY <1>5, <1>6, <1>8, <1>11, SeqEqual
<1> QED
  BY <1>12 DEF b, r, w, st

\* What the browser sends of the submit page's URI: it ends in the title if that has a "#".
LEMMA SentOfQuery ==
    ASSUME NEW x \in Seq(Signs), NEW y \in Seq(Signs)
    PROVE  \E t \in Seq(Signs) :
              /\ t = <<>> \/ t[1] = "&"
              /\ Before(Query(x, y), "#")
                    = <<"/", "?">> \o ((<<"x", "=">> \o Before(x, "#")) \o t)
<1> DEFINE start == <<"/", "?">>
           k == <<"x", "=">>
           sep == <<"&", "y", "=">>
           tail == sep \o y
           q == start \o ((k \o x) \o tail)
<1>1. start \in Seq(Signs) /\ k \in Seq(Signs) /\ sep \in Seq(Signs)
  BY FixedParts
<1>2. ~Contains(start, "#") /\ ~Contains(k, "#") /\ ~Contains(sep, "#")
      /\ Len(sep) = 3 /\ sep[1] = "&"
  BY DEF Contains
<1>3. Query(x, y) = q
  <2>1. Query(x, y) = start \o KV(x, y)
    BY QueryIs
  <2> QED
    BY <2>1 DEF KV
<1> HIDE DEF start, k, sep
<1>4. /\ tail \in Seq(Signs) /\ k \o x \in Seq(Signs)
  BY <1>1, ConcatProperties
<1>5. (k \o x) \o tail \in Seq(Signs)
  <2> HIDE DEF tail
  <2> DEFINE kx == k \o x
  <2>1. kx \in Seq(Signs)
    BY <1>4
  <2> HIDE DEF kx
  <2>2. kx \o tail \in Seq(Signs)
    BY <1>4, <2>1, ConcatProperties
  <2> QED
    BY <2>2 DEF kx
<1>6. Before(q, "#") = start \o Before((k \o x) \o tail, "#")
  <2> DEFINE body == (k \o x) \o tail
  <2>1. body \in Seq(Signs)
    BY <1>5
  <2> HIDE DEF body
  <2>2. start \in Seq(Signs)
    BY <1>1
  <2>3. ~Contains(start, "#")
    BY <1>2
  <2>4. Before(start \o body, "#") = start \o Before(body, "#")
    BY <2>1, <2>2, <2>3, BeforeSkips
  <2> QED
    BY <2>4 DEF body
<1>7. Before(k \o x, "#") = k \o Before(x, "#")
  <2>1. k \in Seq(Signs)
    BY <1>1
  <2>2. ~Contains(k, "#")
    BY <1>2
  <2> QED
    BY <2>1, <2>2, BeforeSkips
<1>8. CASE Contains(k \o x, "#")
  <2>1. Before((k \o x) \o tail, "#") = k \o Before(x, "#")
    <3> DEFINE kx == k \o x
    <3>1. kx \in Seq(Signs) /\ Contains(kx, "#")
      BY <1>4, <1>8
    <3> HIDE DEF kx, tail
    <3>2. Before(kx \o tail, "#") = Before(kx, "#")
      BY <1>4, <3>1, BeforeConcat
    <3> QED
      BY <1>7, <3>2 DEF kx
  <2>2. Before(x, "#") \in Seq(Signs)
    BY BeforeIs
  <2>3. k \o Before(x, "#") \in Seq(Signs)
    BY <1>1, <2>2, ConcatProperties
  <2>4. (k \o Before(x, "#")) \o <<>> = k \o Before(x, "#") /\ <<>> \in Seq(Signs)
    BY <2>3, ConcatEmptySeq
  <2> QED
    BY <1>3, <1>6, <2>1, <2>4 DEF start, k
<1>9. CASE ~Contains(k \o x, "#")
  <2>1. Before((k \o x) \o tail, "#") = (k \o x) \o Before(tail, "#")
    <3> DEFINE kx == k \o x
    <3>1. kx \in Seq(Signs) /\ ~Contains(kx, "#")
      BY <1>4, <1>9
    <3> HIDE DEF kx, tail
    <3>2. Before(kx \o tail, "#") = kx \o Before(tail, "#")
      BY <1>4, <3>1, BeforeSkips
    <3> QED
      BY <3>2 DEF kx
  <2>2. k \o x = k \o Before(x, "#")
    BY <1>7, <1>9 DEF Before
  <2> DEFINE t == sep \o Before(y, "#")
  <2>3. Before(tail, "#") = t
    <3>1. sep \in Seq(Signs)
      BY <1>1
    <3>2. ~Contains(sep, "#")
      BY <1>2
    <3> QED
      BY <3>1, <3>2, BeforeSkips
  <2>4. Before(y, "#") \in Seq(Signs)
    BY BeforeIs
  <2>5. t \in Seq(Signs) /\ t[1] = "&"
    BY <1>1, <1>2, <2>4, ConcatProperties
  <2> HIDE DEF t
  <2> QED
    BY <1>3, <1>6, <2>1, <2>2, <2>3, <2>5 DEF start, k
<1> QED
  BY <1>8, <1>9

LEMMA SubmitInv == RequestInv /\ Submit => RequestInv'
<1> SUFFICES ASSUME RequestInv, Submit PROVE RequestInv'
  OBVIOUS
<1>1. typed[1] \in Seq(Symbols) /\ typed[2] \in Seq(Symbols)
  BY DEF RequestInv
<1>2. typed[1] \in Seq(Signs) /\ typed[2] \in Seq(Signs)
  BY <1>1, TypedIsSent
<1>3. Arrive(Before(Query(typed[1], typed[2]), "#")) /\ page' = "submit" /\ typed' = typed
  BY DEF Submit
<1> DEFINE k == <<"x", "=">>
           c == Before(typed[1], "#")
<1>4. PICK t \in Seq(Signs) :
         /\ t = <<>> \/ t[1] = "&"
         /\ Before(Query(typed[1], typed[2]), "#") = <<"/", "?">> \o ((k \o c) \o t)
  BY <1>2, SentOfQuery
<1>5. /\ k \in Seq(Signs) /\ url_decode(k) = k /\ c \in Seq(Signs)
      /\ Bare = url_decode(c) /\ Bare' = url_decode(c)
  BY <1>2, <1>3, FixedParts, BeforeIs DEF Bare
<1> DEFINE d == url_decode(t)
<1>6. d \in Seq(Signs) /\ (d = <<>> \/ d[1] = "&")
  <2>1. d \in Seq(Signs) /\ Len(d) = Len(t) /\ \A i \in 1..Len(t) : d[i] = Unescaped(t[i])
    BY DecodedIs
  <2>2. CASE t = <<>>
    BY <2>1, <2>2, EmptySeq
  <2>3. CASE t # <<>> /\ t[1] = "&"
    <3>1. 1 \in 1..Len(t)
      BY <2>3, EmptySeq
    <3> QED
      BY <2>1, <2>3, <3>1, UnescapedIs
  <2> QED
    BY <1>4, <2>1, <2>2, <2>3
<1> HIDE DEF k, c
<1>7. allKV' = (k \o Bare') \o d
  <2>1. k \o c \in Seq(Signs) /\ url_decode(k \o c) = k \o url_decode(c)
    BY <1>5, ConcatProperties, DecodedConcat
  <2> DEFINE kc == k \o c
  <2>2. kc \in Seq(Signs)
    BY <2>1
  <2> HIDE DEF kc
  <2>3. kc \o t \in Seq(Signs) /\ url_decode(kc \o t) = url_decode(kc) \o d
    BY <2>2, ConcatProperties, DecodedConcat
  <2>4. allKV' = After(url_decode(<<"/", "?">> \o (kc \o t)), "?")
    BY <1>3, <1>4 DEF Arrive, kc
  <2>5. allKV' = url_decode(kc \o t)
    BY <2>3, <2>4, BehindQuestion
  <2> QED
    BY <1>5, <2>1, <2>3, <2>5 DEF kc
<1> HIDE DEF d
<1>8. rounds' \in Nat /\ rounds' >= 1 /\ DOMAIN uriKV' = {}
  <2>1. allKV' \in Seq(Signs)
    <3>1. Bare' \in Seq(Signs)
      BY <1>5, DecodedIs
    <3>2. k \o Bare' \in Seq(Signs)
      BY <1>5, <3>1, ConcatProperties
    <3> DEFINE kb == k \o Bare'
    <3>3. kb \in Seq(Signs)
      BY <3>2
    <3> HIDE DEF kb
    <3>4. kb \o d \in Seq(Signs)
      BY <1>6, <3>3, ConcatProperties
    <3> QED
      BY <1>7, <3>4 DEF kb
  <2>2. Positions(allKV', "&") \subseteq 1..Len(allKV') /\ Len(allKV') \in Nat
    BY <2>1 DEF Positions
  <2>3. IsFiniteSet(1..Len(allKV'))
    BY <2>2, FS_Interval
  <2>4. Cardinality(Positions(allKV', "&")) \in Nat
    BY <2>2, <2>3, FS_Subset, FS_CardinalityType
  <2>5. rounds' = Cardinality(Positions(allKV', "&")) + 1 /\ uriKV' = <<>>
    BY <1>3 DEF Arrive
  <2> QED
    BY <2>4, <2>5
<1>9. BareWhole'
  BY <1>6, <1>7, <1>8 DEF BareWhole, k
<1>10. stored' = Before(typed'[1], "&")
  <2>1. page = "dashboard" /\ rounds = 0 /\ stored' = Get(uriKV, <<"x">>)
    BY DEF Submit
  <2>2. FoundFirst
    BY <2>1 DEF RequestInv, Whole
  <2> QED
    BY <1>3, <2>1, <2>2 DEF FoundFirst, Get
<1> QED
  BY <1>3, <1>8, <1>9, <1>10 DEF RequestInv

\* What a round adds to the map.
LEMMA RoundAdds ==
    ASSUME SplitPair, NEW single, single = Before(allKV, "&")
    PROVE  /\ DOMAIN uriKV' = DOMAIN uriKV \cup {Before(single, "=")}
           /\ \A k \in DOMAIN uriKV : uriKV'[k] = uriKV[k]
           /\ Before(single, "=") \notin DOMAIN uriKV =>
                 uriKV'[Before(single, "=")] = After(single, "=")
<1> DEFINE key == Before(single, "=")
           value == After(single, "=")
<1>1. uriKV' = Insert(uriKV, key, value)
  BY DEF SplitPair
<1> HIDE DEF key, value
<1>2. /\ DOMAIN uriKV' = DOMAIN uriKV \cup {key}
      /\ \A k \in DOMAIN uriKV : uriKV'[k] = uriKV[k]
      /\ key \notin DOMAIN uriKV => uriKV'[key] = value
  BY <1>1 DEF Insert
<1> QED
  BY <1>2 DEF key, value

\* The first round of the submit page's request finds the title up to its first "&".
LEMMA BareFoundInv ==
    ASSUME RequestInv, SplitPair, page = "submit"
    PROVE  BareFound'
<1> DEFINE a == Bare
           single == Before(allKV, "&")
<1>1. typed[1] \in Seq(Signs)
  BY TypedIsSent DEF RequestInv
<1>2. a \in Seq(Signs) /\ Bare' = a
  <2>1. Before(typed[1], "#") \in Seq(Signs)
    BY <1>1, BeforeIs
  <2> QED
    BY <2>1, DecodedIs DEF Bare, SplitPair
<1>3. /\ DOMAIN uriKV' = DOMAIN uriKV \cup {Before(single, "=")}
      /\ \A k \in DOMAIN uriKV : uriKV'[k] = uriKV[k]
      /\ Before(single, "=") \notin DOMAIN uriKV =>
            uriKV'[Before(single, "=")] = After(single, "=")
  BY RoundAdds
<1>4. CASE BareFound
  BY <1>2, <1>3, <1>4 DEF BareFound
<1>5. CASE BareWhole
  <2>1. PICK t \in Seq(Signs) : /\ t = <<>> \/ t[1] = "&"
                               /\ allKV = (<<"x", "=">> \o a) \o t
    BY <1>5 DEF BareWhole
  <2> HIDE DEF a
  <2> DEFINE s == <<"x", "=">> \o a
  <2>2. /\ s \in Seq(Signs)
        /\ Before(s, "&") = <<"x", "=">> \o Before(a, "&")
    BY <1>2, PairIs
  <2>3. allKV = s \o t
    BY <2>1
  <2> HIDE DEF s
  <2>4. Before(s \o t, "&") = Before(s, "&")
    <3>1. CASE t = <<>>
      <4>1. s \o t = s
        BY <2>2, <3>1, ConcatEmptySeq
      <4> QED
        BY <4>1
    <3>2. CASE t # <<>> /\ t[1] = "&"
      <4>1. CASE Contains(s, "&")
        BY <2>2, <4>1, BeforeConcat
      <4>2. CASE ~Contains(s, "&")
        <5>1. Before(s, "&") = s
          BY <4>2 DEF Before
        <5> QED
          BY <2>2, <3>2, <4>2, <5>1, SplitAtAmpersand
      <4> QED
        BY <4>1, <4>2
    <3> QED
      BY <2>1, <3>1, <3>2
  <2>5. single = <<"x", "=">> \o Before(a, "&")
    BY <2>2, <2>3, <2>4
  <2> HIDE DEF single
  <2>6. Before(single, "=") = <<"x">> /\ After(single, "=") = Before(a, "&")
    BY <1>2, <2>5, RoundTakes
  <2> QED
    BY <1>2, <1>3, <1>5, <2>6 DEF BareWhole, BareFound
<1> QED
  BY <1>4, <1>5 DEF RequestInv

LEMMA SplitPairInv == RequestInv /\ SplitPair => RequestInv'
<1> SUFFICES ASSUME RequestInv, SplitPair PROVE RequestInv'
  OBVIOUS
<1> DEFINE a == typed[1]
           b == typed[2]
           single == Before(allKV, "&")
<1>1. typed[1] \in Seq(Symbols) /\ typed[2] \in Seq(Symbols)
  BY DEF RequestInv
<1>2. a \in Seq(Signs) /\ b \in Seq(Signs)
  BY <1>1, TypedIsSent
<1>3. /\ rounds \in Nat /\ rounds # 0 /\ rounds' = rounds - 1
      /\ page' = page /\ typed' = typed /\ stored' = stored
      /\ page \in {"dashboard", "submit"}
  BY DEF SplitPair, RequestInv
<1>5. allKV' = After(allKV, "&")
  BY DEF SplitPair
<1>7. /\ DOMAIN uriKV' = DOMAIN uriKV \cup {Before(single, "=")}
      /\ \A k \in DOMAIN uriKV : uriKV'[k] = uriKV[k]
      /\ Before(single, "=") \notin DOMAIN uriKV =>
            uriKV'[Before(single, "=")] = After(single, "=")
  BY RoundAdds
<1>8. ASSUME Whole PROVE FoundFirst'
  <2>1. allKV = KV(a, b) /\ rounds >= 2 /\ DOMAIN uriKV = {}
    BY <1>8 DEF Whole
  <2>2. /\ Before(allKV, "&") = <<"x", "=">> \o Before(a, "&")
        /\ ~Contains(a, "&") => After(allKV, "&") = <<"y", "=">> \o b
    BY <1>2, <2>1, FirstPairIs
  <2>3. single = <<"x", "=">> \o Before(a, "&")
    BY <2>2
  <2> HIDE DEF single
  <2>4. Before(single, "=") = <<"x">> /\ After(single, "=") = Before(a, "&")
    BY <1>2, <2>3, RoundTakes
  <2>5. <<"x">> # <<"y">>
    OBVIOUS
  <2>6. DOMAIN uriKV' = {<<"x">>} /\ uriKV'[<<"x">>] = Before(a, "&")
    BY <1>7, <2>1, <2>4
  <2>7. rounds' >= 1
    BY <1>3, <2>1
  <2>8. <<"y">> \notin DOMAIN uriKV'
    BY <2>5, <2>6
  <2> QED
    BY <1>3, <1>5, <2>2, <2>6, <2>7, <2>8 DEF FoundFirst
<1>9. ASSUME FoundFirst PROVE FoundFirst'
  <2>1. <<"x">> \in DOMAIN uriKV' /\ uriKV'[<<"x">>] = Before(a, "&")
    BY <1>7, <1>9 DEF FoundFirst
  <2>2. CASE Contains(a, "&")
    BY <1>3, <2>1, <2>2 DEF FoundFirst
  <2>3. CASE rounds >= 1 /\ allKV = <<"y", "=">> \o b /\ <<"y">> \notin DOMAIN uriKV
    <3>1. single = <<"y", "=">> \o Before(b, "&")
      BY <1>2, <2>3, PairIs
    <3> HIDE DEF single
    <3>2. Before(single, "=") = <<"y">> /\ After(single, "=") = Before(b, "&")
      BY <1>2, <3>1, RoundTakes
    <3>3. <<"y">> \in DOMAIN uriKV' /\ uriKV'[<<"y">>] = Before(b, "&")
      BY <1>7, <2>3, <3>2
    <3> QED
      BY <1>3, <2>1, <3>3 DEF FoundFirst
  <2>4. CASE <<"y">> \in DOMAIN uriKV /\ uriKV[<<"y">>] = Before(b, "&")
    <3>1. <<"y">> \in DOMAIN uriKV' /\ uriKV'[<<"y">>] = Before(b, "&")
      BY <1>7, <2>4
    <3> QED
      BY <1>3, <2>1, <3>1 DEF FoundFirst
  <2> QED
    BY <1>9, <2>2, <2>3, <2>4 DEF FoundFirst
<1>10. rounds' \in Nat
  BY <1>3
<1> QED
  BY <1>3, <1>8, <1>9, <1>10, BareFoundInv DEF RequestInv

\* The invariant holds in every state of every behaviour.
LEMMA RequestInvHolds == RequestSpec => []RequestInv
<1>1. RequestInv /\ UNCHANGED requestVars => RequestInv'
  BY DEF RequestInv, requestVars, Whole, FoundFirst, Bare, BareWhole, BareFound
<1>2. RequestInv /\ [RequestNext]_requestVars => RequestInv'
  BY <1>1, UploadInv, SubmitInv, SplitPairInv DEF RequestNext
<1> QED
  BY <1>2, RequestInitInv, PTL DEF RequestSpec

\* ValuesArrive for every text and every number of pairs: what reaches the dashboard's
\* handler of a value is what was typed of it before the first "&" (tool.cpp uriKV_get on
\* a decoded URI), and the second value is found whenever the first has no "&".
THEOREM ValuesArriveHolds == RequestSpec => []ValuesArrive
<1>1. RequestInv => ValuesArrive
  <2> SUFFICES ASSUME RequestInv, page = "dashboard", rounds = 0
               PROVE  /\ Get(uriKV, <<"x">>) = Before(typed[1], "&")
                      /\ ~Contains(typed[1], "&") => Get(uriKV, <<"y">>) = Before(typed[2], "&")
    BY DEF ValuesArrive
  <2>1. FoundFirst
    BY DEF RequestInv, Whole
  <2> QED
    BY <2>1 DEF FoundFirst, Get
<1> QED
  BY <1>1, RequestInvHolds, PTL

\* Of a text that was not encoded the same arrives as of one that was exactly when it has,
\* up to its first "&", nothing that the browser or the decoder changes.
LEMMA UnencodedIs ==
    ASSUME NEW x \in Seq(Symbols)
    PROVE  Before(url_decode(Before(x, "#")), "&") = Before(x, "&")
              <=> \A c \in Unsafe : ~Contains(Before(x, "&"), c)
<1> DEFINE y == Before(x, "#")
           d == url_decode(y)
           v == Before(d, "&")
           w == Before(x, "&")
<1>1. x \in Seq(Signs) /\ Len(x) \in Nat
  BY TypedIsSent
<1>2. /\ y \in Seq(Signs) /\ Len(y) <= Len(x)
      /\ \A i \in 1..Len(y) : y[i] = x[i] /\ x[i] # "#"
      /\ Len(y) < Len(x) => x[Len(y) + 1] = "#"
  BY <1>1, BeforeIs
<1> HIDE DEF y
<1>3. d \in Seq(Signs) /\ Len(d) = Len(y) /\ \A i \in 1..Len(y) : d[i] = Unescaped(x[i])
  BY <1>2, DecodedIs
<1> HIDE DEF d
<1>4. /\ w \in Seq(Signs) /\ Len(w) <= Len(x)
      /\ \A i \in 1..Len(w) : w[i] = x[i] /\ x[i] # "&"
      /\ Len(w) < Len(x) => x[Len(w) + 1] = "&"
  BY <1>1, BeforeIs
<1>5. /\ v \in Seq(Signs) /\ Len(v) <= Len(y)
      /\ \A i \in 1..Len(v) : v[i] = d[i] /\ d[i] # "&"
      /\ Len(v) < Len(y) => d[Len(v) + 1] = "&"
  BY <1>3, BeforeIs
<1> HIDE DEF v, w
<1> DEFINE m == Len(v)
           n == Len(w)
           q == Len(y)
<1>6. m \in Nat /\ n \in Nat /\ q \in Nat
  BY <1>2, <1>4, <1>5
<1>7. ASSUME v = w, NEW c \in Unsafe, Contains(w, c) PROVE FALSE
  <2>1. PICK i \in 1..n : w[i] = c
    BY <1>7 DEF Contains
  <2>2. i \in 1..m /\ i \in 1..q
    BY <1>5, <1>6, <1>7
  <2>3. d[i] = c /\ x[i] = c /\ x[i] # "#" /\ d[i] = Unescaped(x[i])
    BY <1>2, <1>3, <1>4, <1>5, <1>7, <2>1, <2>2
  <2> QED
    BY <2>3, UnescapedIs
<1>8. ASSUME \A c \in Unsafe : ~Contains(w, c) PROVE v = w
  <2>1. \A i \in 1..n : x[i] \notin Unsafe /\ x[i] # "&" /\ w[i] = x[i]
    BY <1>4, <1>8 DEF Contains
  <2>2. n <= q
    <3> SUFFICES ASSUME q < n PROVE FALSE
      BY <1>6
    <3>1. q + 1 \in 1..n /\ q < Len(x)
      BY <1>1, <1>4, <1>6
    <3> QED
      BY <1>2, <2>1, <3>1 DEF Unsafe
  <2>3. \A i \in 1..n : d[i] = x[i]
    <3> SUFFICES ASSUME NEW i \in 1..n PROVE d[i] = x[i]
      OBVIOUS
    <3>1. i \in 1..q
      BY <1>6, <2>2
    <3> QED
      BY <1>3, <2>1, <3>1, UnescapedIs
  <2>4. ~(m < n)
    <3> SUFFICES ASSUME m < n PROVE FALSE
      OBVIOUS
    <3>1. m + 1 \in 1..n /\ m < q
      BY <1>6, <2>2
    <3> QED
      BY <1>5, <2>1, <2>3, <3>1
  <2>5. ~(n < m)
    <3> SUFFICES ASSUME n < m PROVE FALSE
      OBVIOUS
    <3>1. n + 1 \in 1..m /\ n + 1 \in 1..q /\ n < Len(x)
      BY <1>1, <1>2, <1>5, <1>6
    <3>2. d[n + 1] = Unescaped("&")
      BY <1>3, <1>4, <3>1
    <3> QED
      BY <1>5, <3>1, <3>2, UnescapedIs
  <2>6. m = n
    BY <1>6, <2>4, <2>5
  <2>7. \A i \in 1..n : v[i] = w[i]
    BY <1>5, <2>1, <2>3, <2>6
  <2> QED
    BY <1>4, <1>5, <2>6, <2>7, SeqEqual
<1> QED
  BY <1>7, <1>8 DEF v, w, d, y

\* TitlesAgree for every title: the submit page, which does not encode it (Judge.html), and
\* the dashboard, which does, name the same problem exactly when the title, up to an "&",
\* has no "+", no "#" and nothing that looks like an escape.
THEOREM TitlesAgreeHolds == RequestSpec => []TitlesAgree
<1>1. RequestInv => TitlesAgree
  <2> SUFFICES ASSUME RequestInv, page = "submit", rounds = 0
               PROVE  Get(uriKV, <<"x">>) = stored
                         <=> \A c \in Unsafe : ~Contains(Before(typed[1], "&"), c)
    BY DEF TitlesAgree
  <2>1. BareFound
    BY DEF RequestInv, BareWhole
  <2>2. /\ Get(uriKV, <<"x">>) = Before(url_decode(Before(typed[1], "#")), "&")
        /\ stored = Before(typed[1], "&")
    BY <2>1 DEF BareFound, Bare, Get, RequestInv
  <2>3. typed[1] \in Seq(Symbols)
    BY DEF RequestInv
  <2> QED
    BY <2>2, <2>3, UnencodedIs
<1> QED
  BY <1>1, RequestInvHolds, PTL

-----------------------------------------------------------------------------
(* RequestTools: keys *)

\* What a key consists of.
Chars == Symbols \cup {Separator, "sum"} \cup {"0", "1", "2", "3", "4", "5", "6", "7", "8", "9"}

\* It does not matter in which order the parts of a key are joined.
LEMMA KeyAssociative ==
    ASSUME NEW s \in Seq(Chars), NEW t \in Seq(Chars), NEW u \in Seq(Chars)
    PROVE  (s \o t) \o u = s \o (t \o u)
BY ConcatAssociative

\* A text in front of a "_" is found again if it has none.
LEMMA SplitAtUnderscore ==
    ASSUME NEW s \in Seq(Chars), NEW z \in Seq(Chars), ~Contains(s, Separator)
    PROVE  /\ Before(s \o (<<Separator>> \o z), Separator) = s
           /\ After(s \o (<<Separator>> \o z), Separator) = z
<1> DEFINE t == <<Separator>> \o z
<1>1. <<Separator>> \in Seq(Chars) /\ Len(z) \in Nat
  <2>1. Separator \in Chars
    BY DEF Chars
  <2> QED
    BY <2>1
<1>2. /\ t \in Seq(Chars) /\ Len(t) = Len(z) + 1 /\ t[1] = Separator
      /\ \A i \in 1..Len(z) : t[i + 1] = z[i]
  BY <1>1, ConcatProperties
<1> HIDE DEF t
<1>3. t # <<>>
  BY <1>1, <1>2
<1>4. Before(s \o t, Separator) = s /\ After(s \o t, Separator) = SubSeq(t, 2, Len(t))
  BY <1>2, <1>3, BeforeConcat
<1>5. SubSeq(t, 2, Len(t)) = z
  <2>1. /\ SubSeq(t, 2, Len(t)) \in Seq(Chars) /\ Len(SubSeq(t, 2, Len(t))) = Len(z)
        /\ \A i \in 1..Len(z) : SubSeq(t, 2, Len(t))[i] = t[i + 1]
    BY <1>1, <1>2
  <2> QED
    BY <1>2, <2>1, SeqEqual
<1> QED
  BY <1>4, <1>5 DEF t

\* What comes behind the title in a key.
Rests == {<<>>, <<Separator, Separator, "sum">>} \cup {<<Separator>> \o i : i \in Numbers}

\* It is nothing, or it begins with a "_".
LEMMA RestIs ==
    ASSUME NEW r \in Rests
    PROVE  r = <<>> \/ \E z \in Seq(Chars) : r = <<Separator>> \o z
<1>1. CASE r = <<>>
  BY <1>1
<1>2. CASE r = <<Separator, Separator, "sum">>
  <2>1. Separator \in Chars /\ "sum" \in Chars
    BY DEF Chars
  <2>2. <<Separator, "sum">> \in Seq(Chars) /\ r = <<Separator>> \o <<Separator, "sum">>
    BY <1>2, <2>1
  <2> QED
    BY <2>2
<1>3. CASE \E i \in Numbers : r = <<Separator>> \o i
  <2>1. PICK i \in Numbers : r = <<Separator>> \o i
    BY <1>3
  <2>2. {"0", "1", "2", "3", "4", "5", "6", "7", "8", "9"} \subseteq Chars
    BY DEF Chars
  <2>3. i \in Seq({"0", "1", "2", "3", "4", "5", "6", "7", "8", "9"})
    BY ToolsAssumption
  <2>4. i \in Seq(Chars)
    BY <2>2, <2>3
  <2> QED
    BY <2>1, <2>4
<1> QED
  BY <1>1, <1>2, <1>3 DEF Rests

\* A key has one user and one title: both can be read off it.
LEMMA KeyNames ==
    ASSUME NEW u \in Seq(Chars), NEW t \in Seq(Chars), NEW r \in Rests,
           ~Contains(u, Separator), ~Contains(t, Separator)
    PROVE  /\ Before(file_name(u, t) \o r, Separator) = u
           /\ Before(After(After(file_name(u, t) \o r, Separator), Separator), Separator) = t
<1> DEFINE bar == <<Separator>>
           tr == t \o r
<1>1. bar \in Seq(Chars) /\ <<Separator, Separator>> = bar \o bar /\ <<>> \in Seq(Chars)
  <2>1. Separator \in Chars
    BY DEF Chars
  <2> QED
    BY <2>1
<1>2. r \in Seq(Chars)
  <2>1. CASE r = <<>>
    BY <1>1, <2>1
  <2>2. CASE \E z \in Seq(Chars) : r = <<Separator>> \o z
    BY <1>1, <2>2, ConcatProperties
  <2> QED
    BY <2>1, <2>2, RestIs
<1>3. tr \in Seq(Chars)
  BY <1>2, ConcatProperties
<1>4. Before(tr, Separator) = t
  <2>1. CASE r = <<>>
    <3>1. tr = t
      BY <2>1, ConcatEmptySeq
    <3> QED
      BY <3>1, FindNone
  <2>2. CASE \E z \in Seq(Chars) : r = <<Separator>> \o z
    BY <2>2, SplitAtUnderscore
  <2> QED
    BY <2>1, <2>2, RestIs
<1>5. file_name(u, t) = (u \o (bar \o bar)) \o t
  BY <1>1 DEF file_name
<1> HIDE DEF bar
<1>6. file_name(u, t) \o r = u \o (bar \o (bar \o tr))
  <2>1. bar \o bar \in Seq(Chars)
    BY <1>1, ConcatProperties
  <2>2. (bar \o bar) \o tr = bar \o (bar \o tr)
    <3> HIDE DEF tr
    <3> QED
      BY <1>1, <1>3, KeyAssociative
  <2> DEFINE bb == bar \o bar
  <2>3. bb \in Seq(Chars)
    BY <2>1
  <2> HIDE DEF bb
  <2>4. u \o bb \in Seq(Chars)
    BY <2>3, ConcatProperties
  <2> DEFINE ub == u \o bb
  <2>5. (ub \o t) \o r = ub \o (t \o r)
    <3>1. ub \in Seq(Chars)
      BY <2>4
    <3> HIDE DEF ub
    <3> QED
      BY <1>2, <3>1, KeyAssociative
  <2>6. (u \o bb) \o tr = u \o (bb \o tr)
    <3> HIDE DEF tr
    <3> QED
      BY <1>3, <2>3, KeyAssociative
  <2> QED
    BY <1>5, <2>2, <2>5, <2>6 DEF bb, tr
<1> HIDE DEF tr
<1>7. bar \o tr \in Seq(Chars)
  BY <1>1, <1>3, ConcatProperties
<1>8. Before(u \o (bar \o (bar \o tr)), Separator) = u /\ After(u \o (bar \o (bar \o tr)), Separator) = bar \o tr
  BY <1>7, SplitAtUnderscore DEF bar
<1>9. After(bar \o tr, Separator) = tr
  <2>1. ~Contains(<<>>, Separator)
    BY DEF Contains
  <2>2. After(<<>> \o (bar \o tr), Separator) = tr
    BY <1>1, <1>3, <2>1, SplitAtUnderscore DEF bar
  <2>3. <<>> \o (bar \o tr) = bar \o tr
    BY <1>7, ConcatEmptySeq
  <2> QED
    BY <2>2, <2>3
<1> QED
  BY <1>4, <1>6, <1>8, <1>9

\* KeysApart for every user, every title and every number of test cases: the "__" of a file
\* name and the "_" of a key (judge.cpp) keep two submissions apart as long as no user and
\* no title has a "_".
THEOREM KeysApartHolds == RequestSpec => []KeysApart
<1>1. RequestInv => KeysApart
  <2> SUFFICES ASSUME RequestInv, NEW u \in Names, NEW t \in Names, <<u, t>> # typed,
                      \A name \in {u, t, typed[1], typed[2]} : ~Contains(name, Separator),
                      NEW k \in KeysOf(u, t), k \in KeysOf(typed[1], typed[2])
               PROVE  FALSE
    BY DEF KeysApart
  <2> DEFINE v == typed[1]
             w == typed[2]
  <2>1. PICK r1 \in Rests : k = file_name(u, t) \o r1
    BY DEF KeysOf, Rests
  <2>2. PICK r2 \in Rests : k = file_name(v, w) \o r2
    BY DEF KeysOf, Rests
  <2>3. v \in Seq(Symbols) /\ w \in Seq(Symbols) /\ typed = <<v, w>>
    BY DEF RequestInv
  <2>4. Symbols \subseteq Chars
    BY DEF Chars
  <2>5. u \in Seq(Symbols) /\ t \in Seq(Symbols)
    BY ToolsAssumption
  <2>6. u \in Seq(Chars) /\ t \in Seq(Chars) /\ v \in Seq(Chars) /\ w \in Seq(Chars)
    BY <2>3, <2>4, <2>5
  <2> HIDE DEF v, w
  <2>7. ~Contains(u, Separator) /\ ~Contains(t, Separator) /\ ~Contains(v, Separator) /\ ~Contains(w, Separator)
    BY DEF v, w
  <2>8. Before(k, Separator) = u /\ Before(After(After(k, Separator), Separator), Separator) = t
    BY <2>1, <2>6, <2>7, KeyNames
  <2>9. Before(k, Separator) = v /\ Before(After(After(k, Separator), Separator), Separator) = w
    BY <2>2, <2>6, <2>7, KeyNames
  <2> QED
    BY <2>3, <2>8, <2>9
<1> QED
  BY <1>1, RequestInvHolds, PTL
=============================================================================
