------------------------ MODULE SubmissionLists_proofs ------------------------
(***************************************************************************)
(* What TLAPS proves of SubmissionLists, for every table, every query,     *)
(* every size of a page and any number of changes.                         *)
(***************************************************************************)
EXTENDS SubmissionLists, FiniteSetTheorems, TLAPS

Row == [user : Int, problem : Int, statement : Int, lang : Int, status : Statuses, source : Int,
        shown : BOOLEAN, time : Int]

Pcs == {"away", "reading", "read", "failed", "not_found"}

Reader ==
  [pc : Pcs, query : Queries \cup {NoQuery}, count : Counts \cup {1}, page : Nat \ {0},
   got : SUBSET Ids, again : SUBSET Ids, due : SUBSET Ids, came : Nat, left : Nat]

\* The types that TypeOK leaves open
TypeInv ==
  /\ rows \in [Ids -> Row \cup {NoRun}]
  /\ reader \in Reader
  /\ reader.again \subseteq reader.got
  /\ changes \in 0 .. MaxChanges

-----------------------------------------------------------------------------
(***************************************************************************)
(* The place of a run in a list, from 0                                    *)
(***************************************************************************)

Rank(s, i) == Cardinality(Before(s, i))

\* A set of ids is finite.
LEMMA FiniteIds ==
  ASSUME NEW s \in SUBSET Ids
  PROVE  IsFiniteSet(s) /\ Cardinality(s) \in Nat
<1>1. IsFiniteSet(Ids)
  BY FS_Interval, ConstantsAssumption DEF Ids
<1>2. IsFiniteSet(s)
  BY <1>1, FS_Subset
<1> QED  BY <1>2, FS_CardinalityType

\* What Before is, and that ids are ordered
LEMMA BeforeFacts ==
  ASSUME NEW s \in SUBSET Ids, NEW i \in Ids
  PROVE  /\ Before(s, i) \in SUBSET Ids
         /\ i \notin Before(s, i)
         /\ \A k : k \in Before(s, i) <=> k \in s /\ k > i
<1>1. Ids \subseteq Nat
  BY ConstantsAssumption DEF Ids
<1>2. \A k : k \in Before(s, i) <=> k \in s /\ k > i
  BY DEF Before
<1>3. i \in Nat /\ ~(i > i)
  BY <1>1
<1> QED  BY <1>2, <1>3

\* A place is a natural number, below the length of the list for its runs.
LEMMA RankType ==
  ASSUME NEW s \in SUBSET Ids, NEW i \in Ids
  PROVE  /\ Rank(s, i) \in Nat
         /\ i \in s => Rank(s, i) < Cardinality(s)
<1>1. Before(s, i) \in SUBSET Ids /\ i \notin Before(s, i)
  BY BeforeFacts
<1>2. IsFiniteSet(Before(s, i)) /\ Rank(s, i) \in Nat
  BY <1>1, FiniteIds DEF Rank
<1>3. ASSUME i \in s PROVE Rank(s, i) < Cardinality(s)
  <2>1. Cardinality(Before(s, i) \cup {i}) = Rank(s, i) + 1
    BY <1>1, <1>2, FS_AddElement DEF Rank
  <2>2. Before(s, i) \cup {i} \in SUBSET s
    BY <1>3, BeforeFacts
  <2>3. Cardinality(Before(s, i) \cup {i}) <= Cardinality(s)
    BY <2>2, FiniteIds, FS_Subset
  <2> QED  BY <1>2, <2>1, <2>3, FiniteIds
<1> QED  BY <1>2, <1>3

\* Of two runs in a list, the one with the larger id comes first.
LEMMA RankOrder ==
  ASSUME NEW s \in SUBSET Ids, NEW i \in s, NEW j \in s, i < j
  PROVE  Rank(s, j) < Rank(s, i)
<1>1. i \in Ids /\ j \in Ids /\ Ids \subseteq Nat
  BY ConstantsAssumption DEF Ids
<1>2. Before(s, j) \cup {j} \in SUBSET Before(s, i)
  <2> SUFFICES ASSUME NEW k \in Before(s, j) \cup {j} PROVE k \in s /\ k > i
    BY <1>1, BeforeFacts
  <2>1. k \in s /\ (k > j \/ k = j)
    BY <1>1, BeforeFacts
  <2>2. k \in Nat /\ i \in Nat /\ j \in Nat
    BY <1>1, <2>1
  <2> QED  BY <2>1, <2>2
<1>3. Before(s, j) \in SUBSET Ids /\ Before(s, i) \in SUBSET Ids /\ j \notin Before(s, j)
  BY <1>1, BeforeFacts
<1>4. Cardinality(Before(s, j) \cup {j}) = Rank(s, j) + 1
  BY <1>3, FiniteIds, FS_AddElement DEF Rank
<1>5. Cardinality(Before(s, j) \cup {j}) <= Rank(s, i)
  BY <1>2, <1>3, FiniteIds, FS_Subset DEF Rank
<1> QED  BY <1>1, <1>4, <1>5, RankType

\* One more run in a list moves those below it one place down.
LEMMA RankShift ==
  ASSUME NEW s \in SUBSET Ids, NEW a \in Ids \ s, NEW i \in Ids
  PROVE  Rank(s \cup {a}, i) = IF a > i THEN Rank(s, i) + 1 ELSE Rank(s, i)
<1>1. Before(s \cup {a}, i) = IF a > i THEN Before(s, i) \cup {a} ELSE Before(s, i)
  BY DEF Before
<1>2. Before(s, i) \in SUBSET Ids /\ a \notin Before(s, i)
  BY DEF Before
<1> QED  BY <1>1, <1>2, FiniteIds, FS_AddElement DEF Rank

\* A set any two members of which are the same has at most one.
LEMMA AtMostOne ==
  ASSUME NEW Z, \A x, y \in Z : x = y
  PROVE  IsFiniteSet(Z) /\ Cardinality(Z) \in {0, 1}
<1>1. CASE Z = {}
  BY <1>1, FS_EmptySet
<1>2. CASE Z # {}
  <2>1. PICK z : Z = {z}
    BY <1>2
  <2> QED  BY <2>1, FS_Singleton
<1> QED  BY <1>1, <1>2

\* A set that one step adds at most one to
LEMMA OneMore ==
  ASSUME NEW S \in SUBSET Ids, NEW T \in SUBSET Ids, \A x, y \in T \ S : x = y
  PROVE  Cardinality(T) <= Cardinality(S) + 1
<1>1. IsFiniteSet(T \ S) /\ Cardinality(T \ S) \in {0, 1}
  BY AtMostOne
<1>2. IsFiniteSet(S) /\ IsFiniteSet(S \cap (T \ S)) /\ Cardinality(S) \in Nat
  BY FiniteIds
<1>3. S \cap (T \ S) = {} /\ Cardinality({}) = 0
  BY FS_EmptySet
<1>4. Cardinality(S \cup (T \ S)) = Cardinality(S) + Cardinality(T \ S) - 0
  BY <1>1, <1>2, <1>3, FS_Union
<1>5. T \in SUBSET (S \cup (T \ S)) /\ S \cup (T \ S) \in SUBSET Ids
  OBVIOUS
<1>6. Cardinality(T) <= Cardinality(S \cup (T \ S))
  BY <1>5, FiniteIds, FS_Subset
<1> QED  BY <1>1, <1>2, <1>4, <1>5, <1>6, FiniteIds
(***************************************************************************)
(* A list that one run enters or leaves between two pages.  D are runs     *)
(* that are due, got those the client has, o the offset of the next page.  *)
(***************************************************************************)

\* A run that enters hides nothing.
LEMMA EnteringHidesNone ==
  ASSUME NEW s \in SUBSET Ids, NEW a \in Ids \ s, NEW D \in SUBSET Ids, NEW o \in Nat
  PROVE  {i \in D : Rank(s \cup {a}, i) < o} \subseteq {i \in D : Rank(s, i) < o}
<1> SUFFICES ASSUME NEW i \in D, Rank(s \cup {a}, i) < o PROVE Rank(s, i) < o
  OBVIOUS
<1>1. i \in Ids /\ s \cup {a} \in SUBSET Ids
  OBVIOUS
<1>2. Rank(s, i) \in Nat /\ Rank(s \cup {a}, i) \in Nat
  BY <1>1, RankType
<1>3. Rank(s \cup {a}, i) = IF a > i THEN Rank(s, i) + 1 ELSE Rank(s, i)
  BY <1>1, RankShift
<1> QED  BY <1>2, <1>3

\* A run that leaves lets at most one, the next to be read, slip through.
LEMMA LeavingHidesOne ==
  ASSUME NEW s \in SUBSET Ids, NEW a \in Ids \ s, NEW D \in SUBSET s, NEW o \in Nat,
         NEW x \in D, Rank(s, x) < o, ~(Rank(s \cup {a}, x) < o),
         NEW y \in D, Rank(s, y) < o, ~(Rank(s \cup {a}, y) < o)
  PROVE  x = y
<1> DEFINE t == s \cup {a}
<1>1. /\ Ids \subseteq Nat /\ x \in Ids /\ y \in Ids /\ x \in t /\ y \in t
      /\ t \in SUBSET Ids
  BY ConstantsAssumption DEF Ids
<1>2. Rank(s, x) \in Nat /\ Rank(s, y) \in Nat /\ Rank(t, x) \in Nat /\ Rank(t, y) \in Nat
  BY <1>1, RankType
<1>3. Rank(t, x) <= Rank(s, x) + 1 /\ Rank(t, y) <= Rank(s, y) + 1
  BY <1>1, <1>2, RankShift
<1>4. Rank(t, x) = Rank(t, y)
  BY <1>2, <1>3
<1>5. ~(x < y) /\ ~(y < x)
  BY <1>1, <1>2, <1>4, RankOrder
<1> QED  BY <1>1, <1>5

\* A run that leaves brings none back.
LEMMA LeavingRepeatsNone ==
  ASSUME NEW s \in SUBSET Ids, NEW a \in Ids \ s, NEW got \in SUBSET Ids, NEW o \in Nat
  PROVE  {i \in got \cap s : Rank(s, i) >= o}
           \subseteq {i \in got \cap (s \cup {a}) : Rank(s \cup {a}, i) >= o}
<1> SUFFICES ASSUME NEW i \in got \cap s, Rank(s, i) >= o PROVE Rank(s \cup {a}, i) >= o
  OBVIOUS
<1>1. Rank(s, i) \in Nat /\ Rank(s, i) <= Rank(s \cup {a}, i)
  BY RankShift, RankType
<1>2. Rank(s \cup {a}, i) \in Nat
  BY RankType
<1> QED  BY <1>1, <1>2

\* A run that enters is itself what comes again, or brings the last one that was read.
LEMMA EnteringRepeatsOne ==
  ASSUME NEW s \in SUBSET Ids, NEW a \in Ids \ s, NEW o \in Nat,
         NEW x \in s \cup {a}, Rank(s \cup {a}, x) >= o, ~(x \in s /\ Rank(s, x) >= o),
         NEW y \in s \cup {a}, Rank(s \cup {a}, y) >= o, ~(y \in s /\ Rank(s, y) >= o)
  PROVE  x = y
<1> DEFINE t == s \cup {a}
<1>1. Ids \subseteq Nat /\ t \in SUBSET Ids /\ x \in Ids /\ y \in Ids
  BY ConstantsAssumption DEF Ids
<1>2. /\ Rank(s, x) \in Nat /\ Rank(s, y) \in Nat /\ Rank(t, x) \in Nat /\ Rank(t, y) \in Nat
      /\ Rank(t, a) \in Nat
  BY <1>1, RankType
<1>3. ASSUME NEW z \in {x, y}, z # a
      PROVE  z < a /\ Rank(t, z) = o
  <2>1. z \in s /\ z \in Ids /\ Rank(s, z) < o /\ Rank(t, z) >= o
    BY <1>2, <1>3
  <2>2. Rank(t, z) = IF a > z THEN Rank(s, z) + 1 ELSE Rank(s, z)
    BY <2>1, RankShift
  <2>3. Rank(s, z) \in Nat /\ Rank(t, z) \in Nat
    BY <1>2
  <2>4. a \in Nat /\ z \in Nat
    BY <1>1, <2>1
  <2> QED  BY <2>1, <2>2, <2>3, <2>4
<1>4. CASE x # a /\ y # a
  <2>1. Rank(t, x) = Rank(t, y)
    BY <1>3, <1>4
  <2>2. ~(x < y) /\ ~(y < x)
    BY <1>1, <1>2, <2>1, RankOrder
  <2> QED  BY <1>1, <2>2
<1>5. ASSUME NEW z \in {x, y}, z # a, Rank(t, a) >= o
      PROVE  FALSE
  <2>1. z < a /\ Rank(t, z) = o
    BY <1>3, <1>5
  <2>2. z \in t /\ a \in t
    BY <1>1
  <2>3. Rank(t, a) < Rank(t, z)
    BY <1>1, <2>1, <2>2, RankOrder
  <2> QED  BY <1>2, <1>5, <2>1, <2>3
<1> QED  BY <1>4, <1>5
-----------------------------------------------------------------------------
(***************************************************************************)
(* The invariant                                                           *)
(***************************************************************************)

List   == Listed(rows, reader.query)
Offset == (reader.page - 1) * PerPage(reader.count)

\* Runs that are due and have slipped to the pages that were read
Skipped == {i \in reader.due \ reader.got : Rank(List, i) < Offset}

\* Runs that were read and have come to the pages that are still to be read
Seen == {i \in reader.got \cap List : Rank(List, i) >= Offset}

\* Until the last page, each run that slipped through has its departure, and each
\* that came or will come again its arrival.
IInv ==
  /\ TypeInv
  /\ reader.due \subseteq Real(List)
  /\ reader.pc \notin {"reading", "read"} => reader.again = {}
  /\ reader.pc \in {"reading", "read"} =>
       /\ Cardinality(Skipped) <= reader.left
       /\ Cardinality(reader.again) + Cardinality(Seen) <= reader.came
  /\ reader.pc = "read" => Cardinality(List) <= Offset

\* A page has at least one row.
LEMMA PerPageType ==
  ASSUME NEW n \in Counts \cup {1}
  PROVE  PerPage(n) \in Nat \ {0}
<1>1. n \in Nat \ {0} /\ MaxPerPage \in Nat \ {0}
  BY ConstantsAssumption
<1> QED  BY <1>1 DEF PerPage

\* Where the next page begins
LEMMA OffsetType ==
  ASSUME TypeInv
  PROVE  /\ PerPage(reader.count) \in Nat \ {0}
         /\ Offset \in Nat
<1>1. PerPage(reader.count) \in Nat \ {0}
  <2>1. reader.count \in Counts \cup {1}
    BY DEF TypeInv, Reader
  <2> QED  BY <2>1, PerPageType
<1>2. reader.page - 1 \in Nat
  BY DEF TypeInv, Reader
<1>3. \A x, y \in Nat : x * y \in Nat
  OBVIOUS
<1> QED  BY <1>1, <1>2, <1>3 DEF Offset

LEMMA ListType ==
  ASSUME TypeInv
  PROVE  /\ List \in SUBSET Ids
         /\ Skipped \in SUBSET Ids
         /\ Seen \in SUBSET Ids
         /\ reader.got \in SUBSET Ids /\ reader.due \in SUBSET Ids /\ reader.again \in SUBSET Ids
         /\ reader.came \in Nat /\ reader.left \in Nat
<1>1. /\ reader.got \in SUBSET Ids /\ reader.due \in SUBSET Ids /\ reader.again \in SUBSET Ids
      /\ reader.came \in Nat /\ reader.left \in Nat
  BY DEF TypeInv, Reader
<1>2. List \in SUBSET Ids
  BY DEF List, Listed
<1> QED  BY <1>1, <1>2 DEF Skipped, Seen

-----------------------------------------------------------------------------
(***************************************************************************)
(* Types                                                                   *)
(***************************************************************************)

\* The three fields that Observe sets
LEMMA ObservedType ==
  ASSUME NEW r \in Reader, NEW d \in SUBSET Ids, NEW c \in Nat, NEW l \in Nat
  PROVE  [r EXCEPT !.due = d, !.came = c, !.left = l] \in Reader
BY DEF Reader

\* A change of the table keeps the types of what the client remembers.
LEMMA ObserveType ==
  ASSUME TypeInv, Observe
  PROVE  reader' \in Reader /\ reader'.again \subseteq reader'.got
<1> DEFINE old == Listed(rows, reader.query)
           new == Listed(rows', reader.query)
<1>1. new \ old \in SUBSET Ids /\ old \ new \in SUBSET Ids
  BY DEF Listed
<1>2. Cardinality(new \ old) \in Nat /\ Cardinality(old \ new) \in Nat
  BY <1>1, FiniteIds
<1>3. \A c, l \in Nat : [reader EXCEPT !.due = @ \cap new, !.came = @ + c, !.left = @ + l] \in Reader
  <2> SUFFICES ASSUME NEW c \in Nat, NEW l \in Nat
               PROVE  [reader EXCEPT !.due = @ \cap new, !.came = @ + c, !.left = @ + l] \in Reader
    OBVIOUS
  <2>1. reader \in Reader
    BY DEF TypeInv
  <2>2. reader.due \cap new \in SUBSET Ids /\ reader.came + c \in Nat /\ reader.left + l \in Nat
    BY <2>1 DEF Reader
  <2> QED  BY <2>1, <2>2, ObservedType
<1> HIDE DEF old, new
<1>4. reader' = [reader EXCEPT !.due = @ \cap new, !.came = @ + Cardinality(new \ old),
                              !.left = @ + Cardinality(old \ new)]
  BY DEF Observe, old, new
<1>5. reader' \in Reader
  BY <1>2, <1>3, <1>4
<1>6. reader'.again = reader.again /\ reader'.got = reader.got
  BY <1>4 DEF TypeInv, Reader
<1> QED  BY <1>5, <1>6 DEF TypeInv

LEMMA TypeStep ==
  ASSUME TypeInv, [Next]_vars
  PROVE  TypeInv'
<1>1. ASSUME NEW a \in Queries, NEW n \in Counts, Open(a, n) PROVE TypeInv'
  <2>1. Real(Listed(rows, a)) \in SUBSET Ids
    BY DEF Real, Listed
  <2>2. reader' \in Reader /\ reader'.again = {}
    <3>1. reader' = [pc |-> reader'.pc, query |-> a, count |-> n, page |-> 1, got |-> {},
                     again |-> {}, due |-> reader'.due, came |-> 0, left |-> 0]
      BY <1>1 DEF Open, Away
    <3>2. reader'.pc \in Pcs /\ reader'.due \in SUBSET Ids
      BY <1>1, <2>1 DEF Open, Away, Pcs
    <3>3. a \in Queries \cup {NoQuery} /\ n \in Counts \cup {1} /\ 1 \in Nat \ {0} /\ 0 \in Nat
      OBVIOUS
    <3> QED  BY <3>1, <3>2, <3>3 DEF Reader
  <2> QED  BY <1>1, <2>2 DEF Open, TypeInv
<1>2. CASE Read
  <2> DEFINE items == Real(Page(Listed(rows, reader.query), reader.page, PerPage(reader.count)))
  <2> DEFINE pc == IF reader.page < PageCount(Listed(rows, reader.query), PerPage(reader.count))
                   THEN "reading" ELSE "read"
  <2>1. items \in SUBSET Ids /\ pc \in Pcs
    BY DEF Real, Page, Listed, Pcs
  <2> HIDE DEF items, pc
  <2>2. reader' = [reader EXCEPT
          !.got = @ \cup items,
          !.again = @ \cup (reader.got \cap items),
          !.page = @ + 1,
          !.pc = pc]
    BY <1>2 DEF Read, items, pc
  <2>3. /\ reader \in Reader
        /\ reader.got \in SUBSET Ids /\ reader.again \in SUBSET Ids
        /\ reader.again \subseteq reader.got /\ reader.page + 1 \in Nat \ {0}
    BY DEF TypeInv, Reader
  <2>4. /\ reader.got \cup items \in SUBSET Ids
        /\ reader.again \cup (reader.got \cap items) \in SUBSET Ids
    BY <2>1, <2>3
  <2>5. /\ reader' \in Reader
        /\ reader'.got = reader.got \cup items
        /\ reader'.again = reader.again \cup (reader.got \cap items)
    <3>1. PICK g \in SUBSET Ids, b \in SUBSET Ids, p \in Nat \ {0} :
            /\ g = reader.got \cup items
            /\ b = reader.again \cup (reader.got \cap items)
            /\ p = reader.page + 1
      BY <2>3, <2>4, Zenon
    <3>2. reader' = [reader EXCEPT !.got = g, !.again = b, !.page = p, !.pc = pc]
      BY <2>2, <3>1
    <3>3. reader' \in Reader /\ reader'.got = g /\ reader'.again = b
      <4>1. reader \in Reader /\ pc \in Pcs
        BY <2>1, <2>3
      <4>2. /\ [reader EXCEPT !.got = g, !.again = b, !.page = p, !.pc = pc] \in Reader
            /\ [reader EXCEPT !.got = g, !.again = b, !.page = p, !.pc = pc].got = g
            /\ [reader EXCEPT !.got = g, !.again = b, !.page = p, !.pc = pc].again = b
        BY <4>1 DEF Reader
      <4> QED  BY <3>2, <4>2, Zenon
    <3> QED  BY <3>1, <3>3
  <2> QED  BY <1>2, <2>3, <2>5 DEF Read, TypeInv
<1>3. ASSUME NEW i \in Ids, NEW r \in Runs, Arrive(i, r) PROVE TypeInv'
  <2>1. [r EXCEPT !.status = InQueue] \in Row
    BY ConstantsAssumption DEF Row
  <2>2. rows' \in [Ids -> Row \cup {NoRun}]
    BY <1>3, <2>1 DEF Arrive, TypeInv
  <2> QED  BY <1>3, <2>2, ObserveType DEF Arrive, TypeInv
<1>4. ASSUME NEW i \in Ids, NEW s \in Statuses, ChangeStatus(i, s) PROVE TypeInv'
  <2>1. rows[i] \in Row
    BY <1>4 DEF ChangeStatus, TypeInv
  <2>2. [rows[i] EXCEPT !.status = s] \in Row
    BY <2>1 DEF Row
  <2>3. rows' \in [Ids -> Row \cup {NoRun}]
    BY <1>4, <2>2 DEF ChangeStatus, TypeInv
  <2>4. changes' \in 0 .. MaxChanges
    BY <1>4, ConstantsAssumption DEF ChangeStatus, TypeInv
  <2> QED  BY <1>4, <2>3, <2>4, ObserveType DEF ChangeStatus, TypeInv
<1>5. CASE UNCHANGED vars
  BY <1>5 DEF vars, TypeInv
<1> QED  BY <1>1, <1>2, <1>3, <1>4, <1>5 DEF Next
-----------------------------------------------------------------------------
(***************************************************************************)
(* The steps                                                               *)
(***************************************************************************)

\* The client begins with nothing read.
LEMMA OpenKeeps ==
  ASSUME IInv, TypeInv', NEW a \in Queries, NEW n \in Counts, Open(a, n)
  PROVE  IInv'
<1>1. /\ reader'.pc \in {"reading", "failed", "not_found"}
      /\ reader'.page = 1 /\ reader'.got = {} /\ reader'.again = {}
      /\ reader'.came = 0 /\ reader'.left = 0 /\ reader'.query = a
      /\ reader'.due = IF UnknownModule(a) THEN {} ELSE Real(Listed(rows, a))
      /\ rows' = rows
  BY DEF Open, Away
<1>2. reader'.due \subseteq Real(List)'
  BY <1>1 DEF List, Listed, Real
<1>3. PerPage(reader'.count) \in Nat
  <2>1. reader'.count \in Counts \cup {1}
    BY DEF TypeInv, Reader
  <2> QED  BY <2>1, PerPageType
<1>4. Offset' = 0
  BY <1>1, <1>3 DEF Offset
<1>5. Skipped' = {}
  <2> SUFFICES ASSUME NEW i \in Skipped' PROVE FALSE
    OBVIOUS
  <2>1. i \in Ids /\ Rank(List', i) < 0
    BY <1>4 DEF Skipped, TypeInv, Reader
  <2>2. List' \in SUBSET Ids
    BY DEF List, Listed
  <2> QED  BY <2>1, <2>2, RankType
<1>6. Seen' = {}
  BY <1>1 DEF Seen
<1> QED  BY <1>1, <1>2, <1>5, <1>6, FS_EmptySet DEF IInv

\* What was read is not to be read again, and what is read next was not skipped.
LEMMA ReadKeeps ==
  ASSUME IInv, TypeInv', Read
  PROVE  IInv'
<1> DEFINE n     == PerPage(reader.count)
           items == Real(Page(List, reader.page, n))
           known == reader.got \cap items
<1>t. TypeInv
  BY DEF IInv
<1>1. /\ rows' = rows /\ reader.pc = "reading"
      /\ reader'.query = reader.query /\ reader'.count = reader.count
      /\ reader'.due = reader.due /\ reader'.came = reader.came /\ reader'.left = reader.left
      /\ reader'.got = reader.got \cup items
      /\ reader'.again = reader.again \cup known
      /\ reader'.page = reader.page + 1
      /\ reader'.pc = IF reader.page < PageCount(List, n) THEN "reading" ELSE "read"
  BY <1>t DEF Read, List, TypeInv, Reader
<1>2. List' = List
  BY <1>1 DEF List, Listed
<1>3. n \in Nat \ {0} /\ Offset \in Nat /\ reader.page \in Nat \ {0}
  BY <1>t, OffsetType DEF TypeInv, Reader
<1>4. Offset' = reader.page * n /\ Offset' = Offset + n
  <2>1. \A p \in Nat \ {0}, m \in Nat : (p + 1 - 1) * m = p * m /\ p * m = (p - 1) * m + m
    OBVIOUS
  <2> HIDE DEF n
  <2>2. Offset = (reader.page - 1) * n /\ Offset' = (reader'.page - 1) * n
    BY <1>1 DEF Offset, n
  <2>3. reader'.page = reader.page + 1
    BY <1>1
  <2> QED  BY <1>3, <2>1, <2>2, <2>3
<1>5. /\ items \in SUBSET List
      /\ \A i \in List : i \in items <=> rows[i].user > 0 /\ Offset <= Rank(List, i)
                                                   /\ Rank(List, i) < Offset'
  <2>1. \A i \in List : Rank(List, i) \in Nat
    BY <1>t, ListType, RankType
  <2>2. Offset = (reader.page - 1) * n /\ Offset' = reader.page * n
    BY <1>4 DEF Offset
  <2>3. \A i : i \in items <=> i \in List /\ rows[i].user > 0
                  /\ Rank(List, i) \in (reader.page - 1) * n .. reader.page * n - 1
    BY DEF Real, Page, Rank
  <2> HIDE DEF n, items
  <2>4. Offset' \in Nat
    BY <1>3, <1>4
  <2> QED  BY <1>3, <2>1, <2>2, <2>3, <2>4
<1> HIDE DEF items, n
<1>6. Skipped' \in SUBSET Skipped
  <2> SUFFICES ASSUME NEW i \in Skipped' PROVE i \in Skipped
    OBVIOUS
  <2>1. i \in reader.due /\ i \notin reader.got /\ i \notin items /\ Rank(List, i) < Offset'
    BY <1>1, <1>2 DEF Skipped
  <2>2. i \in List /\ rows[i].user > 0
    BY <2>1 DEF IInv, Real
  <2>3. ~(Offset <= Rank(List, i))
    BY <1>5, <2>1, <2>2
  <2>4. Rank(List, i) \in Nat
    BY <1>t, <2>2, ListType, RankType
  <2> QED  BY <1>3, <2>1, <2>3, <2>4 DEF Skipped
<1>7. Seen' \cup known \in SUBSET Seen /\ Seen' \cap known = {}
  <2>1. ASSUME NEW i \in Seen' PROVE i \in Seen /\ i \notin known
    <3>1. i \in reader'.got /\ i \in List /\ Rank(List, i) >= Offset'
      BY <1>2 DEF Seen
    <3>2. Rank(List, i) \in Nat
      BY <1>t, <3>1, ListType, RankType
    <3>3. i \notin items /\ Rank(List, i) >= Offset
      BY <1>3, <1>4, <1>5, <3>1, <3>2
    <3> QED  BY <1>1, <3>1, <3>3 DEF Seen
  <2>2. ASSUME NEW i \in known PROVE i \in Seen
    <3>1. i \in reader.got /\ i \in items /\ i \in List
      BY <1>5
    <3>2. Offset <= Rank(List, i)
      BY <1>5, <3>1
    <3>3. Rank(List, i) \in Nat
      BY <1>t, <3>1, ListType, RankType
    <3> QED  BY <1>3, <3>1, <3>2, <3>3 DEF Seen
  <2> QED  BY <2>1, <2>2
<1>8. Cardinality(Skipped') <= reader'.left
  <2>1. Cardinality(Skipped') <= Cardinality(Skipped)
    BY <1>t, <1>6, ListType, FiniteIds, FS_Subset
  <2>2. Cardinality(Skipped') \in Nat /\ Cardinality(Skipped) \in Nat
    BY <1>t, <1>6, ListType, FiniteIds
  <2> QED  BY <1>1, <1>t, <2>1, <2>2, ListType DEF IInv
<1>9. Cardinality(reader'.again) + Cardinality(Seen') <= reader'.came
  <2>1. known \in SUBSET Ids /\ Seen' \in SUBSET Ids /\ reader.again \in SUBSET Ids
        /\ Seen \in SUBSET Ids
    BY <1>t, <1>7, ListType
  <2>2. /\ IsFiniteSet(known) /\ IsFiniteSet(Seen') /\ IsFiniteSet(reader.again) /\ IsFiniteSet(Seen)
        /\ Cardinality(known) \in Nat /\ Cardinality(Seen') \in Nat
        /\ Cardinality(reader.again) \in Nat /\ Cardinality(Seen) \in Nat
        /\ Cardinality(reader.again \cap known) \in Nat
    BY <2>1, FiniteIds
  <2>3. Cardinality(reader.again \cup known) =
          Cardinality(reader.again) + Cardinality(known) - Cardinality(reader.again \cap known)
    BY <2>2, FS_Union
  <2>4. Cardinality(Seen' \cup known) = Cardinality(Seen') + Cardinality(known) - 0
    <3>1. Cardinality(Seen' \cap known) = 0
      BY <1>7, FS_EmptySet
    <3> QED  BY <2>2, <3>1, FS_Union
  <2>5. Cardinality(Seen' \cup known) <= Cardinality(Seen)
    BY <1>7, <2>2, FS_Subset
  <2>6. Cardinality(reader.again) + Cardinality(Seen) <= reader.came
    BY <1>1 DEF IInv
  <2>7. reader.came \in Nat
    BY <1>t, ListType
  <2> HIDE DEF known
  <2> QED  BY <1>1, <2>2, <2>3, <2>4, <2>5, <2>6, <2>7
<1>10. reader'.pc = "read" => Cardinality(List') <= Offset'
  <2>1. \A c \in Nat, m \in Nat \ {0}, p \in Nat : ~(p < (c + m - 1) \div m) => c <= p * m
    OBVIOUS
  <2>2. Cardinality(List) \in Nat
    BY <1>t, ListType, FiniteIds
  <2> QED  BY <1>1, <1>2, <1>3, <1>4, <2>1, <2>2 DEF PageCount
<1>11. reader'.due \subseteq Real(List)'
  BY <1>1, <1>2 DEF IInv, Real
<1> QED  BY <1>1, <1>8, <1>9, <1>10, <1>11 DEF IInv

\* What a step of one row does to the list
LEMMA ListStep ==
  ASSUME TypeInv, NEW a \in Ids, NEW e, rows' = [rows EXCEPT ![a] = e], Observe
  PROVE  /\ reader'.query = reader.query /\ reader'.pc = reader.pc
         /\ reader'.got = reader.got /\ reader'.again = reader.again
         /\ Offset' = Offset
         /\ reader'.due = reader.due \cap List'
         /\ reader'.came = reader.came + Cardinality(List' \ List)
         /\ reader'.left = reader.left + Cardinality(List \ List')
         /\ \/ List' = List
            \/ a \notin List /\ List' = List \cup {a}
            \/ a \notin List' /\ List = List' \cup {a}
<1>1. /\ reader'.query = reader.query /\ reader'.pc = reader.pc
      /\ reader'.got = reader.got /\ reader'.again = reader.again
      /\ reader'.page = reader.page /\ reader'.count = reader.count
  BY DEF Observe, TypeInv, Reader
<1>2. List' = Listed(rows', reader.query)
  BY <1>1 DEF List
<1>3. /\ reader'.due = reader.due \cap List'
      /\ reader'.came = reader.came + Cardinality(List' \ List)
      /\ reader'.left = reader.left + Cardinality(List \ List')
  BY <1>2 DEF Observe, List, TypeInv, Reader
<1>4. Offset' = Offset
  BY <1>1 DEF Offset
<1>5. \A i \in Ids \ {a} : rows'[i] = rows[i]
  BY DEF TypeInv
<1>6. \A i \in Ids \ {a} : i \in List' <=> i \in List
  BY <1>2, <1>5 DEF List, Listed
<1>7. List \subseteq Ids /\ List' \subseteq Ids
  BY <1>2 DEF List, Listed
<1>8. \/ List' = List
      \/ a \notin List /\ List' = List \cup {a}
      \/ a \notin List' /\ List = List' \cup {a}
  BY <1>6, <1>7
<1> QED  BY <1>1, <1>3, <1>4, <1>8

\* One difference counts as one.
LEMMA OneDiffers ==
  ASSUME NEW s, NEW a, a \notin s
  PROVE  Cardinality((s \cup {a}) \ s) = 1 /\ Cardinality(s \ (s \cup {a})) = 0
<1>1. (s \cup {a}) \ s = {a} /\ s \ (s \cup {a}) = {}
  OBVIOUS
<1> QED  BY <1>1, FS_EmptySet, FS_Singleton

LEMMA TableKeeps ==
  ASSUME IInv, TypeInv', reader.pc = "reading",
         NEW a \in Ids, NEW e, rows' = [rows EXCEPT ![a] = e], Observe,
         rows[a] = NoRun \/ e.user = rows[a].user
  PROVE  IInv'
<1>t. TypeInv
  BY DEF IInv
<1>1. /\ reader'.query = reader.query /\ reader'.pc = reader.pc
      /\ reader'.got = reader.got /\ reader'.again = reader.again
      /\ Offset' = Offset
      /\ reader'.due = reader.due \cap List'
      /\ reader'.came = reader.came + Cardinality(List' \ List)
      /\ reader'.left = reader.left + Cardinality(List \ List')
      /\ \/ List' = List
         \/ a \notin List /\ List' = List \cup {a}
         \/ a \notin List' /\ List = List' \cup {a}
  BY <1>t, ListStep
<1>2. /\ List \in SUBSET Ids /\ List' \in SUBSET Ids
      /\ reader.got \in SUBSET Ids /\ reader.due \in SUBSET Ids /\ reader'.due \in SUBSET Ids
      /\ Skipped \in SUBSET Ids /\ Skipped' \in SUBSET Ids
      /\ Seen \in SUBSET Ids /\ Seen' \in SUBSET Ids
      /\ reader.came \in Nat /\ reader.left \in Nat /\ Offset \in Nat
  <2>1. List' \in SUBSET Ids
    BY DEF List, Listed
  <2>2. Skipped' \in SUBSET Ids /\ Seen' \in SUBSET Ids
    BY <1>1, <1>t, <2>1, ListType DEF Skipped, Seen
  <2> QED  BY <1>t, <1>1, <2>1, <2>2, ListType, OffsetType
<1>3. /\ Cardinality(Skipped) \in Nat /\ Cardinality(Skipped') \in Nat
      /\ Cardinality(Seen) \in Nat /\ Cardinality(Seen') \in Nat
      /\ Cardinality(reader.again) \in Nat
  BY <1>2, <1>t, ListType, FiniteIds
<1>4. /\ Cardinality(Skipped) <= reader.left
      /\ Cardinality(reader.again) + Cardinality(Seen) <= reader.came
  BY DEF IInv
<1> DEFINE D == reader'.due \ reader.got
<1>5. D \in SUBSET Ids /\ D \subseteq List' /\ D \subseteq reader.due \ reader.got
  BY <1>1, <1>2
<1>6. /\ Skipped' = {i \in D : Rank(List', i) < Offset}
      /\ Seen' = {i \in reader.got \cap List' : Rank(List', i) >= Offset}
  BY <1>1 DEF Skipped, Seen
<1> HIDE DEF D
<1>7. /\ Cardinality(Skipped') <= reader'.left
      /\ Cardinality(reader'.again) + Cardinality(Seen') <= reader'.came
  <2>1. CASE List' = List
    <3>1. Cardinality(List' \ List) = 0 /\ Cardinality(List \ List') = 0
      BY <2>1, FS_EmptySet
    <3>2. Skipped' \in SUBSET Skipped /\ Seen' = Seen
      BY <1>5, <1>6, <2>1 DEF Skipped, Seen
    <3>3. Cardinality(Skipped') <= Cardinality(Skipped)
      BY <1>2, <3>2, FiniteIds, FS_Subset
    <3> QED  BY <1>1, <1>2, <1>3, <1>4, <3>1, <3>2, <3>3
  <2>2. CASE a \notin List /\ List' = List \cup {a}
    <3>1. Cardinality(List' \ List) = 1 /\ Cardinality(List \ List') = 0
      BY <2>2, OneDiffers
    <3>2. Skipped' \in SUBSET Skipped
      <4>1. Skipped' \subseteq {i \in D : Rank(List, i) < Offset}
        BY <1>2, <1>5, <1>6, <2>2, EnteringHidesNone
      <4> QED  BY <1>5, <4>1 DEF Skipped
    <3>3. Cardinality(Skipped') <= Cardinality(Skipped)
      BY <1>2, <3>2, FiniteIds, FS_Subset
    <3>4. \A x, y \in Seen' \ Seen : x = y
      <4> SUFFICES ASSUME NEW x \in Seen' \ Seen, NEW y \in Seen' \ Seen PROVE x = y
        OBVIOUS
      <4>1. /\ x \in List' /\ Rank(List', x) >= Offset /\ ~(x \in List /\ Rank(List, x) >= Offset)
            /\ y \in List' /\ Rank(List', y) >= Offset /\ ~(y \in List /\ Rank(List, y) >= Offset)
        BY <1>6 DEF Seen
      <4> QED  BY <1>2, <2>2, <4>1, EnteringRepeatsOne
    <3>5. Cardinality(Seen') <= Cardinality(Seen) + 1
      BY <1>2, <3>4, OneMore
    <3> QED  BY <1>1, <1>2, <1>3, <1>4, <3>1, <3>3, <3>5
  <2>3. CASE a \notin List' /\ List = List' \cup {a}
    <3>1. Cardinality(List' \ List) = 0 /\ Cardinality(List \ List') = 1
      BY <2>3, OneDiffers
    <3>2. Seen' \in SUBSET Seen
      BY <1>2, <1>6, <2>3, LeavingRepeatsNone DEF Seen
    <3>3. Cardinality(Seen') <= Cardinality(Seen)
      BY <1>2, <3>2, FiniteIds, FS_Subset
    <3>4. \A x, y \in Skipped' \ Skipped : x = y
      <4> SUFFICES ASSUME NEW x \in Skipped' \ Skipped, NEW y \in Skipped' \ Skipped PROVE x = y
        OBVIOUS
      <4>1. /\ x \in D /\ Rank(List', x) < Offset /\ ~(Rank(List, x) < Offset)
            /\ y \in D /\ Rank(List', y) < Offset /\ ~(Rank(List, y) < Offset)
        BY <1>5, <1>6 DEF Skipped
      <4>2. D \in SUBSET List' /\ a \in Ids \ List'
        BY <1>5, <2>3
      <4> QED  BY <1>2, <2>3, <4>1, <4>2, LeavingHidesOne
    <3>5. Cardinality(Skipped') <= Cardinality(Skipped) + 1
      BY <1>2, <3>4, OneMore
    <3> QED  BY <1>1, <1>2, <1>3, <1>4, <3>1, <3>3, <3>5
  <2> QED  BY <1>1, <2>1, <2>2, <2>3
<1>8. reader'.due \subseteq Real(List)'
  <2> SUFFICES ASSUME NEW i \in reader'.due PROVE rows'[i].user > 0
    BY <1>1 DEF Real
  <2>1. i \in reader.due /\ i \in Ids
    BY <1>1, <1>2
  <2>2. i \in List /\ rows[i].user > 0
    BY <2>1 DEF IInv, Real
  <2>3. rows[i] # NoRun
    BY <2>2 DEF List, Listed
  <2>4. CASE i = a
    BY <1>t, <2>2, <2>3, <2>4 DEF TypeInv
  <2>5. CASE i # a
    BY <1>t, <2>1, <2>2, <2>5 DEF TypeInv
  <2> QED  BY <2>4, <2>5
<1> QED  BY <1>1, <1>7, <1>8 DEF IInv

-----------------------------------------------------------------------------
THEOREM Invariance == Spec => []IInv
<1>1. Init => IInv
  <2> SUFFICES ASSUME Init PROVE IInv
    OBVIOUS
  <2>1. rows \in [Ids -> Row \cup {NoRun}]
    BY ConstantsAssumption DEF Init, Row
  <2>2. reader \in Reader /\ reader.again = {} /\ reader.due = {} /\ reader.pc = "away"
    BY DEF Init, Away, Reader, Pcs
  <2>3. changes \in 0 .. MaxChanges
    BY ConstantsAssumption DEF Init
  <2> QED  BY <2>1, <2>2, <2>3 DEF IInv, TypeInv
<1>2. IInv /\ [Next]_vars => IInv'
  <2> SUFFICES ASSUME IInv, [Next]_vars PROVE IInv'
    OBVIOUS
  <2>t. TypeInv /\ TypeInv'
    BY TypeStep DEF IInv
  <2>1. ASSUME NEW a \in Queries, NEW n \in Counts, Open(a, n) PROVE IInv'
    BY <2>t, <2>1, OpenKeeps
  <2>2. CASE Read
    BY <2>t, <2>2, ReadKeeps
  <2>3. ASSUME NEW i \in Ids, NEW r \in Runs, Arrive(i, r) PROVE IInv'
    BY <2>t, <2>3, TableKeeps DEF Arrive
  <2>4. ASSUME NEW i \in Ids, NEW s \in Statuses, ChangeStatus(i, s) PROVE IInv'
    <3>1. rows[i] \in Row
      BY <2>t, <2>4 DEF ChangeStatus, TypeInv
    <3>2. [rows[i] EXCEPT !.status = s].user = rows[i].user
      BY <3>1 DEF Row
    <3>3. rows' = [rows EXCEPT ![i] = [rows[i] EXCEPT !.status = s]]
      BY <2>4 DEF ChangeStatus
    <3> QED  BY <2>t, <2>4, <3>2, <3>3, TableKeeps DEF ChangeStatus
  <2>5. CASE UNCHANGED vars
    BY <2>5 DEF vars, IInv, TypeInv, List, Listed, Real, Offset, Skipped, Seen, Rank, Before
  <2> QED  BY <2>1, <2>2, <2>3, <2>4, <2>5 DEF Next
<1> QED  BY <1>1, <1>2, PTL DEF Spec

\* Every variable of the list and its reader has its type, whatever arrives.
THEOREM TypeCorrect == Spec => []TypeOK
<1>1. IInv => TypeOK
  BY DEF IInv, TypeInv, TypeOK, Reader, Pcs, Row
<1> QED  BY Invariance, <1>1, PTL

\* A client that read all pages missed no more of the runs that were listed all the
\* time than runs left the list meanwhile (ProblemSubmissionsFilterApi.get).
THEOREM MissesAreBounded == Spec => []MissesBounded
<1>1. IInv => MissesBounded
  <2> SUFFICES ASSUME IInv, reader.pc = "read"
               PROVE  Cardinality(reader.due \ reader.got) <= reader.left
    BY DEF MissesBounded
  <2>t. TypeInv
    BY DEF IInv
  <2>1. reader.due \ reader.got \subseteq Skipped
    <3> SUFFICES ASSUME NEW i \in reader.due \ reader.got PROVE Rank(List, i) < Offset
      BY DEF Skipped
    <3>1. i \in List
      BY DEF IInv, Real
    <3>2. Rank(List, i) \in Nat /\ Rank(List, i) < Cardinality(List)
      BY <2>t, <3>1, ListType, RankType
    <3>3. Cardinality(List) <= Offset /\ Cardinality(List) \in Nat /\ Offset \in Nat
      BY <2>t, ListType, OffsetType, FiniteIds DEF IInv
    <3> QED  BY <3>2, <3>3
  <2>2. Skipped \subseteq reader.due \ reader.got
    BY DEF Skipped
  <2>3. Skipped = reader.due \ reader.got
    BY <2>1, <2>2
  <2> QED  BY <2>3 DEF IInv
<1> QED  BY Invariance, <1>1, PTL

\* It saw no more runs twice than runs entered the list meanwhile.
THEOREM RepeatsAreBounded == Spec => []RepeatsBounded
<1>1. IInv => RepeatsBounded
  <2> SUFFICES ASSUME IInv PROVE Cardinality(reader.again) <= reader.came
    BY DEF RepeatsBounded
  <2>t. TypeInv
    BY DEF IInv
  <2>1. /\ Cardinality(reader.again) \in Nat /\ Cardinality(Seen) \in Nat /\ reader.came \in Nat
    BY <2>t, ListType, FiniteIds
  <2>2. CASE reader.pc \in {"reading", "read"}
    BY <2>1, <2>2 DEF IInv
  <2>3. CASE reader.pc \notin {"reading", "read"}
    BY <2>1, <2>3, FS_EmptySet DEF IInv
  <2> QED  BY <2>2, <2>3
<1> QED  BY Invariance, <1>1, PTL
=============================================================================
