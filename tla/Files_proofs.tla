---------------------------- MODULE Files_proofs ----------------------------
(***************************************************************************)
(* Of the parts side by side in Readers, here: what an archive of outputs  *)
(* holds is found in it and shown as far as it is marked, the samples on   *)
(* the page of a problem are of their time, files and sources are shown as *)
(* they were written, and a monitor of contests is whole.                  *)
(***************************************************************************)
EXTENDS Readers_proofs

-----------------------------------------------------------------------------
(***************************************************************************)
(* The archive of outputs                                                  *)
(***************************************************************************)

\* Some largest of the numbers up to n
LEMMA MaxOfSome ==
  ASSUME NEW n \in Nat, NEW S \in SUBSET (1 .. n), S # {}
  PROVE  /\ Archive!Max(S) \in S
         /\ \A i \in S : Archive!Max(S) >= i
<1> DEFINE Has(m) == S \cap (1 .. m) # {} => \E x \in S \cap (1 .. m) : \A y \in S \cap (1 .. m) : x >= y
           T == {m \in Nat : Has(m)}
<1>1. Has(0)
  OBVIOUS
<1>2. ASSUME NEW m \in Nat, Has(m)
      PROVE  Has(m + 1)
  <2>1. 1 .. m + 1 = (1 .. m) \cup {m + 1} /\ \A i \in 1 .. m : m + 1 >= i
    OBVIOUS
  <2>2. CASE m + 1 \in S
    <3>1. m + 1 \in S \cap (1 .. m + 1)
      BY <2>1, <2>2
    <3>2. \A y \in S \cap (1 .. m + 1) : m + 1 >= y
      BY <2>1
    <3> QED  BY <3>1, <3>2
  <2>3. CASE m + 1 \notin S
    <3>1. S \cap (1 .. m + 1) = S \cap (1 .. m)
      BY <2>1, <2>3
    <3> QED  BY <1>2, <3>1
  <2> QED  BY <2>2, <2>3
<1> HIDE DEF Has
<1>3. T = Nat
  <2>1. T \in SUBSET Nat /\ 0 \in T /\ \A m \in T : m + 1 \in T
    BY <1>1, <1>2
  <2> HIDE DEF T
  <2> QED  BY <2>1, Induction
<1>4. Has(n)
  BY <1>3
<1>5. S \cap (1 .. n) = S
  OBVIOUS
<1>6. \E x \in S : \A y \in S : x >= y
  BY <1>4, <1>5 DEF Has
<1> QED  BY <1>6 DEF Archive!Max

\* Where the i-th file written ends in the archive
End(w, pos, i) == pos[i] + 16 + w[i].width + w[i].size

\* What its header says
HeaderOf(w, pos, i) ==
  [name |-> w[i].name, size |-> w[i].size, place |-> pos[i] + 16 + w[i].width]

\* The files written are in the archive one after the other, from the places pos on.
Laid(d, w, pos) ==
  /\ pos \in [1 .. Len(w) -> Nat]
  /\ DOMAIN d.at = {pos[i] : i \in 1 .. Len(w)}
  /\ \A i \in 1 .. Len(w) : d.at[pos[i]] = w[i]
  /\ \A i, j \in 1 .. Len(w) : i < j => End(w, pos, i) <= pos[j]
  /\ \A i \in 1 .. Len(w) : i = 1 => pos[i] = 16
  /\ \A i, j \in 1 .. Len(w) : j = i + 1 => pos[j] = Archive!Align(End(w, pos, i))
  /\ d.end = IF Len(w) = 0 THEN 16 ELSE End(w, pos, Len(w))

\* The archive holds the files that were written, and nothing if there is none.
ArchiveInv ==
  /\ problem \in [input : Texts \cup {None}, corr : Texts]
  /\ written \in Seq(Files)
  /\ disk.end \in Nat
  /\ IF Archive!Exists THEN \E pos : Laid(disk, written, pos) ELSE written = <<>>

\* In the beginning there is no archive.
LEMMA ArchiveInit == Init => ArchiveInv
BY DEF Init, Archive!Init, ArchiveInv, Archive!NoArchive, Archive!Exists

\* Rounding up gives the next multiple of 16.
LEMMA AlignUp ==
  ASSUME NEW n \in Nat
  PROVE  Archive!Align(n) \in Nat /\ Archive!Align(n) >= n
BY DEF Archive!Align

\* A file is written behind those there are.
LEMMA ArchiveStep == ArchiveInv /\ [Next]_vars => ArchiveInv'
<1> SUFFICES ASSUME ArchiveInv, [Next]_vars
             PROVE  ArchiveInv'
  OBVIOUS
<1>1. CASE UNCHANGED archive
  BY <1>1 DEF archive, ArchiveInv, Laid, End, Archive!Exists
<1>2. CASE Archive!Create
  <2>1. /\ disk' = [end |-> 16, at |-> <<>>] /\ UNCHANGED <<written, problem>>
        /\ written = <<>>
    BY <1>2 DEF Archive!Create, Archive!HeaderSize, ArchiveInv
  <2>2. Laid(disk', written', <<>>)
    BY <2>1 DEF Laid
  <2> QED  BY <2>1, <2>2 DEF ArchiveInv, Archive!Exists
<1>3. ASSUME NEW f \in Files, Archive!Write(f)
      PROVE  ArchiveInv'
  <2> DEFINE N == Len(written)
             n == Archive!Align(disk.end)
  <2>1. /\ Archive!Exists /\ UNCHANGED problem
        /\ written' = Append(written, f)
        /\ disk' = [end |-> n + 16 + f.width + f.size,
                    at |-> [m \in {n} \cup DOMAIN disk.at |-> IF m = n THEN f ELSE disk.at[m]]]
    BY <1>3 DEF Archive!Write, Archive!HeaderSize, Archive!Padded, Archive!Align
  <2>2. PICK pos : Laid(disk, written, pos)
    BY <2>1 DEF ArchiveInv
  <2>3. written \in Seq(Files) /\ disk.end \in Nat /\ N \in Nat
    BY DEF ArchiveInv
  <2>4. n \in Nat /\ n >= disk.end
    BY <2>3, AlignUp
  <2>5. f.width \in Nat /\ f.size \in Nat
    BY ArchiveAssumption
  <2> DEFINE next == [i \in 1 .. N + 1 |-> IF i = N + 1 THEN n ELSE pos[i]]
  <2>6. /\ written' \in Seq(Files) /\ Len(written') = N + 1
        /\ written'[N + 1] = f
        /\ \A i \in 1 .. N : written'[i] = written[i]
    BY <2>1, <2>3
  <2>7. /\ next[N + 1] = n /\ \A i \in 1 .. N : next[i] = pos[i]
        /\ next \in [1 .. N + 1 -> Nat]
    <3>1. pos \in [1 .. N -> Nat]
      BY <2>2 DEF Laid
    <3> HIDE DEF N, n
    <3>2. \A i \in 1 .. N + 1 : i = N + 1 \/ i \in 1 .. N
      BY <2>3
    <3>3. N + 1 \in 1 .. N + 1 /\ \A i \in 1 .. N : i \in 1 .. N + 1 /\ i # N + 1
      BY <2>3
    <3> QED  BY <2>4, <3>1, <3>2, <3>3
  <2>8. 1 .. N + 1 = (1 .. N) \cup {N + 1}
    BY <2>3
  <2>9. \A i \in 1 .. N : End(written', next, i) = End(written, pos, i)
    BY <2>6, <2>7 DEF End
  <2>10. End(written', next, N + 1) = n + 16 + f.width + f.size
    BY <2>6, <2>7 DEF End
  <2>e. \A i \in 1 .. N : End(written, pos, i) \in Nat /\ pos[i] \in Nat /\ pos[i] < End(written, pos, i)
    <3> SUFFICES ASSUME NEW i \in 1 .. N
                 PROVE  End(written, pos, i) \in Nat /\ pos[i] \in Nat /\ pos[i] < End(written, pos, i)
      OBVIOUS
    <3>1. written[i] \in Files
      BY <2>3
    <3>2. written[i].width \in Nat /\ written[i].size \in Nat
      BY <3>1, ArchiveAssumption
    <3>3. pos[i] \in Nat
      BY <2>2 DEF Laid
    <3>4. End(written, pos, i) = pos[i] + 16 + written[i].width + written[i].size
      BY DEF End
    <3> HIDE DEF N, n, next
    <3> QED  BY <3>2, <3>3, <3>4
  <2>11. \A i \in 1 .. N : End(written, pos, i) <= disk.end
    <3> SUFFICES ASSUME NEW i \in 1 .. N PROVE End(written, pos, i) <= disk.end
      OBVIOUS
    <3>1. disk.end = End(written, pos, N) /\ N \in 1 .. N
      BY <2>2, <2>3 DEF Laid
    <3>2. CASE i = N
      BY <2>e, <3>1, <3>2
    <3>3. CASE i < N
      <4>1. End(written, pos, i) <= pos[N]
        BY <2>2, <3>1, <3>3 DEF Laid
      <4> QED  BY <2>e, <3>1, <4>1
    <3> QED  BY <2>3, <3>2, <3>3
  <2>12. /\ DOMAIN disk'.at = {n} \cup DOMAIN disk.at
         /\ disk'.at[n] = f
         /\ \A m \in DOMAIN disk.at \ {n} : disk'.at[m] = disk.at[m]
         /\ disk'.end = n + 16 + f.width + f.size
    BY <2>1
  <2> HIDE DEF next, n, N
  <2>13. DOMAIN disk'.at = {next[i] : i \in 1 .. N + 1}
    <3>1. DOMAIN disk.at = {pos[i] : i \in 1 .. N}
      BY <2>2 DEF Laid, N
    <3> QED  BY <2>7, <2>8, <2>12, <3>1
  <2>14. \A i \in 1 .. N + 1 : disk'.at[next[i]] = written'[i]
    <3> SUFFICES ASSUME NEW i \in 1 .. N PROVE disk'.at[next[i]] = written'[i]
      BY <2>6, <2>7, <2>8, <2>12
    <3>1. pos[i] \in DOMAIN disk.at /\ disk.at[pos[i]] = written[i]
      BY <2>2 DEF Laid, N
    <3>2. pos[i] # n
      BY <2>3, <2>4, <2>e, <2>11
    <3> QED  BY <2>6, <2>7, <2>12, <3>1, <3>2
  <2>15. \A i, j \in 1 .. N + 1 : i < j => End(written', next, i) <= next[j]
    <3> SUFFICES ASSUME NEW i \in 1 .. N + 1, NEW j \in 1 .. N + 1, i < j
                 PROVE  End(written', next, i) <= next[j]
      OBVIOUS
    <3>1. i \in 1 .. N
      BY <2>3
    <3>2. CASE j \in 1 .. N
      <4>1. End(written, pos, i) <= pos[j]
        BY <2>2, <3>1, <3>2 DEF Laid, N
      <4> QED  BY <2>7, <2>9, <3>1, <3>2, <4>1
    <3>3. CASE j = N + 1
      <4>1. End(written, pos, i) <= n
        BY <2>3, <2>4, <2>e, <2>11, <3>1
      <4> QED  BY <2>7, <2>9, <3>1, <3>3, <4>1
    <3> QED  BY <2>8, <3>2, <3>3
  <2>16. \A i \in 1 .. N + 1 : i = 1 => next[i] = 16
    <3>1. CASE N = 0
      <4>1. disk.end = 16
        BY <2>2, <3>1 DEF Laid, N
      <4>2. n = 16
        BY <4>1 DEF n, Archive!Align
      <4> QED  BY <2>7, <3>1, <4>2
    <3>2. CASE N # 0
      <4>1. 1 \in 1 .. N
        BY <2>3, <3>2
      <4>2. pos[1] = 16
        BY <2>2, <4>1 DEF Laid, N
      <4> QED  BY <2>7, <4>1, <4>2
    <3> QED  BY <3>1, <3>2
  <2>17. \A i, j \in 1 .. N + 1 : j = i + 1 => next[j] = Archive!Align(End(written', next, i))
    <3> SUFFICES ASSUME NEW i \in 1 .. N, i + 1 \in 1 .. N + 1
                 PROVE  next[i + 1] = Archive!Align(End(written', next, i))
      BY <2>3
    <3>1. CASE i + 1 \in 1 .. N
      <4>1. pos[i + 1] = Archive!Align(End(written, pos, i))
        BY <2>2, <3>1 DEF Laid, N
      <4> QED  BY <2>7, <2>9, <3>1, <4>1
    <3>2. CASE i = N
      <4>1. disk.end = End(written, pos, N)
        BY <2>2, <2>3, <3>2 DEF Laid, N
      <4> QED  BY <2>7, <2>9, <3>2, <4>1 DEF n
    <3> QED  BY <2>3, <3>1, <3>2
  <2>18. Laid(disk', written', next)
    BY <2>3, <2>6, <2>7, <2>10, <2>12, <2>13, <2>14, <2>15, <2>16, <2>17 DEF Laid
  <2>19. disk'.end \in Nat /\ disk'.end > 0
    BY <2>4, <2>5, <2>12
  <2> QED  BY <2>1, <2>6, <2>18, <2>19 DEF ArchiveInv, Archive!Exists
<1> QED
  BY <1>1, <1>2, <1>3 DEF Next, vars, Archive!Next

\* f gives the headers of the archive d from each byte on.
Reads(f, d) ==
  f = [n \in 0 .. Archive!Padded(d.end) + 16 |->
         IF n >= d.end THEN <<>>
         ELSE IF n \notin DOMAIN d.at THEN <<None>>
         ELSE LET g == d.at[n]
                  p == n + 16 + g.width
              IN  <<[name |-> g.name, size |-> g.size, place |-> p]>> \o f[Archive!Align(p + g.size)]]

\* The headers of the files from the i-th on
From(w, pos, i) == [k \in 1 .. Len(w) + 1 - i |-> HeaderOf(w, pos, (i + k) - 1)]

\* Those from the i-th on are the i-th and those after it.
LEMMA FromNext ==
  ASSUME NEW w \in Seq(Files), NEW pos, NEW i \in 1 .. Len(w)
  PROVE  From(w, pos, i) = <<HeaderOf(w, pos, i)>> \o From(w, pos, i + 1)
<1> DEFINE n == Len(w)
           h == <<HeaderOf(w, pos, i)>>
           s == From(w, pos, i + 1)
           t == From(w, pos, i)
<1>1. n \in Nat /\ n - i \in Nat /\ (n + 1) - i = (n - i) + 1 /\ (n + 1) - (i + 1) = n - i
  OBVIOUS
<1>2. s = [k \in 1 .. n - i |-> HeaderOf(w, pos, ((i + 1) + k) - 1)]
  <2>1. s = [k \in 1 .. (n + 1) - (i + 1) |-> HeaderOf(w, pos, ((i + 1) + k) - 1)]
    BY DEF From
  <2> HIDE DEF n, s
  <2> QED  BY <1>1, <2>1
<1>3. t = [k \in 1 .. (n - i) + 1 |-> HeaderOf(w, pos, (i + k) - 1)]
  <2>1. t = [k \in 1 .. (n + 1) - i |-> HeaderOf(w, pos, (i + k) - 1)]
    BY DEF From
  <2> HIDE DEF n, t
  <2> QED  BY <1>1, <2>1
<1> DEFINE T == {HeaderOf(w, pos, j) : j \in Int}
<1>4. \A j \in Int : HeaderOf(w, pos, j) \in T
  OBVIOUS
<1> HIDE DEF n, s, t, T
<1>5. s \in Seq(T) /\ Len(s) = n - i
  <2>1. \A k \in 1 .. n - i : HeaderOf(w, pos, ((i + 1) + k) - 1) \in T
    BY <1>1, <1>4
  <2>2. s \in [1 .. n - i -> T]
    BY <1>2, <2>1
  <2> QED  BY <1>1, <2>2
<1>6. h \in Seq(T) /\ Len(h) = 1 /\ h[1] = HeaderOf(w, pos, i)
  <2>1. HeaderOf(w, pos, i) \in T
    BY <1>4
  <2> QED  BY <2>1
<1> HIDE DEF h
<1>7. /\ h \o s \in Seq(T) /\ Len(h \o s) = (n - i) + 1
      /\ \A k \in 1 .. (n - i) + 1 : (h \o s)[k] = IF k = 1 THEN h[1] ELSE s[k - 1]
  <2>1. h \o s \in Seq(T) /\ Len(h \o s) = Len(h) + Len(s)
    BY <1>5, <1>6, ConcatProperties
  <2>2. Len(h) + Len(s) = (n - i) + 1
    BY <1>1, <1>5, <1>6
  <2>3. ASSUME NEW k \in 1 .. (n - i) + 1
        PROVE  (h \o s)[k] = IF k = 1 THEN h[1] ELSE s[k - 1]
    <3>1. k \in 1 .. Len(h) + Len(s)
      BY <2>2
    <3>2. (h \o s)[k] = IF k <= Len(h) THEN h[k] ELSE s[k - Len(h)]
      BY <1>5, <1>6, <3>1, ConcatProperties
    <3> QED  BY <1>6, <3>1, <3>2
  <2> QED  BY <2>1, <2>2, <2>3
<1>8. ASSUME NEW k \in 1 .. (n - i) + 1
      PROVE  (h \o s)[k] = t[k]
  <2>1. CASE k = 1
    BY <1>3, <1>6, <1>7, <2>1
  <2>2. CASE k # 1
    <3>1. k - 1 \in 1 .. n - i /\ ((i + 1) + (k - 1)) - 1 = (i + k) - 1
      BY <1>1, <2>2
    <3> QED  BY <1>2, <1>3, <1>7, <2>2, <3>1
  <2> QED  BY <2>1, <2>2
<1>9. h \o s = [k \in 1 .. (n - i) + 1 |-> (h \o s)[k]]
  <2> DEFINE u == h \o s
  <2>1. u \in Seq(T) /\ Len(u) = (n - i) + 1
    BY <1>7
  <2> HIDE DEF u
  <2>2. u = [k \in 1 .. Len(u) |-> u[k]]
    BY <2>1
  <2>3. u = [k \in 1 .. (n - i) + 1 |-> u[k]]
    BY <2>1, <2>2
  <2> QED  BY <2>3 DEF u
<1>10. t = [k \in 1 .. (n - i) + 1 |-> t[k]]
  BY <1>3
<1>11. h \o s = t
  BY <1>8, <1>9, <1>10
<1> QED  BY <1>11 DEF h, s, t

\* In an archive whose files are laid out, each file is followed by the headers of
\* those after it.
LEMMA HeadersRead ==
  ASSUME NEW d, NEW w \in Seq(Files), NEW pos, d.end \in Nat, Laid(d, w, pos)
  PROVE  /\ \E f : Reads(f, d)
         /\ \A f : Reads(f, d) => f[16] = From(w, pos, 1)
<1> DEFINE N == Len(w)
           K == Archive!Padded(d.end) + 16
           place(i) == IF i = N + 1 THEN Archive!Padded(d.end) ELSE pos[i]
           next(f, n) ==
             IF n >= d.end THEN <<>>
             ELSE IF n \notin DOMAIN d.at THEN <<None>>
             ELSE LET g == d.at[n]
                      p == n + 16 + g.width
                  IN  <<[name |-> g.name, size |-> g.size, place |-> p]>>
                        \o f[Archive!Align(p + g.size)]
<1>1. N \in Nat /\ pos \in [1 .. N -> Nat] /\ \A i \in 1 .. N : w[i] \in Files
  BY DEF Laid
<1>2. K \in Nat /\ Archive!Padded(d.end) \in Nat /\ Archive!Padded(d.end) >= d.end
      /\ Archive!Padded(d.end) = Archive!Align(d.end)
  BY DEF Archive!Padded, Archive!Align
<1>3. \A f : Reads(f, d) <=> f = [n \in 0 .. K |-> next(f, n)]
  BY DEF Reads
<1> HIDE DEF K, N
<1>4. ASSUME NEW i \in 1 .. N
      PROVE  /\ pos[i] \in 0 .. K /\ pos[i] < d.end /\ pos[i] \in DOMAIN d.at
             /\ place(i + 1) \in 0 .. K
             /\ \A f : next(f, pos[i]) = <<HeaderOf(w, pos, i)>> \o f[place(i + 1)]
             /\ \A j \in 1 .. N : pos[j] = pos[i] => j = i
  <2> DEFINE end(j) == End(w, pos, j)
  <2>1. \A j \in 1 .. N : pos[j] \in Nat /\ end(j) \in Nat /\ pos[j] < end(j)
    <3> SUFFICES ASSUME NEW j \in 1 .. N PROVE pos[j] \in Nat /\ end(j) \in Nat /\ pos[j] < end(j)
      OBVIOUS
    <3>1. w[j].width \in Nat /\ w[j].size \in Nat /\ pos[j] \in Nat
      BY <1>1, ArchiveAssumption
    <3>2. end(j) = pos[j] + 16 + w[j].width + w[j].size
      BY DEF End
    <3> HIDE DEF end
    <3> QED  BY <3>1, <3>2
  <2>2. \A j, k \in 1 .. N : j < k => end(j) <= pos[k]
    BY DEF Laid, N
  <2>3. d.end = end(N) /\ N \in 1 .. N
    BY <1>1 DEF Laid, N
  <2>4. d.at[pos[i]] = w[i] /\ pos[i] \in DOMAIN d.at
    BY DEF Laid, N
  <2>5. end(i) = ((pos[i] + 16) + w[i].width) + w[i].size
    BY DEF End
  <2>6. i # N => i + 1 \in 1 .. N /\ pos[i + 1] = Archive!Align(end(i))
    <3>1. i # N => i + 1 \in 1 .. N
      BY <1>1
    <3> QED  BY <3>1 DEF Laid, N
  <2> HIDE DEF end
  <2>7. end(i) <= d.end
    <3>1. CASE i = N
      BY <2>1, <2>3, <3>1
    <3>2. CASE i < N
      BY <2>1, <2>2, <2>3, <3>2
    <3> QED  BY <1>1, <3>1, <3>2
  <2>8. pos[i] < d.end /\ pos[i] \in 0 .. K
    <3>1. pos[i] \in Nat /\ end(i) \in Nat /\ pos[i] < end(i)
      BY <2>1
    <3> QED  BY <1>2, <2>7, <3>1 DEF K
  <2>9. place(i + 1) = Archive!Align(end(i))
    BY <1>1, <1>2, <2>3, <2>6
  <2>10. place(i + 1) \in 0 .. K
    <3>1. CASE i = N
      BY <1>1, <1>2, <3>1 DEF K
    <3>2. CASE i # N
      <4>1. i + 1 \in 1 .. N /\ i + 1 # N + 1
        BY <1>1, <2>6, <3>2
      <4>2. pos[i + 1] \in Nat /\ pos[i + 1] < end(i + 1) /\ end(i + 1) \in Nat
        BY <2>1, <4>1
      <4>3. end(i + 1) <= d.end
        <5>1. CASE i + 1 = N
          BY <2>3, <4>2, <5>1
        <5>2. CASE i + 1 < N
          BY <2>1, <2>2, <2>3, <4>1, <4>2, <5>2
        <5> QED  BY <1>1, <4>1, <5>1, <5>2
      <4> QED  BY <1>2, <4>1, <4>2, <4>3 DEF K
    <3> QED  BY <3>1, <3>2
  <2>11. \A f : next(f, pos[i]) = <<HeaderOf(w, pos, i)>> \o f[place(i + 1)]
    <3> TAKE f
    <3>1. ~(pos[i] >= d.end)
      <4>1. pos[i] \in Nat
        BY <2>1
      <4> QED  BY <2>8, <4>1
    <3>2. HeaderOf(w, pos, i) =
            [name |-> w[i].name, size |-> w[i].size, place |-> pos[i] + 16 + w[i].width]
      BY DEF HeaderOf
    <3> HIDE DEF place
    <3> QED  BY <2>4, <2>5, <2>9, <3>1, <3>2
  <2>12. ASSUME NEW j \in 1 .. N, pos[j] = pos[i]
         PROVE  j = i
    <3>1. pos[j] \in Nat /\ end(i) \in Nat /\ end(j) \in Nat /\ pos[j] < end(j) /\ pos[i] < end(i)
      BY <2>1
    <3>2. i < j => end(i) <= pos[j]
      BY <2>2
    <3>3. j < i => end(j) <= pos[i]
      BY <2>2
    <3> QED  BY <2>12, <3>1, <3>2, <3>3
  <2> HIDE DEF next, place
  <2> QED  BY <2>4, <2>8, <2>10, <2>11, <2>12
<1>5. DOMAIN d.at = {pos[i] : i \in 1 .. N}
  BY DEF Laid, N
<1>6. /\ place(N + 1) \in 0 .. K
      /\ \A f : next(f, place(N + 1)) = <<>>
      /\ From(w, pos, N + 1) = <<>>
  <2>1. From(w, pos, N + 1) = <<>>
    <3>1. 1 .. (N + 1) - (N + 1) = {}
      BY <1>1
    <3>2. From(w, pos, N + 1) = [k \in {} |-> HeaderOf(w, pos, ((N + 1) + k) - 1)]
      BY <3>1 DEF From, N
    <3> QED  BY <3>2
  <2>2. place(N + 1) \in 0 .. K
    BY <1>2 DEF K
  <2> QED  BY <1>2, <2>1, <2>2
<1>7. \A i \in 1 .. N : From(w, pos, i) = <<HeaderOf(w, pos, i)>> \o From(w, pos, i + 1)
  BY FromNext DEF N
<1>p. \A i \in 1 .. N : place(i) = pos[i]
  BY <1>1
<1>8. \E f : Reads(f, d)
  <2> DEFINE index(n) == CHOOSE i \in 1 .. N : pos[i] = n
             e(n) == IF n >= d.end THEN <<>>
                     ELSE IF n \notin DOMAIN d.at THEN <<None>>
                     ELSE From(w, pos, index(n))
             f == [n \in 0 .. K |-> e(n)]
  <2>1. \A i \in 1 .. N : f[pos[i]] = From(w, pos, i)
    <3> SUFFICES ASSUME NEW i \in 1 .. N PROVE f[pos[i]] = From(w, pos, i)
      OBVIOUS
    <3>1. index(pos[i]) = i
      BY <1>4, Zenon
    <3>2. pos[i] \in 0 .. K /\ pos[i] < d.end /\ pos[i] \in DOMAIN d.at
      BY <1>4, Zenon
    <3> HIDE DEF index
    <3> QED  BY <3>1, <3>2
  <2>2. f[place(N + 1)] = From(w, pos, N + 1)
    BY <1>2, <1>6
  <2>3. \A i \in 1 .. N : f[place(i + 1)] = From(w, pos, i + 1)
    <3> SUFFICES ASSUME NEW i \in 1 .. N PROVE f[place(i + 1)] = From(w, pos, i + 1)
      OBVIOUS
    <3>1. CASE i = N
      BY <2>2, <3>1
    <3>2. CASE i # N
      <4>1. i + 1 \in 1 .. N
        BY <1>1, <3>2
      <4> HIDE DEF f, place
      <4> QED  BY <1>p, <2>1, <4>1
    <3> QED  BY <3>1, <3>2
  <2>4. ASSUME NEW n \in 0 .. K
        PROVE  f[n] = next(f, n)
    <3>1. CASE n >= d.end \/ n \notin DOMAIN d.at
      BY <3>1
    <3>2. CASE n \in DOMAIN d.at
      <4>1. PICK i \in 1 .. N : n = pos[i]
        BY <1>5, <3>2
      <4> HIDE DEF f, next, place
      <4>2. f[pos[i]] = <<HeaderOf(w, pos, i)>> \o From(w, pos, i + 1)
        BY <1>7, <2>1
      <4>3. next(f, pos[i]) = <<HeaderOf(w, pos, i)>> \o f[place(i + 1)]
        BY <1>4
      <4>4. f[place(i + 1)] = From(w, pos, i + 1)
        BY <2>3
      <4> QED  BY <4>1, <4>2, <4>3, <4>4
    <3> QED  BY <3>1, <3>2
  <2>5. f = [n \in 0 .. K |-> next(f, n)]
    <3>1. f = [n \in 0 .. K |-> f[n]]
      OBVIOUS
    <3> HIDE DEF f, next
    <3> QED  BY <2>4, <3>1
  <2> HIDE DEF f, next
  <2> QED  BY <1>3, <2>5
<1>9. ASSUME NEW f, Reads(f, d)
      PROVE  f[16] = From(w, pos, 1)
  <2>1. \A n \in 0 .. K : f[n] = next(f, n)
    <3> HIDE DEF next
    <3> QED  BY <1>3, <1>9
  <2> DEFINE Good(m) == m <= N => f[place((N + 1) - m)] = From(w, pos, (N + 1) - m)
             S == {m \in Nat : Good(m)}
  <2> HIDE DEF next
  <2>2. Good(0)
    <3>1. (N + 1) - 0 = N + 1
      BY <1>1
    <3>2. f[place(N + 1)] = <<>>
      BY <1>6, <2>1
    <3> HIDE DEF place
    <3> QED  BY <1>6, <3>1, <3>2
  <2>3. ASSUME NEW m \in Nat, Good(m)
        PROVE  Good(m + 1)
    <3> SUFFICES ASSUME m + 1 <= N
                 PROVE  f[place((N + 1) - (m + 1))] = From(w, pos, (N + 1) - (m + 1))
      OBVIOUS
    <3> DEFINE i == N - m
    <3>1. /\ (N + 1) - (m + 1) = i /\ (N + 1) - m = i + 1 /\ i \in 1 .. N /\ m <= N
      BY <1>1
    <3> HIDE DEF i, place
    <3>2. f[place(i + 1)] = From(w, pos, i + 1)
      BY <2>3, <3>1
    <3>3. f[pos[i]] = <<HeaderOf(w, pos, i)>> \o f[place(i + 1)]
      BY <1>4, <2>1, <3>1
    <3> QED  BY <1>7, <1>p, <3>1, <3>2, <3>3
  <2> HIDE DEF Good
  <2>4. S = Nat
    <3>1. S \in SUBSET Nat /\ 0 \in S /\ \A m \in S : m + 1 \in S
      BY <2>2, <2>3
    <3> HIDE DEF S
    <3> QED  BY <3>1, Induction
  <2>5. Good(N)
    BY <1>1, <2>4
  <2>6. (N + 1) - N = 1
    BY <1>1
  <2>7. f[place(1)] = From(w, pos, 1)
    BY <1>1, <2>5, <2>6 DEF Good
  <2>8. place(1) = 16
    <3>1. CASE N = 0
      <4>1. d.end = 16
        BY <3>1 DEF Laid, N
      <4> QED  BY <3>1, <4>1 DEF Archive!Padded
    <3>2. CASE N # 0
      <4>1. 1 \in 1 .. N
        BY <1>1, <3>2
      <4>2. pos[1] = 16
        BY <4>1 DEF Laid, N
      <4> HIDE DEF place
      <4> QED  BY <1>p, <4>1, <4>2
    <3> QED  BY <3>1, <3>2
  <2> QED  BY <2>7, <2>8
<1> QED  BY <1>8, <1>9

\* What is said of a file is not nothing.
LEMMA HeaderNotNone ==
  ASSUME NEW w \in Seq(Files), NEW pos \in [1 .. Len(w) -> Nat], NEW i \in 1 .. Len(w)
  PROVE  HeaderOf(w, pos, i) # None
<1>1. w[i] \in Files /\ pos[i] \in Nat
  OBVIOUS
<1>2. w[i].width \in Nat /\ w[i].size \in Nat /\ w[i].name \in {f.name : f \in Files}
  BY <1>1, ArchiveAssumption
<1>3. pos[i] + 16 + w[i].width \in Nat
  BY <1>1, <1>2
<1>4. HeaderOf(w, pos, i) \in [name : {f.name : f \in Files}, size : Nat, place : Nat]
  BY <1>2, <1>3 DEF HeaderOf
<1> QED  BY <1>4, ArchiveAssumption

\* getfile gives the last file written under a name.
LEMMA FileFound ==
  ASSUME ArchiveInv, Archive!Exists, NEW name
  PROVE  LET f == Archive!LastWritten(name) IN
         /\ f = None \/ f \in Files
         /\ Archive!GetFile(name) = IF f = None THEN None
                                    ELSE IF f.size = 0 THEN Archive!NoText ELSE f.text
<1>1. PICK pos : Laid(disk, written, pos)
  BY DEF ArchiveInv
<1> DEFINE N == Len(written)
           hs == Archive!Headers[Archive!HeaderSize]
           is == {i \in DOMAIN written : written[i].name = name}
<1>2. /\ written \in Seq(Files) /\ N \in Nat /\ disk.end \in Nat
      /\ pos \in [1 .. N -> Nat] /\ \A i \in 1 .. N : written[i] \in Files
  BY <1>1 DEF ArchiveInv, Laid
<1>3. hs = From(written, pos, 1)
  <2> DEFINE f == CHOOSE g : Reads(g, disk)
  <2>1. Reads(f, disk)
    BY <1>1, <1>2, HeadersRead
  <2>2. Archive!Headers = f
    BY DEF Archive!Headers, Reads, Archive!HeaderSize
  <2>3. f[16] = From(written, pos, 1)
    BY <1>1, <1>2, <2>1, HeadersRead
  <2> QED  BY <2>2, <2>3 DEF Archive!HeaderSize
<1>4. DOMAIN hs = 1 .. N /\ \A i \in 1 .. N : hs[i] = HeaderOf(written, pos, i)
  <2>1. \A i \in 1 .. N : (1 + i) - 1 = i
    OBVIOUS
  <2> DEFINE M == (N + 1) - 1
  <2>2. From(written, pos, 1) = [k \in 1 .. M |-> HeaderOf(written, pos, (1 + k) - 1)]
    BY DEF From
  <2>3. M = N
    BY <1>2
  <2> HIDE DEF N, M, hs
  <2>5. hs = [k \in 1 .. N |-> HeaderOf(written, pos, (1 + k) - 1)]
    BY <1>3, <2>2, <2>3
  <2> QED  BY <2>1, <2>5
<1> HIDE DEF hs, N
<1>5. None \notin Archive!Range(hs)
  <2>1. \A i \in 1 .. N : hs[i] # None
    BY <1>2, <1>4, HeaderNotNone DEF N
  <2> QED  BY <1>4, <2>1 DEF Archive!Range
<1>6. is = {i \in 1 .. N : written[i].name = name} /\ {i \in DOMAIN hs : hs[i].name = name} = is
  <2>1. DOMAIN written = 1 .. N
    BY <1>2 DEF N
  <2>2. \A i \in 1 .. N : hs[i].name = written[i].name
    BY <1>4 DEF HeaderOf
  <2> QED  BY <1>4, <2>1, <2>2
<1>7. Archive!LastWritten(name) = IF is = {} THEN None ELSE written[Archive!Max(is)]
  BY DEF Archive!LastWritten
<1>8. CASE is = {}
  <2>1. Archive!LastWritten(name) = None
    BY <1>7, <1>8
  <2>2. ~\E i \in DOMAIN hs : hs[i].name = name
    BY <1>6, <1>8
  <2>3. Archive!GetFile(name) = None
    BY <1>5, <2>2 DEF Archive!GetFile, hs
  <2> QED  BY <2>1, <2>3
<1>9. CASE is # {}
  <2> DEFINE m == Archive!Max(is)
             f == written[m]
  <2>1. is \in SUBSET (1 .. N)
    BY <1>6
  <2> HIDE DEF is
  <2>2. m \in 1 .. N /\ f \in Files /\ f # None
    BY <1>2, <1>9, <2>1, MaxOfSome, ArchiveAssumption
  <2>3. Archive!LastWritten(name) = f
    BY <1>7, <1>9
  <2>4. Archive!Place(name) = m
    BY <1>6 DEF Archive!Place, hs
  <2> HIDE DEF m
  <2>5. hs[m].size = f.size /\ hs[m].place = pos[m] + 16 + f.width
    BY <1>4, <2>2 DEF HeaderOf
  <2>6. \E i \in DOMAIN hs : hs[i].name = name
    BY <1>6, <1>9
  <2> DEFINE n == CHOOSE k \in DOMAIN disk.at : k + 16 + disk.at[k].width = hs[m].place
  <2>7. Archive!GetFile(name) = IF f.size = 0 THEN Archive!NoText ELSE disk.at[n].text
    <3>1. hs[Archive!Place(name)].size = f.size
      BY <2>4, <2>5
    <3>2. Archive!GetFile(name) =
            IF hs[Archive!Place(name)].size = 0 THEN Archive!NoText
            ELSE disk.at[CHOOSE k \in DOMAIN disk.at :
                           k + 16 + disk.at[k].width = hs[Archive!Place(name)].place].text
      BY <1>5, <2>6 DEF Archive!GetFile, Archive!HeaderSize, hs
    <3> QED  BY <2>4, <3>1, <3>2
  <2>8. n = pos[m]
    <3>1. DOMAIN disk.at = {pos[i] : i \in 1 .. N} /\ \A i \in 1 .. N : disk.at[pos[i]] = written[i]
      BY <1>1 DEF Laid, N
    <3>2. pos[m] \in DOMAIN disk.at /\ pos[m] + 16 + disk.at[pos[m]].width = hs[m].place
      BY <2>2, <2>5, <3>1
    <3>3. ASSUME NEW i \in 1 .. N, NEW j \in 1 .. N,
                 pos[i] + 16 + written[i].width = pos[j] + 16 + written[j].width
          PROVE  ~(i < j)
      <4>1. i < j => End(written, pos, i) <= pos[j]
        BY <1>1 DEF Laid, N
      <4>2. /\ written[i].width \in Nat /\ written[i].size \in Nat /\ written[j].width \in Nat
            /\ pos[i] \in Nat /\ pos[j] \in Nat
        BY <1>2, ArchiveAssumption
      <4>3. End(written, pos, i) = pos[i] + 16 + written[i].width + written[i].size
        BY DEF End
      <4> QED  BY <3>3, <4>1, <4>2, <4>3
    <3>4. ASSUME NEW k \in DOMAIN disk.at, k + 16 + disk.at[k].width = hs[m].place
          PROVE  k = pos[m]
      <4>1. PICK i \in 1 .. N : k = pos[i]
        BY <3>1
      <4>2. pos[i] + 16 + written[i].width = pos[m] + 16 + written[m].width
        BY <2>5, <3>1, <3>4, <4>1
      <4>3. ~(i < m) /\ ~(m < i)
        BY <2>2, <3>3, <4>2
      <4>4. i = m
        BY <1>2, <2>2, <4>3
      <4> QED  BY <4>1, <4>4
    <3> QED  BY <3>2, <3>4
  <2>9. disk.at[pos[m]] = f
    BY <1>1, <2>2 DEF Laid, N
  <2> QED  BY <2>2, <2>3, <2>7, <2>8, <2>9
<1> QED  BY <1>8, <1>9

\* In an archive of any length, whatever the sizes of its files, each name is found with
\* the text that was last written under it (EjudgeArchiveReader, getfile).
THEOREM ArchivesAreRead == Spec => []FilesAreFound
<1>1. ArchiveInv => FilesAreFound
  BY FileFound DEF FilesAreFound, Archive!FilesAreFound
<1> QED  BY <1>1, ArchiveInit, ArchiveStep, PTL DEF Spec

\* Whatever the lengths of the texts, one that the full protocol shows in part is marked
\* as too big and is no longer than the limit (get_test_full_protocol).
THEOREM PartsAreMarked == Spec => []CutsAreMarked
<1>1. ArchiveInv => CutsAreMarked
  <2> SUFFICES ASSUME ArchiveInv, NEW info \in Infos, ~Archive!Fails(info)
               PROVE  LET p == Archive!TestProtocol(info)
                          faithful(s, t) == (s.chars < t.chars => s.big) /\ s.chars <= 255
                      IN
                      /\ faithful(p.input, problem.input)
                      /\ faithful(p.corr, problem.corr)
                      /\ Archive!Exists =>
                           /\ faithful(p.output, Archive!GetFile("o"))
                           /\ faithful(p.checker_output, Archive!GetFile("c"))
                           /\ faithful(p.error_output, Archive!GetFile("e"))
    BY DEF CutsAreMarked, Archive!CutsAreMarked, Archive!Limit
  <2> DEFINE Faithful(s, t) == (s.chars < t.chars => s.big) /\ s.chars <= 255
  <2>1. ASSUME NEW size \in Int, NEW t, t.chars \in Int, t.chars <= size
        PROVE  Faithful(Archive!Cut(size, t), t)
    BY <2>1 DEF Archive!Cut, Archive!Limit
  <2>2. Faithful(Archive!Cut(problem.input.bytes, problem.input), problem.input)
    <3>1. problem.input \in Texts
      BY DEF ArchiveInv, Archive!Fails, Archive!Missing
    <3> QED  BY <2>1, <3>1, ArchiveAssumption
  <2>3. Faithful(Archive!Cut(problem.corr.bytes, problem.corr), problem.corr)
    <3>1. problem.corr \in Texts
      BY DEF ArchiveInv
    <3> QED  BY <2>1, <3>1, ArchiveAssumption
  <2>4. ASSUME Archive!Exists, NEW name \in {"o", "c", "e"}, NEW reported
        PROVE  Faithful(Archive!Output(name, reported), Archive!GetFile(name))
    <3> DEFINE t == Archive!GetFile(name)
               f == Archive!LastWritten(name)
    <3>1. t # None
      BY <2>4 DEF Archive!Fails, Archive!Unreadable
    <3>2. /\ f = None \/ f \in Files
          /\ t = IF f = None THEN None ELSE IF f.size = 0 THEN Archive!NoText ELSE f.text
      BY <2>4, FileFound
    <3>3. t.chars \in Int
      BY <3>1, <3>2, ArchiveAssumption DEF Archive!NoText
    <3>4. Archive!Output(name, reported) = Archive!Cut(t.chars, t)
      BY <2>4 DEF Archive!Output
    <3> HIDE DEF t
    <3> QED  BY <2>1, <3>3, <3>4 DEF t
  <2>5. LET p == Archive!TestProtocol(info) IN
        /\ p.input = Archive!Cut(problem.input.bytes, problem.input)
        /\ p.corr = Archive!Cut(problem.corr.bytes, problem.corr)
        /\ p.output = Archive!Output("o", info.output)
        /\ p.checker_output = Archive!Output("c", info.checker)
        /\ p.error_output = Archive!Output("e", info.stderr)
    BY DEF Archive!TestProtocol
  <2> QED  BY <2>2, <2>3, <2>4, <2>5
<1> QED  BY <1>1, ArchiveInit, ArchiveStep, PTL DEF Spec

-----------------------------------------------------------------------------
(***************************************************************************)
(* The page of a problem                                                   *)
(***************************************************************************)

\* The sequence l ends with s.
EndsWith(S, l, s) ==
  /\ l \in Seq(S) /\ s \in Seq(S)
  /\ Len(l) - Len(s) \in Nat
  /\ \A i \in 1 .. Len(s) : s[i] = l[(Len(l) - Len(s)) + i]

\* What comes before that
Before(l, s) == {l[i] : i \in 1 .. Len(l) - Len(s)}

\* What remains to be read is the end of the list.
Remaining == EndsWith(STRING, request.problem.sample_tests, request.left)

\* The tests that were read
Done == Before(request.problem.sample_tests, request.left)

\* The text is that of the test t at some time of the request.
OfItsTime(text, pattern, t) ==
  \E now \in seen : now[2] # None /\ text = Samples!FileShown(now[1], now[2][pattern], t)

\* Of what was read so far, each text is of its time, and the rest is as it was stored.
ReadSoFar ==
  /\ DOMAIN request.json = Done \cup DOMAIN Samples!Stored(request.problem)
  /\ \A t \in Done : /\ OfItsTime(request.json[t].input, "test_pat", t)
                    /\ OfItsTime(request.json[t].correct, "corr_pat", t)
  /\ \A t \in DOMAIN request.json \ Done :
       request.json[t] = Samples!Stored(request.problem)[t]

\* A request has a row without samples, or has read some of its samples from files
\* as they were.
PageInv ==
  /\ row \in Rows
  /\ request.pc \in {"input", "correct"} => <<files, conf>> \in seen /\ Len(request.left) # 0
  /\ request.pc = "correct" => OfItsTime(request.input, "test_pat", Head(request.left))
  /\ request.pc = "shown" /\ request.json # None => Len(request.left) = 0
  /\ \/ request.pc \in {"input", "correct"}
     \/ request.pc = "shown" /\ request.json # None
     => Remaining /\ ReadSoFar

\* A request begins with all of its samples to be read.
LEMMA BeginKeeps ==
  ASSUME PageInv, Samples!Begin
  PROVE  PageInv'
<1>1. row \in Rows /\ row' = row /\ <<files, conf>>' \in seen'
  BY DEF PageInv, Samples!Begin
<1>2. CASE row.sample_tests = <<>>
  <2>1. request'.pc = "shown" /\ request'.json = None
    BY <1>2 DEF Samples!Begin, Samples!Idle
  <2> QED  BY <1>1, <2>1 DEF PageInv
<1>3. CASE row.sample_tests # <<>>
  <2>1. /\ request' = [pc |-> "input", problem |-> row, left |-> row.sample_tests,
                       input |-> None, json |-> Samples!Stored(row)]
    BY <1>3 DEF Samples!Begin, Samples!ToRead
  <2>5. Len(row.sample_tests) # 0
    BY <1>1, <1>3
  <2>2. Remaining' /\ Done' = {}
    <3>1. row.sample_tests \in Seq(STRING)
      BY <1>1, SamplesAssumption
    <3>2. EndsWith(STRING, row.sample_tests, row.sample_tests)
      BY <3>1 DEF EndsWith
    <3>3. Before(row.sample_tests, row.sample_tests) = {}
      BY <3>1 DEF Before
    <3> QED  BY <2>1, <3>2, <3>3 DEF Remaining, Done
  <2>4. ReadSoFar'
    BY <2>1, <2>2 DEF ReadSoFar
  <2> QED  BY <1>1, <2>1, <2>2, <2>4, <2>5 DEF PageInv
<1> QED  BY <1>2, <1>3

\* What is read now is of this time.
LEMMA NowIsSeen ==
  ASSUME PageInv, request.pc \in {"input", "correct"}, NEW pattern, NEW t,
         ~Samples!CannotRead(pattern, t)
  PROVE  OfItsTime(Samples!FileShown(files, conf[pattern], t), pattern, t)
<1>1. <<files, conf>> \in seen /\ conf # None
  BY DEF PageInv, Samples!CannotRead
<1> QED  BY <1>1 DEF OfItsTime

\* The input is of the time it is read.
LEMMA ReadInputKeeps ==
  ASSUME PageInv, Samples!ReadInput
  PROVE  PageInv'
<1>0. request.pc = "input" /\ UNCHANGED <<files, conf, row, seen>>
  BY DEF Samples!ReadInput
<1>1. CASE Samples!CannotRead("test_pat", Head(request.left))
  <2>1. request'.pc = "failed"
    BY <1>1 DEF Samples!ReadInput, PageInv
  <2> QED  BY <1>0, <2>1 DEF PageInv
<1>2. CASE ~Samples!CannotRead("test_pat", Head(request.left))
  <2>1. /\ request'.pc = "correct"
        /\ request'.problem = request.problem
        /\ request'.left = request.left
        /\ request'.json = request.json
        /\ request'.input = Samples!FileShown(files, conf.test_pat, Head(request.left))
    BY <1>2 DEF Samples!ReadInput
  <2>2. OfItsTime(Samples!FileShown(files, conf["test_pat"], Head(request.left)), "test_pat",
                  Head(request.left))
    BY <1>0, <1>2, NowIsSeen
  <2>3. OfItsTime(request.input, "test_pat", Head(request.left))'
    BY <1>0, <2>1, <2>2 DEF OfItsTime
  <2>4. Remaining' /\ ReadSoFar'
    <3>1. Remaining /\ ReadSoFar
      BY <1>0 DEF PageInv
    <3>2. Remaining'
      BY <2>1, <3>1 DEF Remaining
    <3>3. Done' = Done
      BY <2>1 DEF Done
    <3> QED  BY <1>0, <2>1, <3>1, <3>2, <3>3 DEF ReadSoFar, OfItsTime
  <2> QED  BY <1>0, <2>1, <2>3, <2>4 DEF PageInv
<1> QED  BY <1>1, <1>2

\* What is before the end is a range of the list.
LEMMA BeforeIsRange ==
  ASSUME NEW S, NEW l, NEW s, EndsWith(S, l, s)
  PROVE  /\ Samples!Range(SubSeq(l, 1, Len(l) - Len(s))) = Before(l, s)
         /\ Before(l, s) \subseteq Samples!Range(l)
<1> DEFINE n == Len(l) - Len(s)
<1>1. l \in Seq(S) /\ Len(l) \in Nat /\ Len(s) \in Nat /\ n \in Nat /\ n <= Len(l)
  BY DEF EndsWith
<1>2. /\ DOMAIN SubSeq(l, 1, n) = 1 .. n
      /\ \A i \in 1 .. n : SubSeq(l, 1, n)[i] = l[i]
  <2> HIDE DEF n
  <2>1. SubSeq(l, 1, n) = [i \in 1 .. n |-> l[i]]
    BY <1>1 DEF SubSeq
  <2> QED  BY <2>1
<1>3. 1 .. n \subseteq DOMAIN l
  BY <1>1
<1> QED  BY <1>2, <1>3 DEF Samples!Range, Before

\* Samples!With one less at the end, its head is among those before.
LEMMA OneLess ==
  ASSUME NEW S, NEW l, NEW s, EndsWith(S, l, s), Len(s) # 0
  PROVE  /\ EndsWith(S, l, Tail(s))
         /\ Len(Tail(s)) = Len(s) - 1
         /\ Before(l, Tail(s)) = Before(l, s) \cup {Head(s)}
<1> DEFINE n == Len(l) - Len(s)
<1>1. /\ l \in Seq(S) /\ s \in Seq(S) /\ n \in Nat
      /\ \A i \in 1 .. Len(s) : s[i] = l[n + i]
  BY DEF EndsWith
<1>2. /\ Len(s) \in Nat \ {0} /\ Len(l) \in Nat
      /\ Tail(s) \in Seq(S)
      /\ Len(Tail(s)) = Len(s) - 1
      /\ \A i \in 1 .. Len(s) - 1 : Tail(s)[i] = s[i + 1]
      /\ Head(s) = s[1]
  BY <1>1
<1>3. Len(l) - Len(Tail(s)) = n + 1 /\ n + 1 \in Nat
  BY <1>1, <1>2
<1>4. \A i \in 1 .. Len(Tail(s)) : Tail(s)[i] = l[(n + 1) + i]
  <2> SUFFICES ASSUME NEW i \in 1 .. Len(Tail(s)) PROVE Tail(s)[i] = l[(n + 1) + i]
    OBVIOUS
  <2>1. i \in 1 .. Len(s) - 1 /\ i + 1 \in 1 .. Len(s) /\ n + (i + 1) = (n + 1) + i
    BY <1>1, <1>2
  <2> QED  BY <1>1, <1>2, <2>1
<1>5. EndsWith(S, l, Tail(s))
  BY <1>1, <1>2, <1>3, <1>4 DEF EndsWith
<1>6. Head(s) = l[n + 1]
  <2>1. 1 \in 1 .. Len(s)
    BY <1>2
  <2> QED  BY <1>1, <1>2, <2>1
<1>7. 1 .. n + 1 = (1 .. n) \cup {n + 1}
  BY <1>1
<1>8. Before(l, Tail(s)) = Before(l, s) \cup {Head(s)}
  BY <1>3, <1>6, <1>7 DEF Before
<1> QED  BY <1>2, <1>5, <1>8

\* One more of the samples is read: those that remain are the tail of what did.
LEMMA RemainingShrinks ==
  ASSUME Remaining, Len(request.left) # 0,
         request'.problem = request.problem, request'.left = Tail(request.left)
  PROVE  /\ Remaining'
         /\ Len(request'.left) = Len(request.left) - 1
         /\ Done' = Done \cup {Head(request.left)}
<1> DEFINE l == request.problem.sample_tests
           s == request.left
           S == STRING
<1>1. EndsWith(S, l, s)
  BY DEF Remaining
<1> HIDE DEF S
<1>2. /\ EndsWith(S, l, Tail(s))
      /\ Len(Tail(s)) = Len(s) - 1
      /\ Before(l, Tail(s)) = Before(l, s) \cup {Head(s)}
  BY <1>1, OneLess
<1>3. request'.problem.sample_tests = l /\ request'.left = Tail(s)
  OBVIOUS
<1>4. Remaining' /\ Done' = Before(l, Tail(s)) /\ Done = Before(l, s)
  BY <1>2, <1>3 DEF Remaining, Done, S
<1> QED  BY <1>2, <1>3, <1>4

\* So is the answer, and one sample less remains.
LEMMA ReadCorrectKeeps ==
  ASSUME PageInv, Samples!ReadCorrect
  PROVE  PageInv'
<1> DEFINE test == Head(request.left)
           sample == [input |-> request.input,
                      correct |-> Samples!FileShown(files, conf.corr_pat, test)]
<1>0. request.pc = "correct" /\ UNCHANGED <<files, conf, row, seen>>
  BY DEF Samples!ReadCorrect
<1>1. CASE Samples!CannotRead("corr_pat", test)
  <2>1. request'.pc = "failed"
    BY <1>1 DEF Samples!ReadCorrect, PageInv
  <2> QED  BY <1>0, <2>1 DEF PageInv
<1>2. CASE ~Samples!CannotRead("corr_pat", test)
  <2>1. /\ request'.pc = IF Len(request.left) = 1 THEN "shown" ELSE "input"
        /\ request'.problem = request.problem
        /\ request'.left = Tail(request.left)
        /\ request'.json = Samples!With(request.json, test, sample)
    BY <1>2 DEF Samples!ReadCorrect
  <2>2. Remaining /\ ReadSoFar /\ Len(request.left) # 0
    BY <1>0 DEF PageInv
  <2>3. /\ Remaining'
        /\ Len(request'.left) = Len(request.left) - 1
        /\ Done' = Done \cup {test}
    BY <2>1, <2>2, RemainingShrinks
  <2>4. /\ DOMAIN request'.json = {test} \cup DOMAIN request.json
        /\ request'.json[test] = sample
        /\ \A t \in DOMAIN request.json \ {test} : request'.json[t] = request.json[t]
    BY <2>1 DEF Samples!With
  <2>5. OfItsTime(sample.input, "test_pat", test) /\ OfItsTime(sample.correct, "corr_pat", test)
    BY <1>0, <1>2, NowIsSeen DEF PageInv
  <2>6. seen' = seen /\ Samples!Stored(request'.problem) = Samples!Stored(request.problem)
    BY <1>0, <2>1
  <2>7. ReadSoFar'
    BY <2>2, <2>3, <2>4, <2>5, <2>6 DEF ReadSoFar, OfItsTime
  <2>8. request'.pc = "shown" => Len(request'.left) = 0
    BY <2>1, <2>3
  <2>9. request'.pc = "input" => Len(request'.left) # 0
    <3>1. Len(request.left) \in Nat \ {0}
      <4>1. request.left \in Seq(STRING)
        BY <2>2 DEF Remaining, EndsWith
      <4> QED  BY <2>2, <4>1
    <3> QED  BY <2>1, <2>3, <3>1
  <2> QED  BY <1>0, <2>1, <2>3, <2>7, <2>8, <2>9 DEF PageInv
<1> QED  BY <1>1, <1>2

\* A change adds a time and leaves the request alone.
LEMMA EditKeeps ==
  ASSUME PageInv, Samples!Edit, row' \in Rows
  PROVE  PageInv'
<1>1. request' = request /\ seen' = seen \cup {<<files', conf'>>}
  BY DEF Samples!Edit
<1>2. \A text, pattern, t : OfItsTime(text, pattern, t) => OfItsTime(text, pattern, t)'
  BY <1>1 DEF OfItsTime
<1>3. Remaining => Remaining'
  BY <1>1 DEF Remaining
<1>4. ReadSoFar => ReadSoFar'
  BY <1>1, <1>2 DEF ReadSoFar, Done
<1>5. <<files, conf>>' \in seen'
  BY <1>1
<1> QED  BY <1>1, <1>2, <1>3, <1>4, <1>5 DEF PageInv

\* Every step of the system keeps it.
LEMMA PageStep == PageInv /\ [Next]_vars => PageInv'
<1> SUFFICES ASSUME PageInv, [Next]_vars
             PROVE  PageInv'
  OBVIOUS
<1>1. CASE Samples!Begin
  BY <1>1, BeginKeeps
<1>2. CASE Samples!ReadInput
  BY <1>2, ReadInputKeeps
<1>3. CASE Samples!ReadCorrect
  BY <1>3, ReadCorrectKeeps
<1>4. CASE Samples!Edit /\ row' \in Rows
  BY <1>4, EditKeeps
<1>5. CASE UNCHANGED texts
  <2>1. /\ files' = files /\ conf' = conf /\ row' = row
        /\ request' = request /\ seen' = seen
    BY <1>5 DEF texts
  <2>2. Remaining' = Remaining /\ ReadSoFar' = ReadSoFar
    BY <2>1 DEF Remaining, ReadSoFar, Done, OfItsTime
  <2>3. OfItsTime(request.input, "test_pat", Head(request.left))'
          = OfItsTime(request.input, "test_pat", Head(request.left))
    BY <2>1 DEF OfItsTime
  <2> QED  BY <2>1, <2>2, <2>3 DEF PageInv
<1>6. row \in Rows
  BY DEF PageInv
<1>7. Samples!Next => \/ Samples!Begin \/ Samples!ReadInput \/ Samples!ReadCorrect
                      \/ Samples!Edit /\ row' \in Rows
  BY <1>6
  DEF Samples!Next, Samples!WriteFile, Samples!RemoveFile, Samples!Configure, Samples!SaveRow,
      Samples!SaveSource
<1>8. Samples!Next \/ UNCHANGED texts
  BY DEF Next, vars
<1> QED  BY <1>1, <1>2, <1>3, <1>4, <1>5, <1>7, <1>8

\* Each sample on the page of a problem is from the files as they were at some time
\* of the request, and none is missing (ProblemApi.get, serialize_samples).
THEOREM PagesAreOfTheirTime == Spec => []PageIsOfItsTime
<1>1. Init => PageInv
  BY DEF Init, Samples!Init, Samples!Idle, PageInv
<1>2. PageInv => PageIsOfItsTime
  <2> SUFFICES ASSUME PageInv, request.pc \in {"input", "shown"}, request.json # None
               PROVE  PageIsOfItsTime
    BY DEF PageIsOfItsTime, Samples!PageIsOfItsTime
  <2>1. Remaining /\ ReadSoFar
    BY DEF PageInv
  <2>2. LET listed == request.problem.sample_tests IN
        /\ Done = Samples!Range(SubSeq(listed, 1, Len(listed) - Len(request.left)))
        /\ Done \subseteq Samples!Range(listed)
    BY <2>1, BeforeIsRange DEF Remaining, Done
  <2> QED  BY <2>1, <2>2 DEF ReadSoFar, PageIsOfItsTime, Samples!PageIsOfItsTime, OfItsTime
<1> QED
  BY <1>1, <1>2, PageStep, PTL DEF Spec

-----------------------------------------------------------------------------
(***************************************************************************)
(* The encodings                                                           *)
(***************************************************************************)

\* Where each of the first n members of s begins, before what comes after them
Offsets(off, n, s) ==
  /\ off \in [1 .. n + 1 -> Nat]
  /\ off[1] = 0
  /\ \A i \in 1 .. n : off[i + 1] = off[i] + Len(s[i])

\* x has the first n members of s at their places.
Consists(x, off, n, s) ==
  /\ Offsets(off, n, s)
  /\ Len(x) = off[n + 1]
  /\ \A i \in 1 .. n : \A k \in 1 .. Len(s[i]) : x[off[i] + k] = s[i][k]
  /\ \A p \in 1 .. Len(x) : \E i \in 1 .. n : \E k \in 1 .. Len(s[i]) : p = off[i] + k

\* One more member
LEMMA ConsistsMore ==
  ASSUME NEW S, NEW s, NEW m \in Nat, NEW x \in Seq(S), NEW off, Consists(x, off, m, s),
         \A i \in 1 .. m + 1 : s[i] \in Seq(S)
  PROVE  /\ x \o s[m + 1] \in Seq(S)
         /\ \E d : Consists(x \o s[m + 1], d, m + 1, s)
<1> DEFINE y == s[m + 1]
           z == x \o y
           d == [i \in 1 .. m + 2 |-> IF i = m + 2 THEN off[m + 1] + Len(y) ELSE off[i]]
<1>1. /\ off \in [1 .. m + 1 -> Nat] /\ off[1] = 0 /\ Len(x) = off[m + 1]
      /\ \A i \in 1 .. m : off[i + 1] = off[i] + Len(s[i])
      /\ \A i \in 1 .. m : \A k \in 1 .. Len(s[i]) : x[off[i] + k] = s[i][k]
      /\ \A p \in 1 .. Len(x) : \E i \in 1 .. m : \E k \in 1 .. Len(s[i]) : p = off[i] + k
  BY DEF Consists, Offsets
<1>2. y \in Seq(S) /\ Len(y) \in Nat /\ Len(x) \in Nat
  OBVIOUS
<1>3. /\ z \in Seq(S) /\ Len(z) = Len(x) + Len(y)
      /\ \A i \in 1 .. Len(x) + Len(y) : z[i] = IF i <= Len(x) THEN x[i] ELSE y[i - Len(x)]
  BY <1>2, ConcatProperties
<1> HIDE DEF y, z
<1>4. /\ d \in [1 .. m + 2 -> Nat]
      /\ d[m + 2] = off[m + 1] + Len(y)
      /\ \A i \in 1 .. m + 1 : d[i] = off[i]
  <2>1. \A i \in 1 .. m + 2 : i # m + 2 => i \in 1 .. m + 1
    OBVIOUS
  <2>2. m + 1 \in 1 .. m + 1 /\ m + 2 \in 1 .. m + 2 /\ \A i \in 1 .. m + 1 : i \in 1 .. m + 2 /\ i # m + 2
    OBVIOUS
  <2> QED  BY <1>1, <1>2, <2>1, <2>2
<1> HIDE DEF d
<1>5. Offsets(d, m + 1, s)
  <2>1. d[1] = 0
    <3>1. 1 \in 1 .. m + 1
      OBVIOUS
    <3> QED  BY <1>1, <1>4, <3>1
  <2>2. ASSUME NEW i \in 1 .. m + 1
        PROVE  d[i + 1] = d[i] + Len(s[i])
    <3>1. CASE i = m + 1
      <4>1. i + 1 = m + 2
        BY <3>1
      <4> QED  BY <1>4, <3>1, <4>1 DEF y
    <3>2. CASE i \in 1 .. m
      <4>1. i \in 1 .. m + 1 /\ i + 1 \in 1 .. m + 1
        BY <3>2
      <4> QED  BY <1>1, <1>4, <3>2, <4>1
    <3> QED  BY <3>1, <3>2
  <2>3. (m + 1) + 1 = m + 2
    OBVIOUS
  <2> QED  BY <1>4, <2>1, <2>2, <2>3 DEF Offsets
<1>6. ASSUME NEW i \in 1 .. m + 1, NEW k \in 1 .. Len(s[i])
      PROVE  z[d[i] + k] = s[i][k]
  <2>1. CASE i = m + 1
    <3>1. d[i] = Len(x) /\ s[i] = y /\ k \in 1 .. Len(y)
      BY <1>1, <1>4, <2>1 DEF y
    <3>2. Len(x) + k \in 1 .. Len(x) + Len(y) /\ ~(Len(x) + k <= Len(x)) /\ (Len(x) + k) - Len(x) = k
      BY <1>2, <3>1
    <3> QED  BY <1>3, <3>1, <3>2
  <2>2. CASE i \in 1 .. m
    <3>1. d[i] = off[i] /\ off[i] \in Nat /\ off[i + 1] \in Nat /\ Len(s[i]) = off[i + 1] - off[i]
      <4>1. i \in 1 .. m + 1 /\ i + 1 \in 1 .. m + 1
        BY <2>2
      <4>2. off[i] \in Nat /\ off[i + 1] \in Nat
        BY <1>1, <4>1
      <4>3. off[i + 1] = off[i] + Len(s[i])
        BY <1>1, <2>2
      <4>4. Len(s[i]) \in Int
        BY <4>2, <4>3
      <4> QED  BY <1>4, <4>1, <4>2, <4>3, <4>4
    <3>2. off[i] + k \in 1 .. Len(x)
      <4>1. off[i + 1] <= off[m + 1]
        <5> DEFINE T == {j \in Nat : i + 1 + j <= m + 1 => off[i + 1] <= off[i + 1 + j]}
        <5>1. 0 \in T
          BY <3>1
        <5>2. ASSUME NEW j \in T
              PROVE  j + 1 \in T
          <6> SUFFICES ASSUME i + 1 + (j + 1) <= m + 1 PROVE off[i + 1] <= off[i + 1 + (j + 1)]
            OBVIOUS
          <6>1. j \in Nat /\ i + 1 + j \in 1 .. m /\ i + 1 + (j + 1) = (i + 1 + j) + 1
            BY <2>2
          <6>2. off[i + 1] <= off[i + 1 + j]
            BY <5>2, <6>1
          <6>3. off[(i + 1 + j) + 1] = off[i + 1 + j] + Len(s[i + 1 + j])
            BY <1>1, <6>1
          <6>4. i + 1 + j \in 1 .. m + 1 /\ (i + 1 + j) + 1 \in 1 .. m + 1
            BY <6>1
          <6>5. off[i + 1 + j] \in Nat /\ off[(i + 1 + j) + 1] \in Nat
            BY <1>1, <6>4
          <6>6. Len(s[i + 1 + j]) >= 0
            <7>1. i + 1 + j \in 1 .. m + 1
              BY <6>1
            <7> QED  BY <7>1
          <6> QED  BY <3>1, <6>1, <6>2, <6>3, <6>5, <6>6
        <5>3. T = Nat
          <6>1. T \in SUBSET Nat
            OBVIOUS
          <6> HIDE DEF T
          <6> QED  BY <5>1, <5>2, <6>1, Induction
        <5>4. m - i \in Nat /\ i + 1 + (m - i) = m + 1
          BY <2>2
        <5>5. m - i \in T
          BY <5>3, <5>4
        <5> QED  BY <5>4, <5>5
      <4>2. k \in Nat /\ 1 <= k /\ k <= off[i + 1] - off[i]
        BY <3>1
      <4>3. off[i + 1] <= Len(x)
        BY <1>1, <4>1
      <4> HIDE DEF d
      <4> QED  BY <1>2, <3>1, <4>2, <4>3
    <3>3. x[off[i] + k] = s[i][k]
      BY <1>1, <2>2
    <3>4. off[i] + k \in 1 .. Len(x) + Len(y) /\ off[i] + k <= Len(x)
      BY <1>2, <3>2
    <3> QED  BY <1>3, <3>1, <3>3, <3>4
  <2> QED  BY <2>1, <2>2
<1>7. ASSUME NEW p \in 1 .. Len(z)
      PROVE  \E i \in 1 .. m + 1 : \E k \in 1 .. Len(s[i]) : p = d[i] + k
  <2>1. CASE p <= Len(x)
    <3>0. PICK i \in 1 .. m : \E k \in 1 .. Len(s[i]) : p = off[i] + k
      BY <1>1, <1>2, <1>3, <2>1
    <3>1. PICK k \in 1 .. Len(s[i]) : p = off[i] + k
      BY <3>0
    <3>2. i \in 1 .. m + 1 /\ d[i] = off[i]
      BY <1>4
    <3> QED  BY <3>1, <3>2
  <2>2. CASE ~(p <= Len(x))
    <3>1. p - Len(x) \in 1 .. Len(y) /\ p = Len(x) + (p - Len(x))
      BY <1>2, <1>3, <2>2
    <3>2. d[m + 1] = Len(x) /\ m + 1 \in 1 .. m + 1
      BY <1>1, <1>4
    <3> QED  BY <3>1, <3>2 DEF y
  <2> QED  BY <2>1, <2>2
<1>8. Len(z) = d[(m + 1) + 1]
  <2>1. (m + 1) + 1 = m + 2
    OBVIOUS
  <2> QED  BY <1>1, <1>3, <1>4, <2>1
<1>9. Consists(z, d, m + 1, s)
  BY <1>5, <1>6, <1>7, <1>8 DEF Consists
<1> QED  BY <1>3, <1>9 DEF y, z

\* A sequence of sequences, one after the other
LEMMA JoinedConsists ==
  ASSUME NEW S, NEW s \in Seq(Seq(S))
  PROVE  Joined(s) \in Seq(S) /\ \E off : Consists(Joined(s), off, Len(s), s)
<1> DEFINE n == Len(s)
           f == CHOOSE g : Joins(g, n, s)
<1>1. n \in Nat /\ \A i \in 1 .. n : s[i] \in Seq(S)
  OBVIOUS
<1>e. <<>> \in Seq(S) /\ Consists(<<>>, [i \in 1 .. 1 |-> 0], 0, s)
  <2> DEFINE d == [i \in 1 .. 1 |-> 0]
  <2>1. d[1] = 0 /\ d \in [1 .. 1 -> Nat]
    OBVIOUS
  <2> HIDE DEF d
  <2>2. Offsets(d, 0, s)
    BY <2>1 DEF Offsets
  <2>3. Consists(<<>>, d, 0, s)
    BY <2>1, <2>2 DEF Consists
  <2> QED  BY <2>3 DEF d
<1>2. CASE n = 0
  <2>1. Joined(s) = <<>> /\ s = <<>>
    BY <1>2 DEF Joined
  <2> QED  BY <1>2, <1>e, <2>1
<1>3. CASE n # 0
  <2>1. Joins(f, n, s)
    BY <1>1, JoinsExists
  <2> HIDE DEF f, n
  <2>2. \A i \in 1 .. n : f[i] = IF i = 1 THEN s[i] ELSE f[i - 1] \o s[i]
    BY <2>1 DEF Joins
  <2> DEFINE Good(m) == f[m] \in Seq(S) /\ \E off : Consists(f[m], off, m, s)
             T == {m \in Nat : m + 1 <= n => Good(m + 1)}
  <2>3. Good(1)
    <3>1. 1 \in 1 .. n
      BY <1>1, <1>3
    <3>2. f[1] = s[1] /\ s[1] \in Seq(S)
      BY <1>1, <2>2, <3>1
    <3>3. <<>> \o s[1] = s[1]
      BY <3>2, ConcatEmptySeq
    <3>4. 0 \in Nat /\ 0 + 1 = 1
      OBVIOUS
    <3>5. <<>> \o s[0 + 1] \in Seq(S) /\ \E d : Consists(<<>> \o s[0 + 1], d, 0 + 1, s)
      <4>1. \A i \in 1 .. 0 + 1 : s[i] \in Seq(S)
        BY <3>2
      <4> QED  BY <1>e, <3>4, <4>1, ConsistsMore
    <3> QED  BY <3>2, <3>3, <3>4, <3>5
  <2>4. ASSUME NEW m \in Nat, m + 1 \in 1 .. n, m + 2 \in 1 .. n, Good(m + 1)
        PROVE  Good(m + 2)
    <3>1. f[m + 2] = f[m + 1] \o s[m + 2]
      <4>1. m + 2 # 1 /\ (m + 2) - 1 = m + 1
        OBVIOUS
      <4> QED  BY <2>2, <2>4, <4>1
    <3>2. PICK off : Consists(f[m + 1], off, m + 1, s)
      BY <2>4
    <3>3. m + 1 \in Nat /\ (m + 1) + 1 = m + 2 /\ s[m + 2] \in Seq(S)
      BY <1>1, <2>4
    <3>4. /\ f[m + 1] \o s[(m + 1) + 1] \in Seq(S)
          /\ \E d : Consists(f[m + 1] \o s[(m + 1) + 1], d, (m + 1) + 1, s)
      <4>1. \A i \in 1 .. (m + 1) + 1 : s[i] \in Seq(S)
        BY <1>1, <2>4
      <4> QED  BY <2>4, <3>2, <3>3, <4>1, ConsistsMore
    <3> QED  BY <3>1, <3>3, <3>4
  <2> HIDE DEF Good
  <2>5. T = Nat
    <3>1. T \in SUBSET Nat
      OBVIOUS
    <3>2. 0 \in T
      BY <2>3
    <3>3. ASSUME NEW m \in T
          PROVE  m + 1 \in T
      <4> SUFFICES ASSUME (m + 1) + 1 <= n PROVE Good((m + 1) + 1)
        OBVIOUS
      <4>1. m \in Nat /\ m + 1 \in 1 .. n /\ m + 2 \in 1 .. n /\ (m + 1) + 1 = m + 2 /\ m + 1 <= n
        BY <1>1
      <4>2. Good(m + 1)
        BY <3>3, <4>1
      <4> QED  BY <2>4, <4>1, <4>2
    <3> HIDE DEF T
    <3> QED  BY <3>1, <3>2, <3>3, Induction
  <2>6. n - 1 \in Nat /\ (n - 1) + 1 = n
    BY <1>1, <1>3
  <2>7. n - 1 \in T
    BY <2>5, <2>6
  <2>8. Good(n)
    BY <2>6, <2>7
  <2>9. Joined(s) = f[n]
    BY <1>3 DEF Joined, f, n
  <2> QED  BY <2>8, <2>9 DEF Good, n
<1> QED  BY <1>2, <1>3

\* FlattenSeq does this.
LEMMA FlattenSamples ==
  ASSUME NEW s
  PROVE  Samples!FlattenSeq(s) = Joined(s)
BY DEF Samples!FlattenSeq, Joined, Joins

LEMMA FlattenMonitors ==
  ASSUME NEW s
  PROVE  Monitors!FlattenSeq(s) = Joined(s)
BY DEF Monitors!FlattenSeq, Joined, Joins

\* A text with one more letter before it
Longer(text, c) == [text EXCEPT !.letters = <<c>> \o @]

\* What b is in UTF-8 from byte i on, which begins a letter of w bytes, when f has what
\* it is from later bytes on
TextWith(b, f, i, w) ==
  IF i > Len(b) THEN [letters |-> <<>>, bad |-> FALSE, open |-> FALSE]
  ELSE LET next == i + w IN
    IF w = 0 \/ \E j \in i + 1 .. next - 1 : j <= Len(b) /\ b[j] \notin Samples!Later(b[i], j - i)
    THEN [letters |-> <<>>, bad |-> TRUE, open |-> FALSE]
    ELSE IF next > Len(b) + 1 THEN [letters |-> <<>>, bad |-> FALSE, open |-> TRUE]
    ELSE Longer(f[next], Samples!LetterOf("utf-8", SubSeq(b, i, next - 1)))

\* The same, of the width its byte says
TextFrom(b, f, i) == TextWith(b, f, i, Samples!Width(b[i]))

\* Only the letters are more.
LEMMA LongerText ==
  ASSUME NEW s, NEW bad, NEW open, NEW c
  PROVE  Longer([letters |-> s, bad |-> bad, open |-> open], c) =
           [letters |-> <<c>> \o s, bad |-> bad, open |-> open]
<1> DEFINE r == [letters |-> s, bad |-> bad, open |-> open]
           v == <<c>> \o s
<1>1. r.letters = s
  OBVIOUS
<1>2. Longer(r, c) = [r EXCEPT !.letters = v]
  <2> HIDE DEF r
  <2> QED  BY <1>1 DEF Longer
<1> HIDE DEF v
<1>3. [r EXCEPT !.letters = v] = [letters |-> v, bad |-> bad, open |-> open]
  OBVIOUS
<1> QED  BY <1>2, <1>3 DEF v

\* f has it from byte k on.
Decodes(f, b, k) == f = [i \in k .. Len(b) + 1 |-> TextFrom(b, f, i)]

\* A letter has up to four bytes.
LEMMA WidthType == \A x : Samples!Width(x) \in 0 .. 4
BY DEF Samples!Width

\* Only a later byte counts.
LEMMA TextFromLater ==
  ASSUME NEW b, Len(b) \in Nat, NEW f, NEW g, NEW i \in Nat,
         \A j \in i + 1 .. Len(b) + 1 : f[j] = g[j]
  PROVE  TextFrom(b, f, i) = TextFrom(b, g, i)
<1> DEFINE w == Samples!Width(b[i])
<1>1. CASE i > Len(b) \/ w = 0 \/ i + w > Len(b) + 1
  BY <1>1 DEF TextFrom, TextWith
<1>2. CASE i <= Len(b) /\ w # 0 /\ i + w <= Len(b) + 1
  <2>1. i + w \in i + 1 .. Len(b) + 1
    BY <1>2, WidthType
  <2>2. f[i + w] = g[i + w]
    BY <2>1
  <2> QED  BY <2>2 DEF TextFrom, TextWith
<1>3. w \in 0 .. 4
  BY WidthType
<1> QED  BY <1>1, <1>2, <1>3

\* There is such a function.
LEMMA DecodesExists ==
  ASSUME NEW b, Len(b) \in Nat
  PROVE  \E f : Decodes(f, b, 1)
<1> DEFINE n == Len(b)
           S == {m \in Nat : m <= n => \E f : Decodes(f, b, n + 1 - m)}
<1> HIDE DEF n
<1>0. n \in Nat
  BY DEF n
<1>1. 0 \in S
  <2> DEFINE none == [letters |-> <<>>, bad |-> FALSE, open |-> FALSE]
             g == [i \in n + 1 .. n + 1 |-> none]
  <2>1. \A i \in n + 1 .. n + 1 : TextFrom(b, g, i) = none
    BY <1>0 DEF TextFrom, TextWith, n
  <2> HIDE DEF none
  <2>2. g = [i \in n + 1 .. n + 1 |-> TextFrom(b, g, i)]
    BY <2>1
  <2>3. Decodes(g, b, n + 1)
    BY <2>2, Zenon DEF Decodes, n
  <2> HIDE DEF g
  <2>4. n + 1 - 0 = n + 1
    BY <1>0
  <2> QED  BY <2>3, <2>4
<1>2. ASSUME NEW m \in S
      PROVE  m + 1 \in S
  <2> SUFFICES ASSUME m + 1 <= n PROVE \E f : Decodes(f, b, n + 1 - (m + 1))
    OBVIOUS
  <2> DEFINE k == n + 1 - (m + 1)
  <2>1. m \in Nat /\ k \in Nat /\ k <= n /\ n + 1 - m = k + 1
    BY <1>0
  <2>2. PICK f : Decodes(f, b, k + 1)
    BY <1>0, <2>1
  <2> HIDE DEF k
  <2> DEFINE g == [i \in k .. n + 1 |-> IF i = k THEN TextFrom(b, f, k) ELSE f[i]]
  <2>3. \A i \in k + 1 .. n + 1 : g[i] = f[i] /\ f[i] = TextFrom(b, f, i)
    <3>1. \A i \in k + 1 .. n + 1 : f[i] = TextFrom(b, f, i)
      BY <2>2 DEF Decodes, n
    <3>2. \A i \in k + 1 .. n + 1 : i \in k .. n + 1 /\ i # k
      BY <1>0, <2>1
    <3> QED  BY <3>1, <3>2
  <2>4. g[k] = TextFrom(b, f, k) /\ g = [i \in k .. n + 1 |-> g[i]]
    BY <1>0, <2>1
  <2> HIDE DEF g
  <2>5. ASSUME NEW i \in k .. n + 1
        PROVE  g[i] = TextFrom(b, g, i)
    <3>1. i \in Nat /\ \A j \in i + 1 .. n + 1 : f[j] = g[j]
      BY <1>0, <2>1, <2>3
    <3>2. TextFrom(b, f, i) = TextFrom(b, g, i)
      BY <1>0, <3>1, TextFromLater DEF n
    <3>3. i = k \/ i \in k + 1 .. n + 1
      BY <1>0, <2>1
    <3> QED  BY <2>3, <2>4, <3>2, <3>3
  <2>6. Decodes(g, b, k)
    BY <2>4, <2>5 DEF Decodes, n
  <2> QED  BY <2>6 DEF k
<1>3. S = Nat
  <2>1. S \in SUBSET Nat
    OBVIOUS
  <2> HIDE DEF S
  <2> QED  BY <1>1, <1>2, <2>1, Induction
<1>4. n \in S /\ n + 1 - n = 1 /\ n <= n
  <2> HIDE DEF S
  <2> QED  BY <1>0, <1>3
<1>5. \E f : Decodes(f, b, n + 1 - n)
  BY <1>4
<1> QED  BY <1>4, <1>5

\* Utf8 decodes from the first byte on.
LEMMA Utf8Decodes ==
  ASSUME NEW b, Len(b) \in Nat
  PROVE  \E f : /\ Samples!Utf8(b) = f[1]
                /\ \A i \in 1 .. Len(b) + 1 : f[i] = TextFrom(b, f, i)
<1> DEFINE f == CHOOSE g : Decodes(g, b, 1)
<1>1. Decodes(f, b, 1)
  BY DecodesExists
<1>2. Samples!Utf8(b) = f[1]
  BY DEF Samples!Utf8, Decodes, TextFrom, TextWith, Longer
<1> HIDE DEF f
<1>3. \A i \in 1 .. Len(b) + 1 : f[i] = TextFrom(b, f, i)
  BY <1>1 DEF Decodes
<1> QED  BY <1>2, <1>3

\* b is the letters l from byte off[1] on, m of them, each as wide as its first byte says.
LettersAt(b, off, l, m) ==
  /\ off \in [1 .. m + 1 -> 0 .. Len(b)]
  /\ off[1] = 0
  /\ \A k \in 1 .. m :
       /\ off[k + 1] = off[k] + Samples!Width(b[off[k] + 1])
       /\ off[k + 1] # off[k]
       /\ \A j \in off[k] + 2 .. off[k + 1] : b[j] \in Samples!Later(b[off[k] + 1], j - (off[k] + 1))
       /\ Samples!LetterOf("utf-8", SubSeq(b, off[k] + 1, off[k + 1])) = l[k]

\* After r bytes there is nothing, or the beginning of a letter.
EndsAt(b, r) ==
  \/ r = Len(b)
  \/ /\ Samples!Width(b[r + 1]) # 0
     /\ r + Samples!Width(b[r + 1]) > Len(b)
     /\ \A j \in r + 2 .. Len(b) : b[j] \in Samples!Later(b[r + 1], j - (r + 1))

\* A part of a sequence from the place k on is its k-th member and the part after it.
LEMMA PartIsFirstAndRest ==
  ASSUME NEW T, NEW l \in Seq(T), NEW m \in Nat, m = Len(l), NEW k \in 1 .. m
  PROVE  <<l[k]>> \o SubSeq(l, k + 1, m) = SubSeq(l, k, m)
<1> DEFINE x == SubSeq(l, k + 1, m)
           y == SubSeq(l, k, m)
<1>1. x \in Seq(T) /\ Len(x) = m - k /\ \A i \in 1 .. m - k : x[i] = l[k + i]
  OBVIOUS
<1>2. y \in Seq(T) /\ Len(y) = m - k + 1 /\ \A i \in 1 .. m - k + 1 : y[i] = l[k + i - 1]
  OBVIOUS
<1> HIDE DEF x, y
<1> DEFINE a == <<l[k]>>
<1>3. a \in Seq(T) /\ Len(a) = 1 /\ a[1] = l[k]
  OBVIOUS
<1> HIDE DEF a
<1>4. a \o x \in Seq(T) /\ Len(a \o x) = m - k + 1
  <2>1. a \o x \in Seq(T) /\ Len(a \o x) = Len(a) + Len(x)
    BY <1>1, <1>3, ConcatProperties
  <2> QED  BY <1>1, <1>3, <2>1
<1>5. ASSUME NEW i \in 1 .. m - k + 1
      PROVE  (a \o x)[i] = y[i]
  <2>1. i \in 1 .. Len(a) + Len(x)
    BY <1>1, <1>3
  <2>2. (a \o x)[i] = IF i <= Len(a) THEN a[i] ELSE x[i - Len(a)]
    BY <1>1, <1>3, <2>1, ConcatProperties
  <2>3. CASE i = 1
    BY <1>2, <1>3, <2>2, <2>3
  <2>4. CASE i # 1
    <3>1. i - 1 \in 1 .. m - k /\ k + (i - 1) = k + i - 1 /\ ~(i <= 1)
      BY <2>4
    <3>2. (a \o x)[i] = x[i - 1]
      BY <1>3, <2>2, <3>1
    <3> QED  BY <1>1, <1>2, <3>1, <3>2
  <2> QED  BY <2>3, <2>4
<1>6. a \o x = y
  <2> DEFINE u == a \o x
  <2>1. u \in Seq(T) /\ Len(u) = Len(y) /\ \A i \in 1 .. Len(u) : u[i] = y[i]
    BY <1>2, <1>4, <1>5
  <2> HIDE DEF u
  <2>2. u = y
    BY <1>2, <2>1, SeqEqual
  <2> QED  BY <2>2 DEF u
<1> QED  BY <1>6 DEF a, x, y

\* Unless it is none of a letter, byte i begins one, whole or not.
LEMMA TextFromLetter ==
  ASSUME NEW b, NEW f, NEW i, NEW w, Samples!Width(b[i]) = w, ~(i > Len(b)), w # 0,
         ~\E j \in i + 1 .. (i + w) - 1 : j <= Len(b) /\ b[j] \notin Samples!Later(b[i], j - i)
  PROVE  TextFrom(b, f, i) =
           IF i + w > Len(b) + 1 THEN [letters |-> <<>>, bad |-> FALSE, open |-> TRUE]
           ELSE Longer(f[i + w], Samples!LetterOf("utf-8", SubSeq(b, i, (i + w) - 1)))
<1>1. TextFrom(b, f, i) = TextWith(b, f, i, w)
  BY DEF TextFrom
<1> QED  BY <1>1, Zenon DEF TextWith

\* Nothing, or the beginning of a letter, is no letter.
LEMMA NoLetterFrom ==
  ASSUME NEW b, Len(b) \in Nat, NEW f, NEW r \in 0 .. Len(b), EndsAt(b, r)
  PROVE  TextFrom(b, f, r + 1) = [letters |-> <<>>, bad |-> FALSE, open |-> r # Len(b)]
<1>1. CASE r = Len(b)
  <2>1. r + 1 > Len(b)
    BY <1>1
  <2> QED  BY <1>1, <2>1, Zenon DEF TextFrom, TextWith
<1>2. CASE r # Len(b)
  <2> DEFINE w == Samples!Width(b[r + 1])
             i == r + 1
  <2>1. w # 0 /\ r + w > Len(b) /\ \A j \in r + 2 .. Len(b) : b[j] \in Samples!Later(b[r + 1], j - (r + 1))
    BY <1>2 DEF EndsAt
  <2>2. w \in 0 .. 4 /\ Samples!Width(b[i]) = w
    BY WidthType
  <2> HIDE DEF w
  <2>3. ~(i > Len(b)) /\ i + w > Len(b) + 1
    BY <1>2, <2>1, <2>2
  <2>4. ~\E j \in i + 1 .. (i + w) - 1 : j <= Len(b) /\ b[j] \notin Samples!Later(b[i], j - i)
    <3> SUFFICES ASSUME NEW j \in i + 1 .. (i + w) - 1, j <= Len(b) PROVE b[j] \in Samples!Later(b[i], j - i)
      OBVIOUS
    <3>1. j \in r + 2 .. Len(b)
      BY <2>2
    <3> QED  BY <2>1, <3>1
  <2> HIDE DEF i
  <2>5. TextFrom(b, f, i) = [letters |-> <<>>, bad |-> FALSE, open |-> TRUE]
    BY <2>1, <2>2, <2>3, <2>4, TextFromLetter
  <2> QED  BY <1>2, <2>5 DEF i
<1> QED  BY <1>1, <1>2

\* After a letter comes the text from the byte after it on.
LEMMA LetterFrom ==
  ASSUME NEW b, Len(b) \in Nat, NEW f, NEW o \in 0 .. Len(b), NEW p \in 0 .. Len(b),
         p = o + Samples!Width(b[o + 1]), p # o,
         \A j \in o + 2 .. p : b[j] \in Samples!Later(b[o + 1], j - (o + 1))
  PROVE  TextFrom(b, f, o + 1) =
           Longer(f[p + 1], Samples!LetterOf("utf-8", SubSeq(b, o + 1, p)))
<1> DEFINE w == Samples!Width(b[o + 1])
           i == o + 1
<1>1. w \in 0 .. 4 /\ Samples!Width(b[i]) = w /\ p = o + w
  BY WidthType
<1> HIDE DEF w
<1>2. w # 0 /\ ~(i > Len(b)) /\ ~(i + w > Len(b) + 1) /\ i + w = p + 1 /\ (i + w) - 1 = p
  BY <1>1
<1>3. ~\E j \in i + 1 .. (i + w) - 1 : j <= Len(b) /\ b[j] \notin Samples!Later(b[i], j - i)
  <2> SUFFICES ASSUME NEW j \in i + 1 .. (i + w) - 1 PROVE b[j] \in Samples!Later(b[i], j - i)
    OBVIOUS
  <2>1. j \in o + 2 .. p
    BY <1>1
  <2> QED  BY <2>1
<1> HIDE DEF i
<1>4. TextFrom(b, f, i) =
        Longer(f[i + w], Samples!LetterOf("utf-8", SubSeq(b, i, (i + w) - 1)))
  BY <1>1, <1>2, <1>3, TextFromLetter
<1>5. TextFrom(b, f, i) =
        Longer(f[p + 1], Samples!LetterOf("utf-8", SubSeq(b, i, p)))
  BY <1>2, <1>4
<1> QED  BY <1>5 DEF i

\* Then it is read as these letters.
LEMMA LettersAreRead ==
  ASSUME NEW b, Len(b) \in Nat, NEW T, NEW l \in Seq(T), NEW off,
         LettersAt(b, off, l, Len(l)), EndsAt(b, off[Len(l) + 1])
  PROVE  Samples!Utf8(b) = [letters |-> l, bad |-> FALSE, open |-> off[Len(l) + 1] # Len(b)]
<1> DEFINE m == Len(l)
           r == off[m + 1]
           text(k) == [letters |-> SubSeq(l, k, m), bad |-> FALSE, open |-> r # Len(b)]
<1>1. PICK f : /\ Samples!Utf8(b) = f[1]
               /\ \A i \in 1 .. Len(b) + 1 : f[i] = TextFrom(b, f, i)
  BY Utf8Decodes
<1>2. m \in Nat /\ r \in 0 .. Len(b)
  BY DEF LettersAt
<1> DEFINE S == {q \in Nat : q <= m => f[off[m + 1 - q] + 1] = text(m + 1 - q)}
<1>3. 0 \in S
  <2>1. SubSeq(l, m + 1, m) = <<>>
    BY <1>2
  <2>2. r + 1 \in 1 .. Len(b) + 1
    BY <1>2
  <2>3. f[r + 1] = TextFrom(b, f, r + 1)
    BY <1>1, <2>2
  <2>4. TextFrom(b, f, r + 1) = [letters |-> <<>>, bad |-> FALSE, open |-> r # Len(b)]
    BY <1>2, NoLetterFrom
  <2>5. m + 1 - 0 = m + 1
    BY <1>2
  <2>6. f[off[m + 1] + 1] = text(m + 1)
    BY <2>1, <2>3, <2>4
  <2> HIDE DEF m, r, text
  <2> QED  BY <2>5, <2>6
<1> HIDE DEF m, r, text
<1>4. ASSUME NEW q \in S
      PROVE  q + 1 \in S
  <2> SUFFICES ASSUME q + 1 <= m PROVE f[off[m + 1 - (q + 1)] + 1] = text(m + 1 - (q + 1))
    OBVIOUS
  <2> DEFINE k == m + 1 - (q + 1)
             o == off[k]
             p == off[k + 1]
  <2>1. q \in Nat /\ k \in 1 .. m /\ k + 1 = m + 1 - q /\ q <= m
    BY <1>2
  <2>2. f[p + 1] = text(k + 1)
    BY <2>1
  <2> HIDE DEF S
  <2>3. /\ o \in 0 .. Len(b) /\ p \in 0 .. Len(b)
        /\ p = o + Samples!Width(b[o + 1]) /\ p # o
        /\ \A j \in o + 2 .. p : b[j] \in Samples!Later(b[o + 1], j - (o + 1))
        /\ Samples!LetterOf("utf-8", SubSeq(b, o + 1, p)) = l[k]
    <3> HIDE DEF k
    <3>1. k \in 1 .. m + 1 /\ k + 1 \in 1 .. m + 1
      BY <1>2, <2>1
    <3> QED  BY <2>1, <3>1, Zenon DEF LettersAt, m
  <2> HIDE DEF o, p
  <2>4. o + 1 \in 1 .. Len(b) + 1
    BY <2>3
  <2>5. f[o + 1] = Longer(f[p + 1], l[k])
    <3> HIDE DEF k
    <3>1. f[o + 1] = TextFrom(b, f, o + 1)
      BY <1>1, <2>4
    <3>2. TextFrom(b, f, o + 1) =
            Longer(f[p + 1], Samples!LetterOf("utf-8", SubSeq(b, o + 1, p)))
      BY <2>3, LetterFrom
    <3> QED  BY <2>3, <3>1, <3>2
  <2> HIDE DEF k
  <2>6. <<l[k]>> \o SubSeq(l, k + 1, m) = SubSeq(l, k, m)
    BY <1>2, <2>1, PartIsFirstAndRest DEF m
  <2>7. f[o + 1] = text(k)
    <3> DEFINE s == SubSeq(l, k + 1, m)
               no == FALSE
               open == r # Len(b)
    <3>1. text(k + 1) = [letters |-> s, bad |-> no, open |-> open]
      BY DEF text
    <3>2. text(k) = [letters |-> SubSeq(l, k, m), bad |-> no, open |-> open]
      BY DEF text
    <3>3. SubSeq(l, k, m) = <<l[k]>> \o s
      BY <2>6
    <3> HIDE DEF s, no, open
    <3>4. Longer(text(k + 1), l[k]) = [letters |-> <<l[k]>> \o s, bad |-> no, open |-> open]
      <4> DEFINE c == l[k]
      <4> HIDE DEF c
      <4>1. Longer([letters |-> s, bad |-> no, open |-> open], c) =
              [letters |-> <<c>> \o s, bad |-> no, open |-> open]
        BY LongerText, Zenon
      <4> QED  BY <3>1, <4>1, Zenon DEF c
    <3>5. Longer(text(k + 1), l[k]) = text(k)
      BY <3>2, <3>3, <3>4
    <3> QED  BY <2>2, <2>5, <3>5
  <2> QED  BY <2>7 DEF o, k
<1>5. S = Nat
  <2>1. S \in SUBSET Nat
    OBVIOUS
  <2> HIDE DEF S
  <2> QED  BY <1>3, <1>4, <2>1, Induction
<1>6. m \in S /\ m + 1 - m = 1 /\ m <= m
  <2> HIDE DEF S
  <2> QED  BY <1>2, <1>5
<1>7. f[off[1] + 1] = text(1)
  BY <1>6
<1>8. off[1] + 1 = 1 /\ SubSeq(l, 1, m) = l
  BY DEF LettersAt, m
<1> QED  BY <1>1, <1>7, <1>8 DEF text, r, m

\* The places never go back.
LEMMA OffsetsGrow ==
  ASSUME NEW S, NEW s, NEW n \in Nat, NEW off, Offsets(off, n, s),
         \A i \in 1 .. n : s[i] \in Seq(S), NEW i \in 1 .. n + 1, NEW j \in 1 .. n + 1, i <= j
  PROVE  off[i] <= off[j]
<1> DEFINE T == {d \in Nat : i + d <= n + 1 => off[i] <= off[i + d]}
<1>1. \A k \in 1 .. n + 1 : off[k] \in Nat
  BY DEF Offsets
<1>2. 0 \in T
  BY <1>1
<1>3. ASSUME NEW d \in T
      PROVE  d + 1 \in T
  <2> SUFFICES ASSUME i + (d + 1) <= n + 1 PROVE off[i] <= off[i + (d + 1)]
    OBVIOUS
  <2> DEFINE k == i + d
  <2>1. d \in Nat /\ k \in 1 .. n /\ k \in 1 .. n + 1 /\ k + 1 \in 1 .. n + 1 /\ i + (d + 1) = k + 1
    OBVIOUS
  <2>2. off[i] <= off[k]
    BY <2>1
  <2> HIDE DEF k
  <2>3. off[k + 1] = off[k] + Len(s[k]) /\ Len(s[k]) \in Nat
    BY <2>1 DEF Offsets
  <2>4. off[i] \in Nat /\ off[k] \in Nat /\ off[k + 1] \in Nat
    BY <1>1, <2>1
  <2>5. off[i] <= off[k + 1]
    BY <2>2, <2>3, <2>4
  <2> QED  BY <2>1, <2>5
<1>4. T = Nat
  <2>1. T \in SUBSET Nat
    OBVIOUS
  <2> HIDE DEF T
  <2> QED  BY <1>2, <1>3, <2>1, Induction
<1>5. j - i \in Nat /\ i + (j - i) = j
  OBVIOUS
<1>6. j - i \in T
  BY <1>4, <1>5
<1> QED  BY <1>5, <1>6

\* b is the letters l in the encoding e, each at its place.
Spells(b, off, e, l) ==
  /\ off \in [1 .. Len(l) + 1 -> Nat]
  /\ off[1] = 0
  /\ Len(b) = off[Len(l) + 1]
  /\ \A i \in 1 .. Len(l) :
       /\ off[i + 1] = off[i] + Len(Code[e][l[i]])
       /\ \A k \in 1 .. Len(Code[e][l[i]]) : b[off[i] + k] = Code[e][l[i]][k]
  /\ \A i, j \in 1 .. Len(l) + 1 : i <= j => off[i] <= off[j]

\* The bytes of a text do.
LEMMA BytesSpell ==
  ASSUME NEW t \in Written
  PROVE  /\ Samples!Bytes(t) \in Seq(0 .. 255)
         /\ \E off : Spells(Samples!Bytes(t), off, t.encoding, t.letters)
<1> DEFINE e == t.encoding
           l == t.letters
           s == [i \in DOMAIN l |-> Code[e][l[i]]]
           b == Samples!Bytes(t)
<1>1. e \in DOMAIN Code /\ l \in Seq(DOMAIN Code[e])
  BY CodeAssumption
<1>2. b = Joined(s)
  BY FlattenSamples DEF Samples!Bytes
<1> HIDE DEF e, l, b
<1>3. Len(l) \in Nat /\ DOMAIN l = 1 .. Len(l) /\ \A i \in 1 .. Len(l) : l[i] \in DOMAIN Code[e]
  BY <1>1
<1>4. \A i \in 1 .. Len(l) : Code[e][l[i]] \in Seq(0 .. 255)
  BY <1>1, <1>3, CodeAssumption
<1>5. s \in Seq(Seq(0 .. 255)) /\ Len(s) = Len(l) /\ \A i \in 1 .. Len(l) : s[i] = Code[e][l[i]]
  BY <1>3, <1>4
<1> HIDE DEF s
<1>6. PICK off : Consists(b, off, Len(l), s)
  BY <1>2, <1>5, JoinedConsists
<1>7. b \in Seq(0 .. 255)
  BY <1>2, <1>5, JoinedConsists
<1>8. Offsets(off, Len(l), s)
  BY <1>6 DEF Consists
<1>9. ASSUME NEW i \in 1 .. Len(l) + 1, NEW j \in 1 .. Len(l) + 1, i <= j
      PROVE  off[i] <= off[j]
  <2>1. Len(l) \in Nat /\ \A k \in 1 .. Len(l) : s[k] \in Seq(0 .. 255)
    BY <1>3, <1>4, <1>5
  <2> QED  BY <1>8, <1>9, <2>1, OffsetsGrow
<1>10. Spells(b, off, e, l)
  <2>1. /\ off \in [1 .. Len(l) + 1 -> Nat] /\ off[1] = 0
        /\ \A i \in 1 .. Len(l) : off[i + 1] = off[i] + Len(s[i])
    BY <1>8 DEF Offsets
  <2>2. /\ Len(b) = off[Len(l) + 1]
        /\ \A i \in 1 .. Len(l) : \A k \in 1 .. Len(s[i]) : b[off[i] + k] = s[i][k]
    BY <1>6 DEF Consists
  <2>3. ASSUME NEW i \in 1 .. Len(l)
        PROVE  /\ off[i + 1] = off[i] + Len(Code[e][l[i]])
               /\ \A k \in 1 .. Len(Code[e][l[i]]) : b[off[i] + k] = Code[e][l[i]][k]
    <3>1. s[i] = Code[e][l[i]]
      BY <1>5
    <3> QED  BY <2>1, <2>2, <3>1
  <2> QED  BY <1>9, <2>1, <2>2, <2>3 DEF Spells
<1> QED  BY <1>7, <1>10 DEF b, e, l

\* A part of a sequence
LEMMA PartOf ==
  ASSUME NEW T, NEW s \in Seq(T), NEW a \in 1 .. Len(s) + 1, NEW z \in 0 .. Len(s), a <= z + 1
  PROVE  /\ SubSeq(s, a, z) \in Seq(T)
         /\ Len(SubSeq(s, a, z)) = z - a + 1
         /\ \A i \in 1 .. z - a + 1 : SubSeq(s, a, z)[i] = s[a + i - 1]
<1>1. Len(s) \in Nat /\ \A i \in 1 .. Len(s) : s[i] \in T
  OBVIOUS
<1>2. \A i \in a .. z : s[i] \in T
  BY <1>1
<1>3. a \in Int /\ z \in Int /\ z >= a - 1
  BY <1>1
<1> QED  BY <1>1, <1>2, <1>3, SubSeqProperties

\* Its beginning
LEMMA StartOf ==
  ASSUME NEW T, NEW s \in Seq(T), NEW p \in 0 .. Len(s)
  PROVE  /\ SubSeq(s, 1, p) \in Seq(T) /\ Len(SubSeq(s, 1, p)) = p
         /\ \A i \in 1 .. p : SubSeq(s, 1, p)[i] = s[i]
<1>1. Len(s) \in Nat
  OBVIOUS
<1>2. 1 \in 1 .. Len(s) + 1 /\ 1 <= p + 1 /\ p - 1 + 1 = p /\ \A i \in 1 .. p : 1 + i - 1 = i
  BY <1>1
<1>3. /\ SubSeq(s, 1, p) \in Seq(T) /\ Len(SubSeq(s, 1, p)) = p - 1 + 1
      /\ \A i \in 1 .. p - 1 + 1 : SubSeq(s, 1, p)[i] = s[1 + i - 1]
  BY <1>2, PartOf
<1> QED  BY <1>2, <1>3

\* The members of a sequence
LEMMA MembersOf ==
  ASSUME NEW T, NEW s \in Seq(T)
  PROVE  Len(s) \in Nat /\ DOMAIN s = 1 .. Len(s) /\ \A i \in 1 .. Len(s) : s[i] \in T
OBVIOUS

\* A letter is found by its code.
LEMMA LetterIsFound ==
  ASSUME NEW e \in DOMAIN Code, NEW c \in DOMAIN Code[e]
  PROVE  Samples!LetterOf(e, Code[e][c]) = c
BY CodeAssumption DEF Samples!LetterOf

\* The first p bytes of a text in UTF-8 are read as the letters that are whole in them.
LEMMA PrefixIsRead ==
  ASSUME NEW t \in Written, t.encoding = "utf-8", NEW p \in 0 .. Len(Samples!Bytes(t))
  PROVE  \E q \in 0 .. Len(t.letters) :
           LET read == Samples!Utf8(SubSeq(Samples!Bytes(t), 1, p)) IN
           /\ read.letters = SubSeq(t.letters, 1, q)
           /\ ~read.bad
           /\ p = Len(Samples!Bytes(t)) => q = Len(t.letters) /\ ~read.open
<1> DEFINE l == t.letters
           m == Len(l)
           b == Samples!Bytes(t)
           C == Code["utf-8"]
           pre == SubSeq(b, 1, p)
<1>1. /\ "utf-8" \in DOMAIN Code /\ l \in Seq(DOMAIN C)
      /\ \A c \in DOMAIN C : /\ C[c] \in Seq(0 .. 255) /\ C[c] # <<>>
                             /\ Len(C[c]) = Samples!Width(C[c][1])
                             /\ \A k \in 2 .. Len(C[c]) : C[c][k] \in Samples!Later(C[c][1], k - 1)
  BY CodeAssumption
<1>2. b \in Seq(0 .. 255) /\ \E off : Spells(b, off, "utf-8", l)
  BY BytesSpell
<1> HIDE DEF l, b
<1>3. m \in Nat /\ \A i \in 1 .. m : l[i] \in DOMAIN C
  BY <1>1
<1> HIDE DEF m
<1>4. PICK off : Spells(b, off, "utf-8", l)
  BY <1>2
<1>5. /\ \A i \in 1 .. m + 1 : off[i] \in Nat
      /\ off[1] = 0 /\ Len(b) = off[m + 1]
      /\ \A i, j \in 1 .. m + 1 : i <= j => off[i] <= off[j]
  BY <1>4 DEF Spells, m
<1>6. ASSUME NEW i \in 1 .. m
      PROVE  /\ off[i + 1] = off[i] + Len(C[l[i]])
             /\ Len(C[l[i]]) \in Nat \ {0}
             /\ \A k \in 1 .. Len(C[l[i]]) : b[off[i] + k] = C[l[i]][k]
             /\ b[off[i] + 1] = C[l[i]][1]
             /\ Samples!Width(b[off[i] + 1]) = Len(C[l[i]])
             /\ \A j \in off[i] + 2 .. off[i + 1] :
                  b[j] \in Samples!Later(b[off[i] + 1], j - (off[i] + 1))
  <2> DEFINE c == C[l[i]]
  <2>1. /\ c \in Seq(0 .. 255) /\ c # <<>> /\ Len(c) = Samples!Width(c[1])
        /\ \A k \in 2 .. Len(c) : c[k] \in Samples!Later(c[1], k - 1)
    BY <1>1, <1>3
  <2>2. /\ off[i + 1] = off[i] + Len(c)
        /\ \A k \in 1 .. Len(c) : b[off[i] + k] = c[k]
    BY <1>4 DEF Spells, m
  <2>3. off[i] \in Nat
    BY <1>3, <1>5
  <2> HIDE DEF c
  <2>4. Len(c) \in Nat \ {0}
    BY <2>1
  <2>5. b[off[i] + 1] = c[1]
    BY <2>2, <2>4
  <2>6. ASSUME NEW j \in off[i] + 2 .. off[i + 1]
        PROVE  b[j] \in Samples!Later(b[off[i] + 1], j - (off[i] + 1))
    <3>1. /\ j - off[i] \in 2 .. Len(c) /\ j - off[i] \in 1 .. Len(c) /\ off[i] + (j - off[i]) = j
          /\ (j - off[i]) - 1 = j - (off[i] + 1)
      BY <2>2, <2>3, <2>4
    <3>2. b[j] = c[j - off[i]]
      BY <2>2, <3>1
    <3>3. c[j - off[i]] \in Samples!Later(c[1], (j - off[i]) - 1)
      BY <2>1, <3>1
    <3> QED  BY <2>5, <3>1, <3>2, <3>3
  <2> QED  BY <2>1, <2>2, <2>4, <2>5, <2>6 DEF c
<1> DEFINE S == {j \in 1 .. m + 1 : off[j] <= p}
           top == Archive!Max(S)
           q == top - 1
<1>7. p \in Nat /\ p <= Len(b) /\ Len(b) \in Nat
  BY <1>2 DEF b
<1>8. top \in S /\ \A j \in S : top >= j
  <2>1. 1 \in S
    BY <1>3, <1>5, <1>7
  <2> HIDE DEF S
  <2>2. m + 1 \in Nat /\ S \in SUBSET (1 .. m + 1)
    BY <1>3 DEF S
  <2> QED  BY <2>1, <2>2, MaxOfSome
<1>9. /\ q \in 0 .. m /\ off[q + 1] \in Nat /\ off[q + 1] <= p
      /\ q = m \/ p < off[q + 2]
  <2> HIDE DEF top
  <2>1. top \in 1 .. m + 1 /\ off[top] <= p /\ q + 1 = top /\ q + 2 = top + 1 /\ q \in 0 .. m
    BY <1>3, <1>8
  <2>2. CASE q # m
    <3>1. top + 1 \in 1 .. m + 1 /\ ~(top >= top + 1)
      BY <1>3, <2>1, <2>2
    <3>2. ~(off[top + 1] <= p)
      BY <1>8, <3>1
    <3>3. off[top + 1] \in Nat
      BY <1>5, <3>1
    <3> QED  BY <1>5, <1>7, <2>1, <3>2, <3>3
  <2> QED  BY <1>5, <2>1, <2>2
<1> HIDE DEF S, top, q
<1>10. pre \in Seq(0 .. 255) /\ Len(pre) = p /\ \A j \in 1 .. p : pre[j] = b[j]
  <2>1. p - 1 + 1 = p /\ 1 \in 1 .. Len(b) + 1 /\ 1 <= p + 1 /\ \A j \in 1 .. p : 1 + j - 1 = j
    BY <1>7
  <2> QED  BY <1>2, <1>7, <2>1, PartOf
<1> HIDE DEF pre
<1> DEFINE part == SubSeq(l, 1, q)
           at == [k \in 1 .. q + 1 |-> off[k]]
<1>11. part \in Seq(DOMAIN C) /\ Len(part) = q /\ \A k \in 1 .. q : part[k] = l[k]
  BY <1>1, <1>3, <1>9 DEF m
<1>12. \A k \in 1 .. q + 1 : at[k] = off[k]
  OBVIOUS
<1> HIDE DEF part
<1>13. LettersAt(pre, at, part, q)
  <2>1. \A k \in 1 .. q + 1 : off[k] \in 0 .. p
    <3> SUFFICES ASSUME NEW k \in 1 .. q + 1 PROVE off[k] \in 0 .. p
      OBVIOUS
    <3>1. k \in 1 .. m + 1 /\ q + 1 \in 1 .. m + 1 /\ k <= q + 1
      BY <1>3, <1>9
    <3>2. off[k] \in Nat /\ off[k] <= off[q + 1]
      BY <1>5, <3>1
    <3> QED  BY <1>7, <1>9, <3>2
  <2>2. at \in [1 .. q + 1 -> 0 .. Len(pre)]
    BY <1>10, <2>1
  <2>3. at[1] = 0
    BY <1>5, <1>9
  <2> HIDE DEF at
  <2>4. ASSUME NEW k \in 1 .. q
        PROVE  /\ at[k + 1] = at[k] + Samples!Width(pre[at[k] + 1])
               /\ at[k + 1] # at[k]
               /\ \A j \in at[k] + 2 .. at[k + 1] :
                    pre[j] \in Samples!Later(pre[at[k] + 1], j - (at[k] + 1))
               /\ Samples!LetterOf("utf-8", SubSeq(pre, at[k] + 1, at[k + 1])) = part[k]
    <3> DEFINE c == C[l[k]]
               x == off[k]
               y == off[k + 1]
    <3>1. k \in 1 .. m /\ k \in 1 .. q + 1 /\ k + 1 \in 1 .. q + 1
      BY <1>3, <1>9
    <3>2. at[k] = x /\ at[k + 1] = y /\ x \in 0 .. p /\ y \in 0 .. p
      BY <1>12, <2>1, <3>1
    <3>3. /\ y = x + Len(c) /\ Len(c) \in Nat \ {0}
          /\ \A i \in 1 .. Len(c) : b[x + i] = c[i]
          /\ Samples!Width(b[x + 1]) = Len(c)
          /\ \A j \in x + 2 .. y : b[j] \in Samples!Later(b[x + 1], j - (x + 1))
      BY <1>6, <3>1
    <3>4. c \in Seq(0 .. 255) /\ Samples!LetterOf("utf-8", c) = l[k]
      BY <1>1, <1>3, <3>1, LetterIsFound
    <3> HIDE DEF c, x, y
    <3>5. x + 1 \in 1 .. p
      BY <1>7, <3>2, <3>3
    <3>6. SubSeq(pre, x + 1, y) = c
      <4> DEFINE u == SubSeq(pre, x + 1, y)
      <4>1. y - x = Len(c) /\ x + 1 <= y
        BY <3>2, <3>3
      <4>2. u \in Seq(0 .. 255) /\ Len(u) = Len(c) /\ \A i \in 1 .. Len(c) : u[i] = pre[x + i]
        <5>1. u \in Seq(0 .. 255) /\ Len(u) = y - x /\ \A i \in 1 .. y - x : u[i] = pre[(x + 1) + i - 1]
          <6>1. x + 1 \in 1 .. p + 1 /\ y \in 0 .. p /\ x + 1 <= y + 1 /\ x \in Nat /\ y \in Nat
            BY <1>7, <3>2, <4>1
          <6>2. u \in Seq(0 .. 255) /\ Len(u) = y - (x + 1) + 1
                /\ \A i \in 1 .. y - (x + 1) + 1 : u[i] = pre[(x + 1) + i - 1]
            <7>1. /\ pre \in Seq(0 .. 255) /\ x + 1 \in 1 .. Len(pre) + 1 /\ y \in 0 .. Len(pre)
                  /\ x + 1 <= y + 1
              BY <1>10, <6>1
            <7> QED  BY ONLY <7>1, PartOf
          <6>3. y - (x + 1) + 1 = y - x
            BY <6>1
          <6> QED  BY <6>2, <6>3
        <5> HIDE DEF u
        <5>2. \A i \in 1 .. Len(c) : (x + 1) + i - 1 = x + i
          BY <3>2, <3>3
        <5> QED  BY <4>1, <5>1, <5>2
      <4> HIDE DEF u
      <4>3. ASSUME NEW i \in 1 .. Len(c)
            PROVE  u[i] = c[i]
        <5>1. x + i \in 1 .. p
          BY <1>7, <3>2, <3>3
        <5> QED  BY <1>10, <3>3, <4>2, <5>1
      <4>4. u = c
        BY <3>4, <4>2, <4>3, SeqEqual
      <4> QED  BY <4>4 DEF u
    <3>7. \A j \in x + 2 .. y : pre[j] \in Samples!Later(pre[x + 1], j - (x + 1))
      <4>1. \A j \in x + 2 .. y : j \in 1 .. p
        BY <1>7, <3>2
      <4>2. pre[x + 1] = b[x + 1] /\ \A j \in x + 2 .. y : pre[j] = b[j]
        BY <1>10, <3>5, <4>1
      <4> QED  BY <3>3, <4>2
    <3>8. y # x /\ y = x + Samples!Width(pre[x + 1])
      <4>1. y # x
        BY <3>2, <3>3
      <4>2. pre[x + 1] = b[x + 1]
        BY <1>10, <3>5
      <4> QED  BY <3>3, <4>1, <4>2
    <3> QED  BY <1>11, <3>2, <3>4, <3>6, <3>7, <3>8
  <2> QED  BY <2>2, <2>3, <2>4 DEF LettersAt
<1>14. EndsAt(pre, off[q + 1])
  <2>1. CASE off[q + 1] # p
    <3>1. q # m
      BY <1>5, <1>7, <1>9, <2>1
    <3> DEFINE i == q + 1
               x == off[i]
               y == off[i + 1]
    <3>2. i \in 1 .. m /\ i + 1 = q + 2
      BY <1>3, <1>9, <3>1
    <3>3. x < p /\ p < y /\ x \in Nat
      BY <1>7, <1>9, <2>1, <3>1, <3>2
    <3>4. /\ y = x + Samples!Width(b[x + 1]) /\ Samples!Width(b[x + 1]) \in Nat \ {0}
          /\ \A j \in x + 2 .. y : b[j] \in Samples!Later(b[x + 1], j - (x + 1))
      BY <1>6, <3>2
    <3> HIDE DEF x, y
    <3>5. x + 1 \in 1 .. p /\ \A j \in x + 2 .. p : j \in x + 2 .. y /\ j \in 1 .. p
      BY <1>7, <3>3, <3>4
    <3>6. EndsAt(pre, x)
      BY <1>7, <1>10, <3>3, <3>4, <3>5 DEF EndsAt
    <3> QED  BY <3>6 DEF x
  <2> QED  BY <1>10, <2>1 DEF EndsAt
<1>15. Samples!Utf8(pre) = [letters |-> part, bad |-> FALSE, open |-> off[q + 1] # p]
  <2>1. at[q + 1] = off[q + 1] /\ Len(pre) \in Nat
    BY <1>7, <1>9, <1>10
  <2> HIDE DEF at
  <2> QED  BY <1>10, <1>11, <1>13, <1>14, <2>1, LettersAreRead
<1>16. p = Len(b) => q = m /\ off[q + 1] = p
  <2> SUFFICES ASSUME p = Len(b) PROVE q = m
    BY <1>5
  <2>1. q # m => q + 2 \in 1 .. m + 1 /\ q + 2 <= m + 1 /\ m + 1 \in 1 .. m + 1
    BY <1>3, <1>9
  <2>2. q # m => off[q + 2] <= p /\ off[q + 2] \in Nat
    BY <1>5, <2>1
  <2> QED  BY <1>7, <1>9, <2>2
<1> DEFINE read == Samples!Utf8(pre)
<1>17. read.letters = part /\ ~read.bad /\ (off[q + 1] = p => ~read.open)
  <2> DEFINE no == FALSE
             open == off[q + 1] # p
  <2>1. read = [letters |-> part, bad |-> no, open |-> open]
    BY <1>15
  <2> HIDE DEF read, no, open
  <2>2. read.letters = part /\ read.bad = no /\ read.open = open
    BY <2>1
  <2> QED  BY <2>2 DEF no, open
<1>18. q \in 0 .. m
  BY <1>9
<1> HIDE DEF read, at
<1>19. /\ read.letters = SubSeq(l, 1, q) /\ ~read.bad
       /\ p = Len(b) => q = m /\ ~read.open
  BY <1>16, <1>17 DEF part
<1> QED  BY <1>18, <1>19 DEF read, pre, m, l, b

\* b is the letters l in the encoding e, a byte each.
Singles(b, e, l) ==
  /\ e \in DOMAIN Code /\ b \in Seq(0 .. 255) /\ l \in Seq(DOMAIN Code[e]) /\ Len(b) = Len(l)
  /\ \A i \in 1 .. Len(l) : b[i] = Code[e][l[i]][1] /\ <<b[i]>> = Code[e][l[i]]

\* The bytes of a text are, but for UTF-8.
LEMMA BytesAreSingles ==
  ASSUME NEW t \in Written, t.encoding \in {"cp1251", "koi8-r"}
  PROVE  Singles(Samples!Bytes(t), t.encoding, t.letters)
<1> DEFINE e == t.encoding
           b == Samples!Bytes(t)
           l == t.letters
<1>0. t \in Written /\ e \in {"cp1251", "koi8-r"} /\ e = t.encoding /\ b = Samples!Bytes(t) /\ l = t.letters
  OBVIOUS
<1>2. b \in Seq(0 .. 255) /\ \E off : Spells(b, off, e, l)
  BY BytesSpell
<1>1. /\ e \in DOMAIN Code /\ l \in Seq(DOMAIN Code[e])
      /\ \A c \in DOMAIN Code[e] : Code[e][c] \in Seq(0 .. 255) /\ Len(Code[e][c]) = 1
  BY CodeAssumption
<1> HIDE DEF e, b, l
<1> DEFINE C == Code[e]
           m == Len(l)
<1>3. m \in Nat /\ \A i \in 1 .. m : l[i] \in DOMAIN C
  BY <1>1
<1>4. PICK off : Spells(b, off, e, l)
  BY <1>2
<1> HIDE DEF m
<1>5. /\ off \in [1 .. m + 1 -> Nat] /\ off[1] = 0 /\ Len(b) = off[m + 1]
      /\ \A i \in 1 .. m : off[i + 1] = off[i] + Len(C[l[i]])
      /\ \A i \in 1 .. m : \A k \in 1 .. Len(C[l[i]]) : b[off[i] + k] = C[l[i]][k]
  BY <1>4 DEF Spells, m
<1> HIDE DEF C
<1> DEFINE S == {i \in Nat : i <= m => off[i + 1] = i}
<1>6. S = Nat
  <2>1. 0 \in S
    BY <1>5
  <2>2. ASSUME NEW i \in S
        PROVE  i + 1 \in S
    <3> SUFFICES ASSUME i + 1 <= m PROVE off[(i + 1) + 1] = i + 1
      OBVIOUS
    <3>1. i \in Nat /\ i + 1 \in 1 .. m /\ i <= m
      BY <1>3
    <3>2. off[i + 1] = i
      BY <3>1
    <3>3. Len(C[l[i + 1]]) = 1
      BY <1>1, <1>3, <3>1 DEF C
    <3> QED  BY <1>5, <3>1, <3>2, <3>3
  <2>3. S \in SUBSET Nat
    OBVIOUS
  <2> HIDE DEF S
  <2> QED  BY <2>1, <2>2, <2>3, Induction
<1>7. \A i \in 0 .. m : off[i + 1] = i
  <2>1. \A i \in 0 .. m : i \in S /\ i <= m
    <3> HIDE DEF S
    <3> QED  BY <1>3, <1>6
  <2> QED  BY <2>1
<1>8. Len(b) = m
  BY <1>3, <1>5, <1>7
<1>9. ASSUME NEW i \in 1 .. m
      PROVE  b[i] = C[l[i]][1] /\ <<b[i]>> = C[l[i]]
  <2>1. i - 1 \in 0 .. m /\ (i - 1) + 1 = i
    BY <1>3
  <2>2. off[i] = i - 1
    BY <1>7, <2>1
  <2> DEFINE c == C[l[i]]
  <2>3. c \in Seq(0 .. 255) /\ Len(c) = 1
    BY <1>1, <1>3 DEF C
  <2>4. \A k \in 1 .. Len(c) : b[off[i] + k] = c[k]
    BY <1>5
  <2> HIDE DEF c
  <2>5. b[i] = c[1]
    <3>1. 1 \in 1 .. Len(c)
      BY <2>3
    <3> QED  BY <2>1, <2>2, <2>4, <3>1
  <2>6. <<c[1]>> = c
    BY <2>3
  <2> QED  BY <2>5, <2>6 DEF c
<1> QED  BY <1>1, <1>2, <1>8, <1>9 DEF Singles, m, C, b, e, l

\* So they are read one by one.
LEMMA SinglesAreRead ==
  ASSUME NEW b, NEW e, NEW l, Singles(b, e, l), NEW n \in 0 .. Len(l)
  PROVE  Samples!OneByte(e, SubSeq(b, 1, n)) = SubSeq(l, 1, n)
<1> DEFINE x == SubSeq(b, 1, n)
           y == SubSeq(l, 1, n)
           L == DOMAIN Code[e]
<1>1. /\ e \in DOMAIN Code /\ b \in Seq(0 .. 255) /\ l \in Seq(L) /\ Len(b) = Len(l)
      /\ \A i \in 1 .. Len(l) : <<b[i]>> = Code[e][l[i]]
  BY DEF Singles
<1> HIDE DEF L
<1>2. Len(l) \in Nat /\ n \in 0 .. Len(b) /\ \A i \in 1 .. Len(l) : l[i] \in L
  BY <1>1
<1>3. x \in Seq(0 .. 255) /\ Len(x) = n /\ \A i \in 1 .. n : x[i] = b[i]
  BY <1>1, <1>2, StartOf
<1>4. y \in Seq(L) /\ Len(y) = n /\ \A i \in 1 .. n : y[i] = l[i]
  BY <1>1, <1>2, StartOf
<1> HIDE DEF x, y
<1>5. DOMAIN x = 1 .. n /\ y = [i \in 1 .. n |-> y[i]]
  BY <1>3, <1>4
<1>6. ASSUME NEW i \in 1 .. n
      PROVE  Samples!LetterOf(e, <<x[i]>>) = y[i]
  <2>1. i \in 1 .. Len(l)
    BY <1>2
  <2>2. l[i] \in DOMAIN Code[e] /\ <<x[i]>> = Code[e][l[i]] /\ y[i] = l[i]
    BY <1>1, <1>2, <1>3, <1>4, <2>1 DEF L
  <2> QED  BY <1>1, <2>2, LetterIsFound
<1>7. Samples!OneByte(e, x) = [i \in 1 .. n |-> Samples!LetterOf(e, <<x[i]>>)]
  BY <1>5 DEF Samples!OneByte
<1>8. Samples!OneByte(e, x) = y
  BY <1>5, <1>6, <1>7
<1> QED  BY <1>8 DEF x, y

\* One more letter changes nothing else.
LEMMA LongerKeeps ==
  ASSUME NEW text, DOMAIN text = {"letters", "bad", "open"}, NEW c
  PROVE  DOMAIN Longer(text, c) = {"letters", "bad", "open"} /\ Longer(text, c).bad = text.bad
BY DEF Longer

\* Where no byte continues a letter, nothing is bad only if all but the last are ASCII.
LEMMA OnlyTheLast ==
  ASSUME NEW b \in Seq(0 .. 255), \A i \in 1 .. Len(b) : b[i] \notin 128 .. 191, ~Samples!Utf8(b).bad
  PROVE  \A i \in 1 .. Len(b) : Samples!Width(b[i]) # 0 /\ (i < Len(b) => b[i] < 128)
<1> DEFINE n == Len(b)
           Fine(i) == Samples!Width(b[i]) # 0 /\ (i < n => b[i] < 128)
<1>1. n \in Nat /\ \A i \in 1 .. n : b[i] \in 0 .. 255
  BY MembersOf
<1>2. PICK f : /\ Samples!Utf8(b) = f[1]
               /\ \A i \in 1 .. n + 1 : f[i] = TextFrom(b, f, i)
  BY <1>1, Utf8Decodes
<1> HIDE DEF n
<1> DEFINE Good(i) == /\ DOMAIN f[i] = {"letters", "bad", "open"}
                      /\ ~f[i].bad => \A j \in i .. n : Fine(j)
           S == {d \in Nat : d <= n => Good(n + 1 - d)}
<1>3. Good(n + 1)
  <2>1. f[n + 1] = TextFrom(b, f, n + 1) /\ n + 1 > n
    BY <1>1, <1>2
  <2>2. f[n + 1] = [letters |-> <<>>, bad |-> FALSE, open |-> FALSE]
    BY <2>1 DEF TextFrom, TextWith, n
  <2>3. \A j \in n + 1 .. n : FALSE
    BY <1>1
  <2> QED  BY <2>2, <2>3
<1>4. ASSUME NEW i \in 1 .. n, Good(i + 1)
      PROVE  Good(i)
  <2> DEFINE w == Samples!Width(b[i])
  <2>1. f[i] = TextFrom(b, f, i) /\ ~(i > Len(b)) /\ i \in 1 .. n + 1 /\ b[i] \in 0 .. 255
    <3>1. i \in 1 .. n + 1 /\ ~(i > n)
      BY <1>1
    <3>2. f[i] = TextFrom(b, f, i)
      BY <1>2, <3>1
    <3> QED  BY <1>1, <3>1, <3>2 DEF n
  <2>2. w \in 0 .. 4 /\ (b[i] < 128 => w = 1) /\ (w = 1 => b[i] < 128) /\ Samples!Width(b[i]) = w
    BY <2>1 DEF Samples!Width
  <2> DEFINE broken == w = 0 \/ \E j \in i + 1 .. (i + w) - 1 : j <= Len(b) /\ b[j] \notin Samples!Later(b[i], j - i)
  <2> HIDE DEF w
  <2>3. CASE broken
    <3>1. f[i] = [letters |-> <<>>, bad |-> TRUE, open |-> FALSE]
      BY <2>1, <2>3 DEF TextFrom, TextWith, w
    <3> QED  BY <3>1
  <2>4. CASE ~broken
    <3>1. TextFrom(b, f, i) =
            IF i + w > Len(b) + 1 THEN [letters |-> <<>>, bad |-> FALSE, open |-> TRUE]
            ELSE Longer(f[i + w], Samples!LetterOf("utf-8", SubSeq(b, i, (i + w) - 1)))
      <4>1. w # 0 /\ ~\E j \in i + 1 .. (i + w) - 1 : j <= Len(b) /\ b[j] \notin Samples!Later(b[i], j - i)
        BY <2>4
      <4>2. Samples!Width(b[i]) = w /\ ~(i > Len(b))
        BY <2>1, <2>2
      <4> HIDE DEF broken, Good, Fine
      <4> QED  BY <4>1, <4>2, TextFromLetter
    <3>2. i < n => w = 1
      <4> SUFFICES ASSUME i < n, w # 1 PROVE FALSE
        OBVIOUS
      <4>1. i + 1 \in i + 1 .. (i + w) - 1 /\ i + 1 <= Len(b) /\ i + 1 \in 1 .. n
        BY <1>1, <2>2, <2>4 DEF n
      <4>2. b[i + 1] \notin Samples!Later(b[i], (i + 1) - i)
        <5>1. b[i + 1] \notin 128 .. 191
          BY <4>1 DEF n
        <5> QED  BY <5>1 DEF Samples!Later
      <4> QED  BY <2>4, <4>1, <4>2
    <3>3. Fine(i)
      BY <2>2, <2>4, <3>2
    <3>4. CASE w = 1
      <4>1. ~(i + w > Len(b) + 1) /\ i + w = i + 1
        BY <1>1, <3>4 DEF n
      <4>2. f[i] = Longer(f[i + 1], Samples!LetterOf("utf-8", SubSeq(b, i, (i + w) - 1)))
        BY <2>1, <3>1, <4>1
      <4>3. DOMAIN f[i] = {"letters", "bad", "open"} /\ f[i].bad = f[i + 1].bad
        <5> DEFINE text == f[i + 1]
        <5>1. DOMAIN text = {"letters", "bad", "open"}
          BY <1>4
        <5> HIDE DEF text
        <5>2. \A c : DOMAIN Longer(text, c) = {"letters", "bad", "open"} /\ Longer(text, c).bad = text.bad
          BY <5>1, LongerKeeps
        <5> QED  BY <4>2, <5>2 DEF text
      <4>4. \A j \in i .. n : j = i \/ j \in i + 1 .. n
        BY <1>1
      <4> HIDE DEF Fine
      <4> QED  BY <1>4, <3>3, <4>3, <4>4
    <3>5. CASE w # 1
      <4>1. i = n /\ i + w > Len(b) + 1
        BY <1>1, <2>2, <2>4, <3>2, <3>5 DEF n
      <4>2. f[i] = [letters |-> <<>>, bad |-> FALSE, open |-> TRUE]
        BY <2>1, <3>1, <4>1
      <4>3. DOMAIN f[i] = {"letters", "bad", "open"}
        BY <4>2
      <4>4. \A j \in i .. n : j = i
        BY <1>1, <4>1
      <4> HIDE DEF Fine
      <4> QED  BY <3>3, <4>3, <4>4
    <3> QED  BY <3>4, <3>5
  <2> QED  BY <2>3, <2>4
<1> HIDE DEF Good
<1>5. S = Nat
  <2>1. 0 \in S
    <3>1. n + 1 - 0 = n + 1
      BY <1>1
    <3> QED  BY <1>3, <3>1
  <2>2. ASSUME NEW d \in S
        PROVE  d + 1 \in S
    <3> SUFFICES ASSUME d + 1 <= n PROVE Good(n + 1 - (d + 1))
      OBVIOUS
    <3> DEFINE i == n + 1 - (d + 1)
    <3>1. d \in Nat /\ d <= n /\ i \in 1 .. n /\ n + 1 - d = i + 1
      BY <1>1
    <3>2. Good(n + 1 - d)
      BY <3>1
    <3> HIDE DEF i
    <3>3. Good(i)
      BY <1>4, <3>1, <3>2
    <3> QED  BY <3>3 DEF i
  <2>3. S \in SUBSET Nat
    OBVIOUS
  <2> HIDE DEF S
  <2> QED  BY <2>1, <2>2, <2>3, Induction
<1>6. Good(1)
  <2>1. n \in S /\ n <= n /\ n + 1 - n = 1
    <3> HIDE DEF S
    <3> QED  BY <1>1, <1>5
  <2>2. Good(n + 1 - n)
    BY <2>1
  <2> QED  BY <2>1, <2>2
<1> QED  BY <1>2, <1>6 DEF Good, n

\* Only ASCII is a byte a letter.
LEMMA WidthOfAscii == \A x \in 0 .. 255 : x < 128 <=> Samples!Width(x) = 1
BY DEF Samples!Width

\* A part of one member
LEMMA OneOf ==
  ASSUME NEW T, NEW s \in Seq(T), NEW k \in 1 .. Len(s)
  PROVE  SubSeq(s, k, k) = <<s[k]>>
<1> DEFINE x == SubSeq(s, k, k)
<1>1. Len(s) \in Nat /\ s[k] \in T
  BY MembersOf
<1>2. /\ k \in 1 .. Len(s) + 1 /\ k \in 0 .. Len(s) /\ k <= k + 1
      /\ k - k + 1 = 1 /\ 1 \in 1 .. 1 /\ k + 1 - 1 = k
  BY <1>1
<1>3. x \in Seq(T) /\ Len(x) = 1 /\ x[1] = s[k]
  BY <1>2, PartOf
<1> HIDE DEF x
<1>4. x = <<x[1]>>
  BY <1>3
<1> QED  BY <1>3, <1>4 DEF x

\* ASCII is read as its letters, and the beginning of a letter at the end is dropped.
LEMMA AsciiIsRead ==
  ASSUME NEW b \in Seq(0 .. 255), NEW T, NEW l \in Seq(T), NEW q, q = Len(l), q \in 0 .. Len(b),
         \A i \in 1 .. q : b[i] < 128 /\ Samples!LetterOf("utf-8", <<b[i]>>) = l[i],
         \/ q = Len(b)
         \/ (q = Len(b) - 1 /\ b[Len(b)] >= 128 /\ Samples!Width(b[Len(b)]) # 0)
  PROVE  LET read == Samples!Utf8(b) IN
         read.letters = l /\ ~read.bad /\ (read.open <=> q # Len(b))
<1> DEFINE off == [k \in 1 .. q + 1 |-> k - 1]
           n == Len(b)
<1>1. n \in Nat /\ (\A i \in 1 .. n : b[i] \in 0 .. 255) /\ q \in Nat /\ q <= n
  BY MembersOf
<1>2. \A k \in 1 .. q + 1 : off[k] = k - 1
  OBVIOUS
<1>3. LettersAt(b, off, l, q)
  <2>1. off \in [1 .. q + 1 -> 0 .. n] /\ off[1] = 0
    BY <1>1
  <2> HIDE DEF off
  <2>2. ASSUME NEW k \in 1 .. q
        PROVE  /\ off[k + 1] = off[k] + Samples!Width(b[off[k] + 1])
               /\ off[k + 1] # off[k]
               /\ \A j \in off[k] + 2 .. off[k + 1] :
                    b[j] \in Samples!Later(b[off[k] + 1], j - (off[k] + 1))
               /\ Samples!LetterOf("utf-8", SubSeq(b, off[k] + 1, off[k + 1])) = l[k]
    <3>1. off[k] = k - 1 /\ off[k + 1] = k /\ (k - 1) + 1 = k /\ k \in 1 .. n
      BY <1>1, <1>2
    <3>2. Samples!Width(b[k]) = 1
      BY <1>1, <3>1, WidthOfAscii
    <3>3. SubSeq(b, k, k) = <<b[k]>>
      BY <3>1, OneOf DEF n
    <3>4. \A j \in (k - 1) + 2 .. k : FALSE
      BY <1>1
    <3>5. k = (k - 1) + 1 /\ k # k - 1
      BY <1>1
    <3> QED  BY <3>1, <3>2, <3>3, <3>4, <3>5
  <2> HIDE DEF n
  <2> QED  BY <2>1, <2>2 DEF LettersAt, n
<1>4. off[q + 1] = q
  BY <1>1, <1>2
<1>5. EndsAt(b, q)
  <2>1. CASE q = n
    BY <2>1 DEF EndsAt
  <2>2. CASE q # n
    <3> DEFINE w == Samples!Width(b[q + 1])
    <3>1. q + 1 = n /\ b[q + 1] >= 128 /\ w # 0 /\ b[q + 1] \in 0 .. 255
      BY <1>1, <2>2
    <3>2. w >= 2 /\ w \in 0 .. 4
      <4>0. \A v \in 0 .. 255 : v >= 128 => Samples!Width(v) # 1
        BY DEF Samples!Width
      <4>1. w # 1 /\ w \in 0 .. 4
        BY <3>1, <4>0, WidthType
      <4> HIDE DEF w
      <4> QED  BY <3>1, <4>1
    <3> HIDE DEF w
    <3>3. q + w > n /\ \A j \in q + 2 .. n : FALSE
      BY <1>1, <3>1, <3>2
    <3> QED  BY <3>1, <3>3 DEF EndsAt, w, n
  <2> QED  BY <2>1, <2>2
<1> HIDE DEF off
<1> DEFINE read == Samples!Utf8(b)
           no == FALSE
           open == q # n
<1>6. read = [letters |-> l, bad |-> no, open |-> open]
  <2>1. Samples!Utf8(b) = [letters |-> l, bad |-> FALSE, open |-> off[Len(l) + 1] # Len(b)]
    BY <1>1, <1>3, <1>4, <1>5, LettersAreRead
  <2> QED  BY <1>4, <2>1
<1> HIDE DEF read, no, open
<1>7. read.letters = l /\ read.bad = no /\ read.open = open
  BY <1>6
<1> QED  BY <1>7 DEF read, no, open, n

\* The first p bytes of b are read in UTF-8 as those of the letters l that are ASCII, up to
\* a last one that is not.
ReadsAscii(b, l, p) ==
  \E q \in 0 .. p :
    /\ Samples!Utf8(SubSeq(b, 1, p)).letters = SubSeq(l, 1, q)
    /\ (Samples!Utf8(SubSeq(b, 1, p)).open <=> q # p)
    /\ \A i \in 1 .. q : b[i] < 128
    /\ q = p \/ (q = p - 1 /\ b[p] >= 128)

\* A text that begins in bytes none of which continues a letter is read in UTF-8 only if
\* it is ASCII up to a last letter.
LEMMA SinglesInUtf8 ==
  ASSUME NEW b, NEW e \in {"cp1251", "koi8-r"}, NEW l, Singles(b, e, l), NEW p \in 0 .. Len(b),
         \A i \in 1 .. p : b[i] \notin 128 .. 191,
         ~Samples!Utf8(SubSeq(b, 1, p)).bad
  PROVE  ReadsAscii(b, l, p)
<1> DEFINE x == SubSeq(b, 1, p)
           L == DOMAIN Code[e]
           U == Code["utf-8"]
           q == IF p # 0 /\ b[p] >= 128 THEN p - 1 ELSE p
           y == SubSeq(l, 1, q)
<1>1. /\ e \in DOMAIN Code /\ b \in Seq(0 .. 255) /\ l \in Seq(L) /\ Len(b) = Len(l)
      /\ \A i \in 1 .. Len(l) : b[i] = Code[e][l[i]][1] /\ <<b[i]>> = Code[e][l[i]]
  BY DEF Singles
<1>2. \A c \in L : Code[e][c][1] < 128 => c \in DOMAIN U /\ U[c] = Code[e][c]
  BY <1>1, CodeAssumption
<1> HIDE DEF L, U
<1>3. /\ Len(b) \in Nat /\ p \in Nat /\ p <= Len(b)
      /\ (\A i \in 1 .. Len(b) : b[i] \in 0 .. 255) /\ (\A i \in 1 .. Len(l) : l[i] \in L)
  <2>1. Len(b) \in Nat /\ \A i \in 1 .. Len(b) : b[i] \in 0 .. 255
    <3>1. b \in Seq(0 .. 255)
      BY <1>1
    <3> QED  BY ONLY <3>1, MembersOf
  <2>2. \A i \in 1 .. Len(l) : l[i] \in L
    BY <1>1, MembersOf
  <2> QED  BY <2>1, <2>2
<1>4. x \in Seq(0 .. 255) /\ Len(x) = p /\ \A i \in 1 .. p : x[i] = b[i]
  BY <1>1, StartOf
<1>5. q \in 0 .. p /\ (q = p \/ (q = p - 1 /\ b[p] >= 128 /\ p # 0))
  BY <1>3
<1>6. \A i \in 1 .. p : Samples!Width(b[i]) # 0 /\ (i < p => b[i] < 128)
  <2> HIDE DEF x
  <2>1. (\A i \in 1 .. Len(x) : x[i] \notin 128 .. 191) /\ ~Samples!Utf8(x).bad
    BY <1>4 DEF x
  <2>2. \A i \in 1 .. Len(x) : Samples!Width(x[i]) # 0 /\ (i < Len(x) => x[i] < 128)
    BY <1>4, <2>1, OnlyTheLast
  <2> QED  BY <1>4, <2>2
<1>7. \A i \in 1 .. q : b[i] < 128
  <2> SUFFICES ASSUME NEW i \in 1 .. q PROVE b[i] < 128
    OBVIOUS
  <2>1. i \in 1 .. p /\ i \in 1 .. Len(b)
    BY <1>3, <1>5
  <2>2. CASE i < p
    BY <1>6, <2>1, <2>2
  <2>3. CASE ~(i < p)
    <3>1. i = p /\ q = p /\ p # 0
      BY <1>3, <1>5, <2>1, <2>3
    <3>2. ~(b[p] >= 128)
      BY <1>3, <3>1
    <3>3. b[p] \in 0 .. 255
      BY <1>3, <2>1, <3>1
    <3>4. b[p] < 128
      <4>1. \A v \in 0 .. 255 : ~(v >= 128) => v < 128
        OBVIOUS
      <4> QED  BY ONLY <3>2, <3>3, <4>1
    <3> HIDE DEF q
    <3> QED  BY <3>1, <3>4
  <2> QED  BY <2>2, <2>3
<1> HIDE DEF q
<1>8. y \in Seq(L) /\ Len(y) = q /\ \A i \in 1 .. q : y[i] = l[i]
  BY <1>1, <1>3, <1>5, StartOf
<1> HIDE DEF x, y
<1>9. ASSUME NEW i \in 1 .. q
      PROVE  x[i] < 128 /\ Samples!LetterOf("utf-8", <<x[i]>>) = y[i]
  <2>1. i \in 1 .. p /\ i \in 1 .. Len(l)
    BY <1>1, <1>3, <1>5
  <2>2. b[i] < 128 /\ b[i] = Code[e][l[i]][1] /\ <<b[i]>> = Code[e][l[i]] /\ l[i] \in L
    BY <1>1, <1>3, <1>7, <2>1
  <2>3. l[i] \in DOMAIN U /\ <<b[i]>> = U[l[i]]
    BY <1>2, <2>2
  <2>4. Samples!LetterOf("utf-8", <<b[i]>>) = l[i]
    <3>1. "utf-8" \in DOMAIN Code
      BY CodeAssumption
    <3> QED  BY <2>3, <3>1, LetterIsFound DEF U
  <2> QED  BY <1>4, <1>8, <2>1, <2>2, <2>4
<1>10. q = p - 1 /\ b[p] >= 128 /\ p # 0 => x[Len(x)] >= 128 /\ Samples!Width(x[Len(x)]) # 0
  <2>1. p # 0 => p \in 1 .. p
    BY <1>3
  <2> QED  BY <1>4, <1>6, <2>1
<1>11. /\ Samples!Utf8(x).letters = y
       /\ (Samples!Utf8(x).open <=> q # p)
  <2>1. /\ q = Len(y) /\ q \in 0 .. Len(x)
        /\ \/ q = Len(x)
           \/ (q = Len(x) - 1 /\ x[Len(x)] >= 128 /\ Samples!Width(x[Len(x)]) # 0)
    BY <1>4, <1>5, <1>8, <1>10
  <2> DEFINE read == Samples!Utf8(x)
  <2>2. LET r == Samples!Utf8(x) IN r.letters = y /\ ~r.bad /\ (r.open <=> q # Len(x))
    <3>1. \A i \in 1 .. q : x[i] < 128 /\ Samples!LetterOf("utf-8", <<x[i]>>) = y[i]
      BY <1>9
    <3>2. x \in Seq(0 .. 255) /\ y \in Seq(L)
      BY <1>4, <1>8
    <3> QED  BY ONLY <2>1, <3>1, <3>2, AsciiIsRead
  <2>3. read.letters = y /\ (read.open <=> q # Len(x))
    BY <2>2
  <2> HIDE DEF read
  <2>4. read.open <=> q # p
    BY <1>4, <2>3
  <2> QED  BY <2>3, <2>4 DEF read
<1> QED  BY <1>5, <1>7, <1>11 DEF x, y, ReadsAscii

\* What counts of the first n bytes, when f has what counts of more
EnoughOf(b, f, n) ==
  LET read == Samples!Utf8(Samples!Upto(b, n)) IN
  IF n >= Len(b) \/ read.bad \/ Len(read.letters) >= Size THEN read ELSE f[n + Size]

\* f has it from n bytes on.
Counts(f, b, k) == f = [n \in k .. Len(b) + Size |-> EnoughOf(b, f, n)]

\* Only more bytes count.
LEMMA EnoughOfMore ==
  ASSUME NEW b, Len(b) \in Nat, NEW f, NEW g, NEW n \in Nat,
         \A j \in n + 1 .. Len(b) + Size : f[j] = g[j]
  PROVE  EnoughOf(b, f, n) = EnoughOf(b, g, n)
<1>0. Size \in Nat \ {0}
  BY CodeAssumption
<1>1. CASE n >= Len(b)
  BY <1>1 DEF EnoughOf
<1>2. CASE ~(n >= Len(b))
  <2>1. n + Size \in n + 1 .. Len(b) + Size
    BY <1>0, <1>2
  <2>2. f[n + Size] = g[n + Size]
    BY <2>1
  <2> QED  BY <2>2 DEF EnoughOf
<1> QED  BY <1>1, <1>2

\* There is such a function.
LEMMA CountsExists ==
  ASSUME NEW b, Len(b) \in Nat
  PROVE  \E f : Counts(f, b, 0)
<1> DEFINE m == Len(b) + Size
           S == {d \in Nat : d <= m => \E f : Counts(f, b, m - d)}
<1>0. Size \in Nat \ {0} /\ m \in Nat /\ Len(b) <= m
  BY CodeAssumption
<1> HIDE DEF m
<1>1. 0 \in S
  <2> DEFINE last == Samples!Utf8(Samples!Upto(b, m))
             g == [n \in m .. m |-> last]
  <2>1. \A n \in m .. m : EnoughOf(b, g, n) = last
    <3> SUFFICES ASSUME NEW n \in m .. m PROVE EnoughOf(b, g, n) = last
      OBVIOUS
    <3>1. n = m /\ n >= Len(b)
      BY <1>0
    <3> HIDE DEF g
    <3> QED  BY <3>1 DEF EnoughOf
  <2> HIDE DEF last
  <2>2. g = [n \in m .. m |-> EnoughOf(b, g, n)]
    BY <2>1
  <2> HIDE DEF g
  <2>3. Counts(g, b, m)
    BY <2>2 DEF Counts, m
  <2>4. m - 0 = m
    BY <1>0
  <2> QED  BY <2>3, <2>4
<1>2. ASSUME NEW d \in S
      PROVE  d + 1 \in S
  <2> SUFFICES ASSUME d + 1 <= m PROVE \E f : Counts(f, b, m - (d + 1))
    OBVIOUS
  <2> DEFINE k == m - (d + 1)
  <2>1. d \in Nat /\ k \in Nat /\ k <= m /\ m - d = k + 1
    BY <1>0
  <2>2. PICK f : Counts(f, b, k + 1)
    BY <1>0, <2>1
  <2> HIDE DEF k
  <2> DEFINE g == [n \in k .. m |-> IF n = k THEN EnoughOf(b, f, k) ELSE f[n]]
  <2>3. \A n \in k + 1 .. m : g[n] = f[n] /\ f[n] = EnoughOf(b, f, n)
    <3>1. \A n \in k + 1 .. m : f[n] = EnoughOf(b, f, n)
      BY <2>2 DEF Counts, m
    <3>2. \A n \in k + 1 .. m : n \in k .. m /\ n # k
      BY <1>0, <2>1
    <3> QED  BY <3>1, <3>2
  <2>4. g[k] = EnoughOf(b, f, k) /\ g = [n \in k .. m |-> g[n]]
    BY <1>0, <2>1
  <2> HIDE DEF g
  <2>5. ASSUME NEW n \in k .. m
        PROVE  g[n] = EnoughOf(b, g, n)
    <3>1. n \in Nat /\ \A j \in n + 1 .. m : f[j] = g[j]
      BY <1>0, <2>1, <2>3
    <3>2. EnoughOf(b, f, n) = EnoughOf(b, g, n)
      BY <1>0, <3>1, EnoughOfMore DEF m
    <3>3. n = k \/ n \in k + 1 .. m
      BY <1>0, <2>1
    <3> QED  BY <2>3, <2>4, <3>2, <3>3
  <2>6. Counts(g, b, k)
    BY <2>4, <2>5 DEF Counts, m
  <2> QED  BY <2>6 DEF k
<1>3. S = Nat
  <2>1. S \in SUBSET Nat
    OBVIOUS
  <2> HIDE DEF S
  <2> QED  BY <1>1, <1>2, <2>1, Induction
<1>4. m \in S /\ m - m = 0 /\ m <= m
  <2> HIDE DEF S
  <2> QED  BY <1>0, <1>3
<1>5. \E f : Counts(f, b, m - m)
  BY <1>4
<1> QED  BY <1>4, <1>5

\* n bytes are enough.
Enough(b, n) ==
  LET read == Samples!Utf8(Samples!Upto(b, n)) IN
  n >= Len(b) \/ read.bad \/ Len(read.letters) >= Size

\* Enough bytes are read.
LEMMA ReadsEnough ==
  ASSUME NEW b, Len(b) \in Nat
  PROVE  \E n \in Nat :
           LET read == Samples!Utf8(Samples!Upto(b, n)) IN
           /\ Enough(b, n)
           /\ Samples!Read(b) = IF read.bad THEN Samples!OneByte("koi8-r", Samples!Upto(b, Size))
                                ELSE Samples!Upto(read.letters, Size)
<1> DEFINE f == CHOOSE g : Counts(g, b, 0)
           m == Len(b) + Size
           Some(i) == \E n \in Nat : Enough(b, n) /\ f[i] = Samples!Utf8(Samples!Upto(b, n))
           S == {d \in Nat : \A i \in 0 .. m : i + d >= m => Some(i)}
<1>0. Size \in Nat \ {0} /\ m \in Nat /\ Len(b) <= m
  BY CodeAssumption
<1>1. Counts(f, b, 0)
  BY CountsExists
<1>2. Samples!Read(b) = IF f[Size].bad THEN Samples!OneByte("koi8-r", Samples!Upto(b, Size))
                        ELSE Samples!Upto(f[Size].letters, Size)
  BY DEF Samples!Read, Counts, EnoughOf
<1> HIDE DEF f
<1>3. \A i \in 0 .. m : f[i] = EnoughOf(b, f, i)
  BY <1>1 DEF Counts
<1>4. \A i \in 0 .. m : Enough(b, i) => Some(i)
  <2> SUFFICES ASSUME NEW i \in 0 .. m, Enough(b, i) PROVE Some(i)
    OBVIOUS
  <2>1. f[i] = Samples!Utf8(Samples!Upto(b, i)) /\ i \in Nat
    BY <1>3 DEF EnoughOf, Enough
  <2> QED  BY <2>1
<1>5. \A i \in 0 .. m : ~Enough(b, i) => i < Len(b) /\ f[i] = f[i + Size]
  <2>1. \A i \in 0 .. m : ~(i >= Len(b)) => i < Len(b)
    OBVIOUS
  <2> QED  BY <1>3, <2>1 DEF EnoughOf, Enough
<1> HIDE DEF m
<1>6. S = Nat
  <2>1. 0 \in S
    <3> SUFFICES ASSUME NEW i \in 0 .. m, i + 0 >= m PROVE Some(i)
      OBVIOUS
    <3>1. ~(i < Len(b))
      BY <1>0
    <3> HIDE DEF Some
    <3> QED  BY <1>4, <1>5, <3>1
  <2>2. ASSUME NEW d \in S
        PROVE  d + 1 \in S
    <3> SUFFICES ASSUME NEW i \in 0 .. m, i + (d + 1) >= m PROVE Some(i)
      OBVIOUS
    <3>1. CASE Enough(b, i)
      <4> HIDE DEF Some
      <4> QED  BY <1>4, <3>1
    <3>2. CASE ~Enough(b, i)
      <4>1. i < Len(b) /\ f[i] = f[i + Size]
        BY <1>5, <3>2
      <4>2. i + Size \in 0 .. m /\ (i + Size) + d >= m
        BY <1>0, <4>1 DEF m
      <4>3. Some(i + Size)
        <5> HIDE DEF Some
        <5> QED  BY <4>2
      <4> QED  BY <4>1, <4>3
    <3> QED  BY <3>1, <3>2
  <2>3. S \in SUBSET Nat
    OBVIOUS
  <2> HIDE DEF S
  <2> QED  BY <2>1, <2>2, <2>3, Induction
<1>7. m \in S /\ Size \in 0 .. m /\ Size + m >= m
  <2> HIDE DEF S
  <2> QED  BY <1>0, <1>6 DEF m
<1>8. Some(Size)
  BY <1>7
<1> HIDE DEF S
<1>9. PICK n \in Nat : Enough(b, n) /\ f[Size] = Samples!Utf8(Samples!Upto(b, n))
  BY <1>8
<1> QED  BY <1>2, <1>9

\* A beginning that is long enough begins the same way.
LEMMA UptoOfStart ==
  ASSUME NEW T, NEW s \in Seq(T), NEW q \in 0 .. Len(s), NEW n \in Nat, q = Len(s) \/ q >= n
  PROVE  Samples!Upto(SubSeq(s, 1, q), n) = Samples!Upto(s, n)
<1> DEFINE x == SubSeq(s, 1, q)
           k == IF n < Len(s) THEN n ELSE Len(s)
           u == SubSeq(x, 1, k)
           v == SubSeq(s, 1, k)
<1>1. Len(s) \in Nat
  OBVIOUS
<1>2. x \in Seq(T) /\ Len(x) = q /\ \A i \in 1 .. q : x[i] = s[i]
  BY StartOf
<1> HIDE DEF x
<1>3. k \in 0 .. Len(s) /\ k \in 0 .. q /\ k = IF n < q THEN n ELSE q
  BY <1>1
<1>4. Samples!Upto(x, n) = u /\ Samples!Upto(s, n) = v
  BY <1>2, <1>3 DEF Samples!Upto
<1> HIDE DEF k
<1>5. u \in Seq(T) /\ Len(u) = k /\ \A i \in 1 .. k : u[i] = x[i]
  BY <1>2, <1>3, StartOf
<1>6. v \in Seq(T) /\ Len(v) = k /\ \A i \in 1 .. k : v[i] = s[i]
  BY <1>3, StartOf
<1> HIDE DEF u, v
<1>7. \A i \in 1 .. k : u[i] = v[i]
  <2>1. \A i \in 1 .. k : i \in 1 .. q
    BY <1>3
  <2> QED  BY <1>2, <1>5, <1>6, <2>1
<1>8. u = v
  BY <1>5, <1>6, <1>7, SeqEqual
<1> QED  BY <1>4, <1>8 DEF x

\* The whole of a sequence
LEMMA WholeOf == ASSUME NEW T, NEW s \in Seq(T) PROVE SubSeq(s, 1, Len(s)) = s
OBVIOUS

\* The first n bytes are a beginning.
LEMMA UptoIsStart ==
  ASSUME NEW T, NEW s \in Seq(T), NEW n \in Nat
  PROVE  \E p \in 0 .. Len(s) : /\ Samples!Upto(s, n) = SubSeq(s, 1, p)
                                /\ p = IF n < Len(s) THEN n ELSE Len(s)
<1> DEFINE p == IF n < Len(s) THEN n ELSE Len(s)
<1>1. Len(s) \in Nat
  OBVIOUS
<1>2. p \in 0 .. Len(s)
  BY <1>1
<1> QED  BY <1>2 DEF Samples!Upto

\* Enough bytes of a text are shown as the text begins.
LEMMA EnoughIsShown ==
  ASSUME NEW t \in Written, NEW T, t.letters \in Seq(T), NEW q \in 0 .. Len(t.letters),
         q = Len(t.letters) \/ q >= Size
  PROVE  Samples!Upto(SubSeq(t.letters, 1, q), Size) = Samples!Upto(t.letters, Size)
<1>1. Size \in Nat
  BY CodeAssumption
<1> QED  BY <1>1, UptoOfStart

\* A file in UTF-8 is read as it was written.
LEMMA Utf8IsShown ==
  ASSUME NEW t \in Written, t.encoding = "utf-8"
  PROVE  Samples!Read(Samples!Bytes(t)) = Samples!Upto(t.letters, Size)
<1> DEFINE b == Samples!Bytes(t)
           l == t.letters
<1>1. b \in Seq(0 .. 255)
  BY BytesSpell
<1>2. l \in Seq(DOMAIN Code["utf-8"])
  BY CodeAssumption
<1>3. \A p \in 0 .. Len(b) : \E q \in 0 .. Len(l) :
        LET read == Samples!Utf8(SubSeq(b, 1, p)) IN
        /\ read.letters = SubSeq(l, 1, q)
        /\ ~read.bad
        /\ p = Len(b) => q = Len(l)
  BY PrefixIsRead
<1>4. \A q \in 0 .. Len(l) : q = Len(l) \/ q >= Size
        => Samples!Upto(SubSeq(l, 1, q), Size) = Samples!Upto(l, Size)
  BY <1>2, EnoughIsShown
<1> HIDE DEF b, l
<1>5. Len(b) \in Nat
  BY <1>1, MembersOf
<1>6. PICK n \in Nat :
        LET read == Samples!Utf8(Samples!Upto(b, n)) IN
        /\ Enough(b, n)
        /\ Samples!Read(b) = IF read.bad THEN Samples!OneByte("koi8-r", Samples!Upto(b, Size))
                             ELSE Samples!Upto(read.letters, Size)
  BY <1>5, ReadsEnough
<1>7. PICK p \in 0 .. Len(b) : /\ Samples!Upto(b, n) = SubSeq(b, 1, p)
                               /\ p = IF n < Len(b) THEN n ELSE Len(b)
  BY <1>1, UptoIsStart
<1> DEFINE read == Samples!Utf8(Samples!Upto(b, n))
<1>8. PICK q \in 0 .. Len(l) : /\ read.letters = SubSeq(l, 1, q)
                               /\ ~read.bad
                               /\ p = Len(b) => q = Len(l)
  BY <1>3, <1>7
<1>9. Enough(b, n) /\ Samples!Read(b) = Samples!Upto(read.letters, Size)
  BY <1>6, <1>8
<1>10. n >= Len(b) \/ Len(read.letters) >= Size
  BY <1>8, <1>9 DEF Enough
<1> HIDE DEF read
<1>11. Len(read.letters) = q
  <2>1. Len(SubSeq(l, 1, q)) = q
    BY <1>2, StartOf DEF l
  <2> QED  BY <1>8, <2>1
<1>12. q = Len(l) \/ q >= Size
  <2>1. n >= Len(b) => p = Len(b)
    BY <1>5, <1>7
  <2> QED  BY <1>8, <1>10, <1>11, <2>1
<1> QED  BY <1>4, <1>8, <1>9, <1>12 DEF b, l

\* The places of the letters beyond ASCII
Beyond(e, l) == {i \in DOMAIN l : Code[e][l[i]][1] >= 128}

\* One of them has a code below those that begin a letter in UTF-8.
Continuing(e, l) == \E i \in Beyond(e, l) : Code[e][l[i]][1] < 192

\* Only the last letter is one of them.
OnlyLast(e, l) == Beyond(e, l) = {Len(l)}

\* A file in KOI8-R is, unless it reads as UTF-8.
LEMMA Koi8IsShown ==
  ASSUME NEW t \in Written, t.encoding = "koi8-r",
         ~Continuing("koi8-r", t.letters), ~OnlyLast("koi8-r", t.letters)
  PROVE  Samples!Read(Samples!Bytes(t)) = Samples!Upto(t.letters, Size)
<1> DEFINE b == Samples!Bytes(t)
           l == t.letters
           e == "koi8-r"
<1>1. Singles(b, e, l)
  BY BytesAreSingles
<1>2. ~Continuing(e, l) /\ ~OnlyLast(e, l)
  OBVIOUS
<1>3. \A T : l \in Seq(T) => \A q \in 0 .. Len(l) : q = Len(l) \/ q >= Size
        => Samples!Upto(SubSeq(l, 1, q), Size) = Samples!Upto(l, Size)
  BY EnoughIsShown
<1> HIDE DEF b, l, e
<1>4. /\ b \in Seq(0 .. 255) /\ l \in Seq(DOMAIN Code[e]) /\ Len(b) = Len(l)
      /\ \A i \in 1 .. Len(l) : b[i] = Code[e][l[i]][1]
  BY <1>1 DEF Singles
<1>5. /\ Len(b) \in Nat /\ DOMAIN l = 1 .. Len(l)
      /\ \A i \in 1 .. Len(b) : b[i] \in 0 .. 255
  <2>1. Len(b) \in Nat /\ \A i \in 1 .. Len(b) : b[i] \in 0 .. 255
    BY ONLY <1>4, MembersOf, Zenon
  <2>2. DOMAIN l = 1 .. Len(l)
    BY ONLY <1>4, MembersOf
  <2> QED  BY <2>1, <2>2
<1>6. Size \in Nat
  BY CodeAssumption
<1>7. Beyond(e, l) = {i \in 1 .. Len(l) : b[i] >= 128}
  BY <1>4, <1>5 DEF Beyond
<1>8. \A i \in 1 .. Len(b) : b[i] \notin 128 .. 191
  <2> SUFFICES ASSUME NEW i \in 1 .. Len(b), b[i] \in 128 .. 191 PROVE FALSE
    OBVIOUS
  <2>0. \A v \in 128 .. 191 : v >= 128 /\ v < 192
    OBVIOUS
  <2>1. i \in 1 .. Len(l) /\ b[i] >= 128 /\ Code[e][l[i]][1] < 192
    <3>1. Len(b) = Len(l) /\ \A k \in 1 .. Len(l) : b[k] = Code[e][l[k]][1]
      BY <1>4
    <3>2. b[i] \in 128 .. 191 /\ i \in 1 .. Len(b)
      OBVIOUS
    <3> QED  BY ONLY <2>0, <3>1, <3>2
  <2> QED  BY ONLY <1>2, <1>7, <2>1 DEF Continuing
<1>9. PICK n \in Nat :
        LET read == Samples!Utf8(Samples!Upto(b, n)) IN
        /\ Enough(b, n)
        /\ Samples!Read(b) = IF read.bad THEN Samples!OneByte(e, Samples!Upto(b, Size))
                             ELSE Samples!Upto(read.letters, Size)
  BY <1>5, ReadsEnough DEF e
<1> DEFINE read == Samples!Utf8(Samples!Upto(b, n))
<1>10. /\ n >= Len(b) \/ read.bad \/ Len(read.letters) >= Size
       /\ Samples!Read(b) = IF read.bad THEN Samples!OneByte(e, Samples!Upto(b, Size))
                            ELSE Samples!Upto(read.letters, Size)
  BY <1>9 DEF Enough
<1>11. CASE read.bad
  <2>1. PICK m \in 0 .. Len(b) : /\ Samples!Upto(b, Size) = SubSeq(b, 1, m)
                                 /\ m = IF Size < Len(b) THEN Size ELSE Len(b)
    BY <1>4, <1>6, UptoIsStart
  <2>2. Samples!Upto(l, Size) = SubSeq(l, 1, m)
    BY <1>4, <2>1 DEF Samples!Upto
  <2>3. Samples!OneByte(e, SubSeq(b, 1, m)) = SubSeq(l, 1, m)
    BY <1>1, <1>4, <2>1, SinglesAreRead
  <2> QED  BY <1>10, <1>11, <2>1, <2>2, <2>3 DEF b, l
<1>12. CASE ~read.bad
  <2>1. PICK p \in 0 .. Len(b) : /\ Samples!Upto(b, n) = SubSeq(b, 1, p)
                                 /\ p = IF n < Len(b) THEN n ELSE Len(b)
    BY <1>4, UptoIsStart
  <2>2. /\ ~Samples!Utf8(SubSeq(b, 1, p)).bad /\ e \in {"cp1251", "koi8-r"} /\ p \in 0 .. Len(b)
        /\ \A i \in 1 .. p : b[i] \notin 128 .. 191
    <3>1. ~Samples!Utf8(SubSeq(b, 1, p)).bad
      BY <1>12, <2>1
    <3>2. \A i \in 1 .. p : i \in 1 .. Len(b)
      BY <1>5
    <3> QED  BY <1>8, <3>1, <3>2 DEF e
  <2>3. PICK q \in 0 .. p : /\ Samples!Utf8(SubSeq(b, 1, p)).letters = SubSeq(l, 1, q)
                            /\ \A i \in 1 .. q : b[i] < 128
                            /\ q = p \/ (q = p - 1 /\ b[p] >= 128)
    <3> HIDE DEF read
    <3>1. ReadsAscii(b, l, p)
      BY ONLY <1>1, <2>2, SinglesInUtf8
    <3> QED  BY <3>1 DEF ReadsAscii
  <2>4. read.letters = SubSeq(l, 1, q)
    BY <2>1, <2>3
  <2> HIDE DEF read
  <2>5. q \in 0 .. Len(l)
    BY <1>4, <1>5
  <2>6. Len(read.letters) = q
    <3>1. Len(SubSeq(l, 1, q)) = q
      BY ONLY <1>4, <2>5, StartOf
    <3> QED  BY <2>4, <3>1
  <2>7. q = Len(l) \/ q >= Size
    <3>1. CASE n >= Len(b)
      <4>1. p = Len(b)
        BY <1>5, <2>1, <3>1
      <4>2. CASE q # p
        <5>1. q = Len(l) - 1 /\ b[Len(l)] >= 128 /\ Len(l) \in Nat
          BY <1>4, <1>5, <2>3, <4>1, <4>2
        <5>2. \A i \in 1 .. Len(l) : i = Len(l) \/ i \in 1 .. q
          BY <2>5, <5>1
        <5>3. \A i \in 1 .. q : ~(b[i] >= 128)
          <6>1. \A v \in 0 .. 255 : v < 128 => ~(v >= 128)
            OBVIOUS
          <6>2. \A i \in 1 .. q : i \in 1 .. Len(b)
            BY <1>4, <1>5, <2>5
          <6>3. \A i \in 1 .. q : b[i] \in 0 .. 255
            BY ONLY <1>5, <6>2
          <6> QED  BY <2>3, <6>1, <6>3, Zenon
        <5>4. Beyond(e, l) \subseteq {Len(l)}
          BY <1>7, <5>2, <5>3
        <5>5. Len(l) \in 1 .. Len(l)
          BY <2>5, <5>1
        <5>6. Len(l) \in Beyond(e, l)
          BY <1>7, <5>1, <5>5
        <5> QED  BY <1>2, <5>4, <5>6 DEF OnlyLast
      <4> QED  BY <1>4, <4>1, <4>2
    <3> QED  BY <1>10, <1>12, <2>6, <3>1
  <2>8. Samples!Upto(SubSeq(l, 1, q), Size) = Samples!Upto(l, Size)
    BY <1>3, <1>4, <2>5, <2>7
  <2> QED  BY <1>10, <1>12, <2>4, <2>8 DEF b, l
<1> QED  BY <1>11, <1>12

\* A source in UTF-8 is shown as it was written.
LEMMA Utf8Source ==
  ASSUME NEW t \in Written, t.encoding = "utf-8"
  PROVE  Samples!SourceShown(Samples!Bytes(t)) = t.letters
<1> DEFINE b == Samples!Bytes(t)
           l == t.letters
<1>1. b \in Seq(0 .. 255) /\ l \in Seq(DOMAIN Code["utf-8"])
  BY BytesSpell, CodeAssumption
<1>2. \A p \in 0 .. Len(b) : \E q \in 0 .. Len(l) :
        LET read == Samples!Utf8(SubSeq(b, 1, p)) IN
        /\ read.letters = SubSeq(l, 1, q)
        /\ ~read.bad
        /\ p = Len(b) => q = Len(l) /\ ~read.open
  BY PrefixIsRead
<1> HIDE DEF b, l
<1>3. Len(b) \in 0 .. Len(b) /\ SubSeq(b, 1, Len(b)) = b /\ SubSeq(l, 1, Len(l)) = l
  <2>1. Len(b) \in 0 .. Len(b)
    BY <1>1, MembersOf
  <2>2. SubSeq(b, 1, Len(b)) = b
    BY ONLY <1>1, WholeOf
  <2>3. SubSeq(l, 1, Len(l)) = l
    BY ONLY <1>1, WholeOf
  <2> QED  BY <2>1, <2>2, <2>3
<1>4. LET read == Samples!Utf8(b) IN read.letters = l /\ ~read.bad /\ ~read.open
  BY <1>2, <1>3, Zenon
<1> QED  BY <1>4 DEF Samples!SourceShown, b, l

\* A letter of these has a code that continues one in UTF-8.
Continues(e, l) == \E i \in DOMAIN l : Code[e][l[i]][1] \in 128 .. 191

\* A source in CP1251 is, unless it reads as UTF-8.
LEMMA Cp1251Source ==
  ASSUME NEW t \in Written, t.encoding = "cp1251", ~Continues("cp1251", t.letters)
  PROVE  Samples!SourceShown(Samples!Bytes(t)) = t.letters
<1> DEFINE b == Samples!Bytes(t)
           l == t.letters
           e == "cp1251"
<1>1. Singles(b, e, l)
  BY BytesAreSingles
<1>2. ~Continues(e, l)
  OBVIOUS
<1>3. \A c \in DOMAIN Code[e] : Code[e][c] # <<152>>
  BY CodeAssumption
<1>4. e \in {"cp1251", "koi8-r"}
  OBVIOUS
<1> HIDE DEF b, l, e
<1>5. /\ b \in Seq(0 .. 255) /\ l \in Seq(DOMAIN Code[e]) /\ Len(b) = Len(l)
      /\ \A i \in 1 .. Len(l) : b[i] = Code[e][l[i]][1] /\ <<b[i]>> = Code[e][l[i]]
  BY <1>1 DEF Singles
<1>6. /\ Len(b) \in Nat /\ DOMAIN b = 1 .. Len(b)
      /\ DOMAIN l = 1 .. Len(l) /\ \A i \in 1 .. Len(l) : l[i] \in DOMAIN Code[e]
  <2>1. Len(b) \in Nat /\ DOMAIN b = 1 .. Len(b)
    BY ONLY <1>5, MembersOf
  <2>2. DOMAIN l = 1 .. Len(l) /\ \A i \in 1 .. Len(l) : l[i] \in DOMAIN Code[e]
    BY ONLY <1>5, MembersOf
  <2> QED  BY <2>1, <2>2
<1>7. SubSeq(b, 1, Len(b)) = b /\ SubSeq(l, 1, Len(l)) = l
  <2>1. SubSeq(b, 1, Len(b)) = b
    BY ONLY <1>5, WholeOf
  <2>2. SubSeq(l, 1, Len(l)) = l
    BY ONLY <1>5, WholeOf
  <2> QED  BY <2>1, <2>2
<1>12. /\ Len(b) = Len(l) /\ Len(l) \in Nat /\ DOMAIN l = 1 .. Len(l) /\ DOMAIN b = 1 .. Len(l)
       /\ \A i \in 1 .. Len(l) :
            b[i] = Code[e][l[i]][1] /\ <<b[i]>> = Code[e][l[i]] /\ l[i] \in DOMAIN Code[e]
  BY <1>5, <1>6
<1>8. Len(l) \in 0 .. Len(b) /\ Len(l) \in 0 .. Len(l) /\ \A i \in 1 .. Len(l) : b[i] \notin 128 .. 191
  <2>1. Len(l) \in 0 .. Len(b) /\ Len(l) \in 0 .. Len(l)
    BY ONLY <1>12
  <2>2. \A i \in 1 .. Len(l) : b[i] \notin 128 .. 191
    BY ONLY <1>2, <1>12, Zenon DEF Continues
  <2> QED  BY <2>1, <2>2
<1>9. 152 \notin Samples!Range(b)
  <2> SUFFICES ASSUME NEW i \in DOMAIN b, b[i] = 152 PROVE FALSE
    BY DEF Samples!Range
  <2>1. i \in DOMAIN b /\ b[i] = 152
    OBVIOUS
  <2>2. Code[e][l[i]] = <<152>> /\ l[i] \in DOMAIN Code[e]
    BY ONLY <1>12, <2>1
  <2> QED  BY ONLY <1>3, <2>2
<1>10. CASE Samples!Utf8(b).bad \/ Samples!Utf8(b).open
  <2>1. Samples!SourceShown(b) = Samples!OneByte(e, b)
    BY <1>9, <1>10 DEF Samples!SourceShown, e
  <2>3. Samples!OneByte(e, SubSeq(b, 1, Len(l))) = SubSeq(l, 1, Len(l))
    BY ONLY <1>1, <1>8, SinglesAreRead
  <2> QED  BY <1>12, <1>7, <2>1, <2>3 DEF b, l
<1>11. CASE ~Samples!Utf8(b).bad /\ ~Samples!Utf8(b).open
  <2>1. Samples!SourceShown(b) = Samples!Utf8(b).letters
    BY <1>11 DEF Samples!SourceShown
  <2> DEFINE p == Len(b)
  <2>2. p \in 0 .. Len(b) /\ SubSeq(b, 1, p) = b /\ \A i \in 1 .. p : b[i] \notin 128 .. 191
    BY ONLY <1>7, <1>8, <1>12
  <2>5. ~Samples!Utf8(SubSeq(b, 1, p)).bad
    BY <1>11, <2>2
  <2> HIDE DEF p
  <2>3. PICK q \in 0 .. p : /\ Samples!Utf8(SubSeq(b, 1, p)).letters = SubSeq(l, 1, q)
                            /\ (Samples!Utf8(SubSeq(b, 1, p)).open <=> q # p)
    <3>1. ReadsAscii(b, l, p)
      BY ONLY <1>1, <1>4, <2>2, <2>5, SinglesInUtf8, Zenon
    <3> QED  BY <3>1 DEF ReadsAscii
  <2>4. q = p /\ Samples!Utf8(b).letters = SubSeq(l, 1, q)
    BY <1>11, <2>2, <2>3
  <2> QED  BY <1>7, <1>12, <2>1, <2>4 DEF p, b, l
<1> QED  BY <1>10, <1>11

\* A source that is lost is shown as nothing.
LEMMA NoSource == Samples!SourceShown(<<>>) = <<>>
<1> DEFINE b == <<>>
<1>1. Len(b) = 0 /\ Samples!Range(b) = {}
  BY DEF Samples!Range
<1>2. Samples!OneByte("cp1251", b) = <<>>
  BY DEF Samples!OneByte
<1> HIDE DEF b
<1>3. PICK f : /\ Samples!Utf8(b) = f[1]
               /\ \A i \in 1 .. Len(b) + 1 : f[i] = TextFrom(b, f, i)
  BY <1>1, Utf8Decodes
<1>4. f[1] = TextFrom(b, f, 1) /\ 1 > Len(b)
  BY <1>1, <1>3
<1>5. Samples!Utf8(b) = [letters |-> <<>>, bad |-> FALSE, open |-> FALSE]
  BY <1>3, <1>4, Zenon DEF TextFrom, TextWith
<1>6. Samples!Utf8(b).letters = <<>>
  BY <1>5
<1> QED  BY <1>1, <1>2, <1>6 DEF Samples!SourceShown, b

\* Files and sources are texts that were written.
TextsInv ==
  /\ \A path \in DOMAIN files : files[path] \in Written
  /\ source # None => source \in Written

\* There are none at first.
LEMMA TextsInit == Init => TextsInv
BY DEF Init, Samples!Init, TextsInv

\* Every step of the system keeps it.
LEMMA TextsStep == TextsInv /\ [Next]_vars => TextsInv'
<1> SUFFICES ASSUME TextsInv, [Next]_vars
             PROVE  TextsInv'
  OBVIOUS
<1>1. CASE UNCHANGED <<files, source>>
  BY <1>1 DEF TextsInv
<1>2. CASE \E path : (\E t \in Written : Samples!WriteFile(path, t)) \/ Samples!RemoveFile(path)
  BY <1>2 DEF TextsInv, Samples!WriteFile, Samples!RemoveFile, Samples!With, Samples!Restrict
<1>3. CASE \E t \in Written : Samples!SaveSource(t)
  BY <1>3 DEF TextsInv, Samples!SaveSource
<1>4. Samples!Next \/ UNCHANGED texts
  BY DEF Next, vars
<1>5. CASE Samples!Next
  BY <1>1, <1>2, <1>3, <1>5
  DEF Samples!Next, Samples!Begin, Samples!ReadInput, Samples!ReadCorrect, Samples!Configure,
      Samples!SaveRow
<1> QED  BY <1>1, <1>4, <1>5 DEF texts

\* A file is shown as far as it is as it was written: any text in UTF-8, wherever the
\* blocks it is read in end, and those in KOI8-R that are no UTF-8
\* (read_file_unknown_encoding).
THEOREM FilesAreShownAsWritten == Spec => []FilesAreRead
<1>1. TextsInv => FilesAreRead
  <2> SUFFICES ASSUME TextsInv, NEW path \in DOMAIN files
               PROVE  LET t == files[path]
                          beyond == {i \in DOMAIN t.letters : Code[t.encoding][t.letters[i]][1] >= 128}
                          continues == \E i \in beyond : Code[t.encoding][t.letters[i]][1] < 192
                      IN
                      t.encoding = "utf-8"
                        \/ (t.encoding = "koi8-r" /\ ~continues /\ beyond # {Len(t.letters)})
                        => Samples!Read(Samples!Bytes(t)) = Samples!Upto(t.letters, Size)
    BY DEF FilesAreRead, Samples!FilesAreRead
  <2> DEFINE t == files[path]
  <2>1. t \in Written
    BY DEF TextsInv
  <2> HIDE DEF t
  <2>2. CASE t.encoding = "utf-8"
    BY <2>1, <2>2, Utf8IsShown DEF t
  <2>3. CASE t.encoding = "koi8-r"
    <3>1. ~Continuing("koi8-r", t.letters) /\ ~OnlyLast("koi8-r", t.letters)
            => Samples!Read(Samples!Bytes(t)) = Samples!Upto(t.letters, Size)
      BY <2>1, <2>3, Koi8IsShown
    <3> QED  BY <2>3, <3>1 DEF t, Continuing, OnlyLast, Beyond
  <2> QED  BY <2>2, <2>3, Zenon DEF t
<1> QED  BY <1>1, TextsInit, TextsStep, PTL DEF Spec

\* A source in UTF-8 is shown as it was submitted, and so is one in CP1251 that is no
\* UTF-8 (SourceApi.get).
THEOREM SourcesAreShownAsWritten == Spec => []SourceIsText
<1>1. TextsInv => SourceIsText
  <2> SUFFICES ASSUME TextsInv PROVE SourceIsText
    OBVIOUS
  <2>1. CASE source = None
    BY <2>1, NoSource DEF SourceIsText, Samples!SourceIsText, Samples!Blob
  <2>2. CASE source # None
    <3>1. source \in Written /\ Samples!Blob = Samples!Bytes(source)
      BY <2>2 DEF TextsInv, Samples!Blob
    <3>2. source.encoding = "utf-8" => Samples!SourceShown(Samples!Blob) = source.letters
      BY <3>1, Utf8Source
    <3>3. source.encoding = "cp1251"
          /\ ~Continues("cp1251", source.letters)
          => Samples!SourceShown(Samples!Blob) = source.letters
      BY <3>1, Cp1251Source
    <3> QED  BY <2>2, <3>2, <3>3 DEF SourceIsText, Samples!SourceIsText, Continues
  <2> QED  BY <2>1, <2>2
<1> QED  BY <1>1, TextsInit, TextsStep, PTL DEF Spec

-----------------------------------------------------------------------------
(***************************************************************************)
(* The monitor of contests                                                 *)
(***************************************************************************)

\* The ranks of problems are different numbers.
Ranked(S) ==
  /\ IsFiniteSet(S)
  /\ \A p, q \in S : p.rank \in Int /\ (p.rank = q.rank => p = q)

\* s has the problems S by their ranks.
Sorted(s, S) ==
  /\ s \in [1 .. Cardinality(S) -> S]
  /\ Monitors!Range(s) = S
  /\ \A i, j \in DOMAIN s : i < j => s[i].rank < s[j].rank

\* One of some problems comes last.
LEMMA OneIsLast ==
  ASSUME NEW S, Ranked(S), S # {}
  PROVE  \E m \in S : \A p \in S \ {m} : p.rank < m.rank
<1> DEFINE Last(T, m) == m \in T /\ \A p \in T \ {m} : p.rank < m.rank
           Has(n) == \A T \in SUBSET S : IsFiniteSet(T) /\ Cardinality(T) = n /\ T # {} => \E m \in S : Last(T, m)
           N == {n \in Nat : Has(n)}
<1>0. IsFiniteSet(S) /\ \A p, q \in S : p.rank \in Int /\ (p.rank = q.rank => p = q)
  BY DEF Ranked
<1>1. Has(0)
  BY FS_EmptySet
<1>2. ASSUME NEW n \in Nat, Has(n)
      PROVE  Has(n + 1)
  <2> SUFFICES ASSUME NEW T \in SUBSET S, IsFiniteSet(T), Cardinality(T) = n + 1
               PROVE  \E m \in S : Last(T, m)
    OBVIOUS
  <2>1. PICK x : x \in T
    BY FS_EmptySet
  <2> DEFINE U == T \ {x}
  <2>2. U \in SUBSET S /\ IsFiniteSet(U) /\ Cardinality(U) = n
    <3>1. IsFiniteSet(U) /\ Cardinality(U) = Cardinality(T) - 1
      BY <2>1, FS_RemoveElement
    <3> QED  BY <3>1
  <2>3. CASE U = {}
    <3>1. Last(T, x)
      BY <2>1, <2>3
    <3> QED  BY <2>1, <3>1
  <2>4. CASE U # {}
    <3>1. PICK m \in S : Last(U, m)
      BY <1>2, <2>2, <2>4
    <3>2. m \in T /\ x \in S /\ m # x /\ m.rank \in Int /\ x.rank \in Int /\ m.rank # x.rank
      BY <1>0, <2>1, <3>1
    <3>3. CASE m.rank < x.rank
      <4>1. ASSUME NEW p \in T \ {x} PROVE p.rank < x.rank
        <5>1. p.rank \in Int /\ (p = m \/ p \in U \ {m})
          BY <1>0
        <5> QED  BY <3>1, <3>2, <3>3, <5>1
      <4> QED  BY <2>1, <3>2, <4>1
    <3>4. CASE x.rank < m.rank
      <4>1. \A p \in T \ {m} : p = x \/ p \in U \ {m}
        OBVIOUS
      <4> QED  BY <3>1, <3>2, <3>4, <4>1
    <3> QED  BY <3>2, <3>3, <3>4
  <2> QED  BY <2>3, <2>4
<1> HIDE DEF Has
<1>3. N = Nat
  <2>1. N \in SUBSET Nat /\ 0 \in N /\ \A n \in N : n + 1 \in N
    BY <1>1, <1>2
  <2> HIDE DEF N
  <2> QED  BY <2>1, Induction
<1>4. Cardinality(S) \in Nat
  BY <1>0, FS_CardinalityType
<1>5. Has(Cardinality(S))
  BY <1>3, <1>4
<1> QED  BY <1>0, <1>5 DEF Has

\* So they have an order.
LEMMA SortedExists ==
  ASSUME NEW S, Ranked(S)
  PROVE  \E s : Sorted(s, S)
<1> DEFINE Has(n) == \A T : Ranked(T) /\ Cardinality(T) = n => \E s : Sorted(s, T)
           N == {n \in Nat : Has(n)}
<1>1. Has(0)
  <2> SUFFICES ASSUME NEW T, Ranked(T), Cardinality(T) = 0
               PROVE  \E s : Sorted(s, T)
    OBVIOUS
  <2>1. T = {}
    BY FS_EmptySet DEF Ranked
  <2> DEFINE s == [i \in 1 .. 0 |-> i]
  <2>2. s \in [1 .. 0 -> T] /\ DOMAIN s = {} /\ Monitors!Range(s) = T
    BY <2>1 DEF Monitors!Range
  <2> HIDE DEF s
  <2> QED  BY <2>2 DEF Sorted
<1>2. ASSUME NEW n \in Nat, Has(n)
      PROVE  Has(n + 1)
  <2> SUFFICES ASSUME NEW T, Ranked(T), Cardinality(T) = n + 1
               PROVE  \E s : Sorted(s, T)
    OBVIOUS
  <2>1. T # {}
    BY FS_EmptySet
  <2>2. PICK m \in T : \A p \in T \ {m} : p.rank < m.rank
    BY <2>1, OneIsLast
  <2> DEFINE U == T \ {m}
  <2>3. IsFiniteSet(U) /\ Cardinality(U) = n
    <3>1. IsFiniteSet(T)
      BY DEF Ranked
    <3>2. IsFiniteSet(U) /\ Cardinality(U) = Cardinality(T) - 1
      BY <3>1, FS_RemoveElement
    <3> QED  BY <3>2
  <2>4. Ranked(U)
    BY <2>3 DEF Ranked
  <2> HIDE DEF Has
  <2>5. PICK u : Sorted(u, U)
    BY <1>2, <2>3, <2>4 DEF Has
  <2>6. u \in [1 .. n -> U] /\ Monitors!Range(u) = U /\ \A i, j \in 1 .. n : i < j => u[i].rank < u[j].rank
    BY <2>3, <2>5 DEF Sorted
  <2> DEFINE s == [i \in 1 .. n + 1 |-> IF i = n + 1 THEN m ELSE u[i]]
  <2>7. s \in [1 .. n + 1 -> T] /\ s[n + 1] = m /\ \A i \in 1 .. n : s[i] = u[i] /\ s[i] \in U
    BY <2>6
  <2> HIDE DEF s
  <2>8. Monitors!Range(s) = T
    <3>1. \A p \in U : \E i \in 1 .. n : u[i] = p
      BY <2>6 DEF Monitors!Range
    <3>2. \A p \in T : \E i \in 1 .. n + 1 : s[i] = p
      <4> SUFFICES ASSUME NEW p \in T PROVE \E i \in 1 .. n + 1 : s[i] = p
        OBVIOUS
      <4>1. CASE p = m
        <5>1. n + 1 \in 1 .. n + 1
          OBVIOUS
        <5> QED  BY <2>7, <4>1, <5>1
      <4>2. CASE p # m
        <5>1. PICK i \in 1 .. n : u[i] = p
          BY <3>1, <4>2
        <5>2. i \in 1 .. n + 1
          OBVIOUS
        <5> QED  BY <2>7, <5>1, <5>2
      <4> QED  BY <4>1, <4>2
    <3> QED  BY <2>7, <3>2 DEF Monitors!Range
  <2>9. ASSUME NEW i \in 1 .. n + 1, NEW j \in 1 .. n + 1, i < j
        PROVE  s[i].rank < s[j].rank
    <3>1. i \in 1 .. n /\ (j = n + 1 \/ j \in 1 .. n)
      BY <2>9
    <3> QED  BY <2>2, <2>6, <2>7, <2>9, <3>1
  <2>10. Sorted(s, T)
    BY <2>7, <2>8, <2>9 DEF Sorted
  <2> QED  BY <2>10
<1> HIDE DEF Has
<1>3. N = Nat
  <2>1. N \in SUBSET Nat /\ 0 \in N /\ \A n \in N : n + 1 \in N
    BY <1>1, <1>2
  <2> HIDE DEF N
  <2> QED  BY <2>1, Induction
<1>4. Cardinality(S) \in Nat
  BY FS_CardinalityType DEF Ranked
<1>5. Has(Cardinality(S))
  BY <1>3, <1>4
<1> QED  BY <1>5 DEF Has

\* The cardinality the views count with is that of the proofs.
LEMMA SameCardinality == \A S : Monitors!Cardinality(S) = Cardinality(S)
BY DEF Monitors!Cardinality, Cardinality

\* The problems of a contest that are not hidden, by their ranks
LEMMA ProblemsAreSorted ==
  ASSUME NEW c \in DOMAIN Contests
  PROVE  /\ Cardinality({p \in Contests[c] : ~p.hidden}) \in Nat
         /\ Sorted(Monitors!Problems(c), {p \in Contests[c] : ~p.hidden})
<1> DEFINE S == {p \in Contests[c] : ~p.hidden}
<1>1. IsFiniteSet(S)
  <2>1. IsFiniteSet(Contests[c]) /\ S \in SUBSET Contests[c]
    BY MonitorsAssumption
  <2> QED  BY <2>1, FS_Subset
<1>2. Ranked(S)
  BY <1>1, MonitorsAssumption DEF Ranked
<1> HIDE DEF S
<1>3. \E s \in [1 .. Cardinality(S) -> S] :
        /\ Monitors!Range(s) = S
        /\ \A i, j \in DOMAIN s : i < j => s[i].rank < s[j].rank
  BY <1>2, SortedExists DEF Sorted
<1>4. Monitors!InOrder(S) = CHOOSE s \in [1 .. Cardinality(S) -> S] :
        /\ Monitors!Range(s) = S
        /\ \A i, j \in DOMAIN s : i < j => s[i].rank < s[j].rank
  BY SameCardinality, SMT DEF Monitors!InOrder
<1>5. Sorted(Monitors!InOrder(S), S)
  BY <1>3, <1>4 DEF Sorted
<1>6. Cardinality(S) \in Nat
  BY <1>1, FS_CardinalityType
<1> QED  BY <1>5, <1>6 DEF S, Monitors!Problems

\* upto[i] is the first i members of s, each once.
Keeps(upto, s) ==
  upto = [i \in 0 .. Len(s) |->
            IF i = 0 THEN <<>>
            ELSE IF s[i] \in Monitors!Range(upto[i - 1]) THEN upto[i - 1]
            ELSE Append(upto[i - 1], s[i])]

\* There is such a function.
LEMMA KeepsExists ==
  ASSUME NEW s, Len(s) \in Nat
  PROVE  \E upto : Keeps(upto, s)
<1> DEFINE n == Len(s)
           next(f, i) == IF i = 0 THEN <<>>
                         ELSE IF s[i] \in Monitors!Range(f[i - 1]) THEN f[i - 1]
                         ELSE Append(f[i - 1], s[i])
           S == {m \in Nat : \E f : f = [i \in 0 .. m |-> next(f, i)]}
<1>1. 0 \in S
  <2> DEFINE f == [i \in 0 .. 0 |-> <<>>]
  <2>1. \A i \in 0 .. 0 : next(f, i) = <<>>
    OBVIOUS
  <2> HIDE DEF next
  <2>2. f = [i \in 0 .. 0 |-> next(f, i)]
    BY <2>1
  <2> QED  BY <2>2
<1>2. ASSUME NEW m \in S
      PROVE  m + 1 \in S
  <2>1. PICK f : f = [i \in 0 .. m |-> next(f, i)]
    BY <1>2
  <2> DEFINE g == [i \in 0 .. m + 1 |-> IF i = m + 1 THEN next(f, i) ELSE f[i]]
  <2> HIDE DEF next
  <2>2. \A i \in 0 .. m : f[i] = next(f, i) /\ g[i] = f[i]
    BY <2>1
  <2>3. g[m + 1] = next(f, m + 1) /\ g = [i \in 0 .. m + 1 |-> g[i]]
    OBVIOUS
  <2> HIDE DEF g
  <2>4. ASSUME NEW i \in 0 .. m + 1
        PROVE  g[i] = next(g, i)
    <3>1. i # 0 => i - 1 \in 0 .. m
      OBVIOUS
    <3>2. i # 0 => g[i - 1] = f[i - 1]
      BY <2>2, <3>1
    <3>3. next(g, i) = next(f, i)
      BY <3>2 DEF next
    <3>4. i = m + 1 \/ i \in 0 .. m
      OBVIOUS
    <3> QED  BY <2>2, <2>3, <3>3, <3>4
  <2>5. g = [i \in 0 .. m + 1 |-> next(g, i)]
    BY <2>3, <2>4
  <2> QED  BY <2>5
<1> HIDE DEF next
<1>3. S = Nat
  <2>1. S \in SUBSET Nat
    OBVIOUS
  <2> HIDE DEF S
  <2> QED  BY <1>1, <1>2, <2>1, Induction
<1>4. PICK f : f = [i \in 0 .. n |-> next(f, i)]
  BY <1>3
<1>5. Keeps(f, s)
  BY <1>4 DEF Keeps, next
<1> QED  BY <1>5

\* d has the members of s, each once.
Once(d, T, s, n) ==
  /\ d \in Seq(T)
  /\ {d[i] : i \in 1 .. Len(d)} = {s[i] : i \in 1 .. n}
  /\ \A i, j \in 1 .. Len(d) : d[i] = d[j] => i = j

\* One more member is added, if it is not there.
LEMMA OnceMore ==
  ASSUME NEW T, NEW s \in Seq(T), NEW n \in Nat, n + 1 \in 1 .. Len(s), NEW d, Once(d, T, s, n)
  PROVE  Once(IF s[n + 1] \in Monitors!Range(d) THEN d ELSE Append(d, s[n + 1]), T, s, n + 1)
<1> DEFINE x == s[n + 1]
           D == {d[i] : i \in 1 .. Len(d)}
           e == Append(d, x)
<1>1. /\ d \in Seq(T) /\ D = {s[i] : i \in 1 .. n}
      /\ \A i, j \in 1 .. Len(d) : d[i] = d[j] => i = j
  BY DEF Once
<1>2. x \in T /\ Len(d) \in Nat /\ DOMAIN d = 1 .. Len(d)
  BY <1>1
<1>3. Monitors!Range(d) = D
  BY <1>2 DEF Monitors!Range
<1>4. {s[i] : i \in 1 .. n + 1} = D \cup {x}
  <2>1. 1 .. n + 1 = (1 .. n) \cup {n + 1}
    OBVIOUS
  <2> QED  BY <1>1, <2>1
<1> HIDE DEF x
<1>5. CASE x \in D
  <2>1. {s[i] : i \in 1 .. n + 1} = D
    BY <1>4, <1>5
  <2>2. Once(d, T, s, n + 1)
    BY <1>1, <2>1 DEF Once
  <2> QED  BY <1>3, <1>5, <2>2 DEF x
<1>6. CASE x \notin D
  <2>1. e \in Seq(T) /\ Len(e) = Len(d) + 1 /\ e[Len(d) + 1] = x /\ \A i \in 1 .. Len(d) : e[i] = d[i]
    BY <1>1, <1>2
  <2> HIDE DEF e
  <2>2. 1 .. Len(d) + 1 = (1 .. Len(d)) \cup {Len(d) + 1}
    BY <1>2
  <2>3. {e[i] : i \in 1 .. Len(e)} = D \cup {x}
    BY <2>1, <2>2
  <2>4. ASSUME NEW i \in 1 .. Len(e), NEW j \in 1 .. Len(e), e[i] = e[j]
        PROVE  i = j
    <3>1. \A k \in 1 .. Len(d) : e[k] \in D
      BY <2>1
    <3>2. CASE i = Len(d) + 1 /\ j = Len(d) + 1
      BY <3>2
    <3>3. CASE i = Len(d) + 1 /\ j \in 1 .. Len(d)
      BY <1>6, <2>1, <2>4, <3>1, <3>3
    <3>4. CASE j = Len(d) + 1 /\ i \in 1 .. Len(d)
      BY <1>6, <2>1, <2>4, <3>1, <3>4
    <3>5. CASE i \in 1 .. Len(d) /\ j \in 1 .. Len(d)
      BY <1>1, <2>1, <2>4, <3>5
    <3> QED  BY <2>1, <2>2, <3>2, <3>3, <3>4, <3>5
  <2>5. Once(e, T, s, n + 1)
    BY <1>4, <2>1, <2>3, <2>4 DEF Once
  <2> QED  BY <1>3, <1>6, <2>5 DEF x, e
<1> QED  BY <1>5, <1>6

\* So the keys of the dictionary are the contests, each once.
LEMMA DistinctIsOnce ==
  ASSUME NEW T, NEW s \in Seq(T)
  PROVE  Once(Monitors!Distinct(s), T, s, Len(s))
<1> DEFINE n == Len(s)
           f == CHOOSE g : Keeps(g, s)
           S == {m \in Nat : m <= n => Once(f[m], T, s, m)}
<1>1. n \in Nat
  OBVIOUS
<1>2. Keeps(f, s)
  BY <1>1, KeepsExists
<1>3. Monitors!Distinct(s) = f[n]
  BY DEF Monitors!Distinct, Keeps
<1> HIDE DEF f
<1>4. f[0] = <<>> /\ \A m \in 0 .. n : m + 1 <= n =>
        f[m + 1] = IF s[m + 1] \in Monitors!Range(f[m]) THEN f[m] ELSE Append(f[m], s[m + 1])
  <2>1. \A i \in 0 .. n : f[i] = IF i = 0 THEN <<>>
                                 ELSE IF s[i] \in Monitors!Range(f[i - 1]) THEN f[i - 1]
                                 ELSE Append(f[i - 1], s[i])
    BY <1>2 DEF Keeps
  <2>2. 0 \in 0 .. n /\ \A m \in 0 .. n : m + 1 <= n => m + 1 \in 0 .. n /\ m + 1 # 0 /\ (m + 1) - 1 = m
    BY <1>1
  <2> HIDE DEF n
  <2> QED  BY <2>1, <2>2
<1>5. 0 \in S
  <2>1. Once(<<>>, T, s, 0)
    BY DEF Once
  <2> QED  BY <1>4, <2>1
<1>6. ASSUME NEW m \in S
      PROVE  m + 1 \in S
  <2> SUFFICES ASSUME m + 1 <= n PROVE Once(f[m + 1], T, s, m + 1)
    OBVIOUS
  <2>1. m \in Nat /\ m \in 0 .. n /\ m + 1 \in 1 .. Len(s) /\ m <= n
    BY <1>1
  <2>2. Once(f[m], T, s, m)
    BY <2>1
  <2>3. f[m + 1] = IF s[m + 1] \in Monitors!Range(f[m]) THEN f[m] ELSE Append(f[m], s[m + 1])
    BY <1>4, <2>1
  <2> QED  BY <2>1, <2>2, <2>3, OnceMore
<1>7. S = Nat
  <2>1. S \in SUBSET Nat
    OBVIOUS
  <2> HIDE DEF S
  <2> QED  BY <1>5, <1>6, <2>1, Induction
<1>8. n \in S /\ n <= n
  <2> HIDE DEF S
  <2> QED  BY <1>1, <1>7
<1>9. Once(f[n], T, s, n)
  BY <1>8
<1> QED  BY <1>3, <1>9

\* The largest of some numbers is one of them.
LEMMA LargestIsOne ==
  ASSUME NEW n \in Nat, NEW S \in SUBSET (1 .. n), S # {}
  PROVE  Monitors!Max(S) \in S
<1>1. Monitors!Max(S) = Archive!Max(S)
  BY DEF Monitors!Max, Archive!Max
<1> QED  BY <1>1, MaxOfSome

\* What has a place is inside.
LEMMA PlaceIsInside ==
  ASSUME NEW S, NEW s, NEW n \in Nat, NEW off, NEW z, Consists(z, off, n, s),
         \A i \in 1 .. n : s[i] \in Seq(S), NEW i \in 1 .. n, NEW k \in 1 .. Len(s[i])
  PROVE  off[i] + k \in 1 .. Len(z)
<1>1. Offsets(off, n, s) /\ Len(z) = off[n + 1]
  BY DEF Consists
<1>2. i + 1 \in 1 .. n + 1 /\ n + 1 \in 1 .. n + 1 /\ i + 1 <= n + 1 /\ i \in 1 .. n + 1
  OBVIOUS
<1>3. off[i + 1] <= off[n + 1]
  BY <1>1, <1>2, OffsetsGrow
<1>4. /\ off[i + 1] = off[i] + Len(s[i]) /\ off[i] \in Nat /\ off[n + 1] \in Nat /\ off[i + 1] \in Nat
      /\ Len(s[i]) \in Nat
  BY <1>1, <1>2 DEF Offsets
<1> QED  BY <1>1, <1>3, <1>4

\* The members of a joined sequence are those of the sequences it joins.
LEMMA JoinedMembers ==
  ASSUME NEW S, NEW s \in Seq(Seq(S))
  PROVE  \A x : x \in Monitors!Range(Joined(s)) <=> \E i \in 1 .. Len(s) : x \in Monitors!Range(s[i])
<1> DEFINE z == Joined(s)
           n == Len(s)
<1>1. n \in Nat /\ \A i \in 1 .. n : s[i] \in Seq(S) /\ DOMAIN s[i] = 1 .. Len(s[i]) /\ Len(s[i]) \in Nat
  OBVIOUS
<1>2. z \in Seq(S) /\ \E off : Consists(z, off, n, s)
  BY JoinedConsists
<1>3. DOMAIN z = 1 .. Len(z) /\ Len(z) \in Nat
  BY <1>2
<1> HIDE DEF z, n
<1>4. PICK off : Consists(z, off, n, s)
  BY <1>2
<1>5. /\ \A i \in 1 .. n : \A k \in 1 .. Len(s[i]) : z[off[i] + k] = s[i][k]
      /\ \A p \in 1 .. Len(z) : \E i \in 1 .. n : \E k \in 1 .. Len(s[i]) : p = off[i] + k
  BY <1>4 DEF Consists
<1>6. \A i \in 1 .. n : \A k \in 1 .. Len(s[i]) : off[i] + k \in 1 .. Len(z)
  BY <1>1, <1>3, <1>4, PlaceIsInside
<1>7. \A x : x \in Monitors!Range(z) <=> \E p \in 1 .. Len(z) : x = z[p]
  BY <1>3 DEF Monitors!Range
<1>8. \A i \in 1 .. n : \A x : x \in Monitors!Range(s[i]) <=> \E k \in 1 .. Len(s[i]) : x = s[i][k]
  BY <1>1 DEF Monitors!Range
<1> SUFFICES ASSUME NEW x
             PROVE  x \in Monitors!Range(z) <=> \E i \in 1 .. n : x \in Monitors!Range(s[i])
  BY DEF z, n
<1>9. ASSUME x \in Monitors!Range(z)
      PROVE  \E i \in 1 .. n : x \in Monitors!Range(s[i])
  <2>1. PICK p \in 1 .. Len(z) : x = z[p]
    BY <1>7, <1>9
  <2>2. PICK i \in 1 .. n : \E k \in 1 .. Len(s[i]) : p = off[i] + k
    BY <1>5
  <2>3. PICK k \in 1 .. Len(s[i]) : p = off[i] + k
    BY <2>2
  <2>4. x = s[i][k]
    BY <1>5, <2>1, <2>3
  <2> QED  BY <1>8, <2>4
<1>10. ASSUME NEW i \in 1 .. n, x \in Monitors!Range(s[i])
       PROVE  x \in Monitors!Range(z)
  <2>1. PICK k \in 1 .. Len(s[i]) : x = s[i][k]
    BY <1>8, <1>10
  <2>2. z[off[i] + k] = x /\ off[i] + k \in 1 .. Len(z)
    BY <1>5, <1>6, <2>1
  <2> QED  BY <1>7, <2>2
<1> QED  BY <1>9, <1>10

\* A monitor is whole: it shows ts for the request r.
Whole(r, ts) ==
  LET contests == UNION {Monitors!Range(Monitors!ContestsOf(m)) : m \in Monitors!Range(r.modules)}
      own(t) == CHOOSE p \in Contests[t.contest] : p.problem = t.problem
  IN
  /\ {<<t.contest, t.problem>> : t \in Monitors!Range(ts)} =
       UNION {{<<c, p.problem>> : p \in {q \in Contests[c] : ~q.hidden}} : c \in contests}
  /\ \A i, j \in DOMAIN ts : i < j /\ ts[i].contest = ts[j].contest =>
       /\ own(ts[i]).rank < own(ts[j]).rank
       /\ \A k \in i .. j : ts[k].contest = ts[i].contest
  /\ \A t \in Monitors!Range(ts) :
       \/ t.rank = own(t).rank
       \/ \E u \in Monitors!Range(ts) : u.problem = t.problem /\ u.contest # t.contest /\ t.rank = own(u).rank

\* The table of the k-th problem of the contest c, among the tables of all
Entry(all, c, k) ==
  [contest |-> c, problem |-> Monitors!Problems(c)[k].problem,
   rank |-> Monitors!RankShown(all, Monitors!Problems(c)[k].problem)]

\* The tables of the contest c
Block(all, c) == [k \in DOMAIN Monitors!Problems(c) |-> Entry(all, c, k)]

\* The contests of the modules, as they are led to
LEMMA ContestsJoined ==
  ASSUME NEW r \in Requests, r.view = "contests"
  PROVE  /\ Monitors!AllContests(r) \in Seq(DOMAIN Contests)
         /\ Monitors!Range(Monitors!AllContests(r)) =
              UNION {Monitors!Range(Monitors!ContestsOf(m)) : m \in Monitors!Range(r.modules)}
<1> DEFINE ms == r.modules
           s == [i \in DOMAIN ms |-> Monitors!ContestsOf(ms[i])]
<1>1. ms \in Seq({ms[i] : i \in DOMAIN ms})
  BY MonitorsAssumption
<1>2. DOMAIN ms = 1 .. Len(ms) /\ Len(ms) \in Nat
  BY <1>1
<1> HIDE DEF ms
<1>3. ASSUME NEW m
      PROVE  Monitors!ContestsOf(m) \in Seq(DOMAIN Contests)
  <2>1. <<>> \in Seq(DOMAIN Contests)
    OBVIOUS
  <2>2. CASE /\ m \in DOMAIN Modules /\ Monitors!InstanceOf(m) # None
             /\ Monitors!InstanceOf(m).kind \in {"statement", "monitor"}
    <3>1. Monitors!InstanceOf(m) = Modules[m]
      BY <2>2 DEF Monitors!InstanceOf
    <3>2. Modules[m].contests \in Seq(DOMAIN Contests)
      BY <2>2, <3>1, MonitorsAssumption
    <3> QED  BY <2>2, <3>1, <3>2 DEF Monitors!ContestsOf
  <2> QED  BY <2>1, <2>2 DEF Monitors!ContestsOf
<1>4. s \in Seq(Seq(DOMAIN Contests)) /\ Len(s) = Len(ms) /\ \A i \in 1 .. Len(ms) : s[i] = Monitors!ContestsOf(ms[i])
  BY <1>2, <1>3
<1>5. Monitors!AllContests(r) = Joined(s)
  BY FlattenMonitors DEF Monitors!AllContests, ms
<1> HIDE DEF s
<1>6. Joined(s) \in Seq(DOMAIN Contests)
  BY <1>4, JoinedConsists
<1>7. \A x : x \in Monitors!Range(Joined(s)) <=> \E i \in 1 .. Len(s) : x \in Monitors!Range(s[i])
  BY <1>4, JoinedMembers
<1>8. Monitors!Range(ms) = {ms[i] : i \in 1 .. Len(ms)}
  BY <1>2 DEF Monitors!Range
<1>9. Monitors!Range(Joined(s)) = UNION {Monitors!Range(Monitors!ContestsOf(m)) : m \in Monitors!Range(ms)}
  <2> DEFINE of(m) == Monitors!Range(Monitors!ContestsOf(m))
             C == UNION {of(m) : m \in Monitors!Range(ms)}
  <2>1. \A x : x \in C <=> \E i \in 1 .. Len(ms) : x \in of(ms[i])
    <3> HIDE DEF of
    <3> QED  BY <1>8
  <2>2. \A i \in 1 .. Len(s) : Monitors!Range(s[i]) = of(ms[i])
    BY <1>4
  <2> HIDE DEF C, of
  <2>3. \A x : x \in Monitors!Range(Joined(s)) <=> x \in C
    BY <1>4, <1>7, <2>1, <2>2
  <2> QED  BY <2>3 DEF C, of
<1> QED  BY <1>5, <1>6, <1>9 DEF ms

\* The problems of a contest that are shown, as its block lists them
LEMMA BlockLists ==
  ASSUME NEW c \in DOMAIN Contests, NEW all
  PROVE  LET b == Block(all, c)
             ps == Monitors!Problems(c)
         IN  /\ b \in Seq(Monitors!Range(b)) /\ DOMAIN b = DOMAIN ps /\ Len(b) \in Nat /\ DOMAIN b = 1 .. Len(b)
             /\ \A k \in DOMAIN b : b[k] = Entry(all, c, k)
             /\ \A k \in DOMAIN b : ps[k] \in Contests[c] /\ ~ps[k].hidden
             /\ \A p \in Contests[c] : ~p.hidden => \E k \in DOMAIN b : ps[k] = p
             /\ \A k, l \in DOMAIN b : k < l => ps[k].rank < ps[l].rank
             /\ \A k \in DOMAIN b : (CHOOSE p \in Contests[c] : p.problem = ps[k].problem) = ps[k]
<1> DEFINE b == Block(all, c)
           ps == Monitors!Problems(c)
           S == {p \in Contests[c] : ~p.hidden}
           n == Cardinality(S)
<1>1. n \in Nat /\ Sorted(ps, S)
  BY ProblemsAreSorted
<1> HIDE DEF ps, n
<1>2. ps \in [1 .. n -> S] /\ DOMAIN ps = 1 .. n
  BY <1>1 DEF Sorted, n
<1>3. Monitors!Range(ps) = S /\ \A i, j \in DOMAIN ps : i < j => ps[i].rank < ps[j].rank
  BY <1>1 DEF Sorted
<1>4. DOMAIN b = 1 .. n /\ \A k \in 1 .. n : b[k] = Entry(all, c, k)
  BY <1>2 DEF Block, ps
<1>5. b \in Seq(Monitors!Range(b)) /\ Len(b) = n
  <2>1. b = [k \in 1 .. n |-> Entry(all, c, k)]
    BY <1>2 DEF Block, ps
  <2>2. Monitors!Range(b) = {b[k] : k \in 1 .. n}
    BY <1>4 DEF Monitors!Range
  <2>3. \A k \in 1 .. n : b[k] \in Monitors!Range(b)
    BY <2>2
  <2> HIDE DEF b
  <2>4. b \in [1 .. n -> Monitors!Range(b)]
    BY <2>1, <2>3
  <2> QED  BY <1>1, <2>4
<1>6. \A p \in S : \E k \in 1 .. n : ps[k] = p
  BY <1>2, <1>3 DEF Monitors!Range
<1>7. ASSUME NEW k \in 1 .. n
      PROVE  (CHOOSE p \in Contests[c] : p.problem = ps[k].problem) = ps[k]
  <2>1. ps[k] \in Contests[c]
    BY <1>2
  <2>2. \A p \in Contests[c] : p.problem = ps[k].problem => p = ps[k]
    BY <2>1, MonitorsAssumption
  <2> QED  BY <2>1, <2>2
<1> HIDE DEF b
<1> QED  BY <1>1, <1>2, <1>3, <1>4, <1>5, <1>6, <1>7 DEF b, ps

\* The contests that the modules lead to, each once
LEMMA ContestsOnce ==
  ASSUME NEW r \in Requests, r.view = "contests"
  PROVE  LET cs == Monitors!Distinct(Monitors!AllContests(r)) IN
         /\ cs \in Seq(DOMAIN Contests)
         /\ \A i, j \in DOMAIN cs : cs[i] = cs[j] => i = j
         /\ \A c : c \in Monitors!Range(Monitors!AllContests(r)) <=> \E i \in DOMAIN cs : cs[i] = c
<1> DEFINE all == Monitors!AllContests(r)
           cs == Monitors!Distinct(all)
<1>1. all \in Seq(DOMAIN Contests)
  BY ContestsJoined
<1> HIDE DEF all
<1>2. Once(cs, DOMAIN Contests, all, Len(all))
  BY <1>1, DistinctIsOnce
<1> HIDE DEF cs
<1>3. /\ cs \in Seq(DOMAIN Contests)
      /\ {cs[i] : i \in 1 .. Len(cs)} = {all[i] : i \in 1 .. Len(all)}
      /\ \A i, j \in 1 .. Len(cs) : cs[i] = cs[j] => i = j
  BY <1>2 DEF Once
<1>4. DOMAIN cs = 1 .. Len(cs) /\ DOMAIN all = 1 .. Len(all)
  BY <1>1, <1>3
<1>5. Monitors!Range(all) = {all[i] : i \in 1 .. Len(all)}
  BY <1>4 DEF Monitors!Range
<1>6. \A c : c \in Monitors!Range(all) <=> \E i \in DOMAIN cs : cs[i] = c
  BY <1>3, <1>4, <1>5
<1> QED  BY <1>3, <1>4, <1>6 DEF all, cs

\* The rank a problem shows is its own in some contest that shows it.
LEMMA ShownRank ==
  ASSUME NEW all \in Seq(DOMAIN Contests), NEW which, NEW c \in Monitors!Range(all),
         NEW p \in Contests[c], ~p.hidden, p.problem = which
  PROVE  \E d \in Monitors!Range(all) : \E q \in Contests[d] :
           /\ ~q.hidden /\ q.problem = which
           /\ Monitors!RankShown(all, which) = (CHOOSE x \in Contests[d] : x.problem = which).rank
<1> DEFINE In(i) == \E x \in Monitors!Range(Monitors!Problems(all[i])) : x.problem = which
           I == {i \in DOMAIN all : In(i)}
           top == Monitors!Max(I)
<1>1. DOMAIN all = 1 .. Len(all) /\ Len(all) \in Nat /\ \A i \in 1 .. Len(all) : all[i] \in DOMAIN Contests
  OBVIOUS
<1>2. \A i \in DOMAIN all : Monitors!Range(Monitors!Problems(all[i])) = {x \in Contests[all[i]] : ~x.hidden}
  BY <1>1, ProblemsAreSorted DEF Sorted
<1>3. PICK i \in DOMAIN all : all[i] = c
  BY DEF Monitors!Range
<1>4. i \in I
  BY <1>2, <1>3
<1>5. top \in I
  <2>1. I \in SUBSET (1 .. Len(all)) /\ I # {}
    BY <1>1, <1>4
  <2> HIDE DEF I
  <2> QED  BY <1>1, <2>1, LargestIsOne
<1>6. Monitors!RankShown(all, which) = (CHOOSE x \in Contests[all[top]] : x.problem = which).rank
  BY DEF Monitors!RankShown
<1> HIDE DEF top
<1>7. PICK q \in Contests[all[top]] : ~q.hidden /\ q.problem = which
  BY <1>2, <1>5
<1>8. all[top] \in Monitors!Range(all)
  BY <1>5 DEF Monitors!Range
<1> QED  BY <1>6, <1>7, <1>8

\* Where the tables of a request come from: each is at its place in the block of its
\* contest, and each block is there.
LEMMA TablesAreBlocks ==
  ASSUME NEW r \in Requests, r.view = "contests"
  PROVE  LET all == Monitors!AllContests(r)
             cs == Monitors!Distinct(all)
             ts == Monitors!Tables(r)
         IN  /\ Len(ts) \in Nat /\ DOMAIN ts = 1 .. Len(ts)
             /\ \E off :
                  /\ \A a \in DOMAIN cs : off[a] \in Nat
                  /\ \A a \in DOMAIN cs : \A k \in DOMAIN Block(all, cs[a]) :
                       off[a] + k \in DOMAIN ts /\ ts[off[a] + k] = Entry(all, cs[a], k)
                  /\ \A i \in DOMAIN ts : \E a \in DOMAIN cs : \E k \in DOMAIN Block(all, cs[a]) : i = off[a] + k
<1> DEFINE all == Monitors!AllContests(r)
           cs == Monitors!Distinct(all)
           ts == Monitors!Tables(r)
           s == [a \in DOMAIN cs |-> Block(all, cs[a])]
           S == UNION {Monitors!Range(Block(all, c)) : c \in DOMAIN Contests}
<1>1. cs \in Seq(DOMAIN Contests)
  BY ContestsOnce
<1>2. ts = Joined(s)
  <2>1. ts = Monitors!FlattenSeq(s)
    BY DEF Monitors!Tables, Block, Entry
  <2> QED  BY <2>1, FlattenMonitors
<1> HIDE DEF ts, cs, all
<1>3. DOMAIN cs = 1 .. Len(cs) /\ Len(cs) \in Nat /\ \A a \in DOMAIN cs : cs[a] \in DOMAIN Contests
  BY <1>1
<1>4. ASSUME NEW a \in DOMAIN cs
      PROVE  /\ s[a] \in Seq(S) /\ DOMAIN s[a] = 1 .. Len(s[a]) /\ s[a] = Block(all, cs[a])
             /\ \A k \in DOMAIN s[a] : s[a][k] = Entry(all, cs[a], k)
  <2> DEFINE b == Block(all, cs[a])
  <2>1. s[a] = b /\ cs[a] \in DOMAIN Contests
    BY <1>3
  <2>2. /\ b \in Seq(Monitors!Range(b)) /\ DOMAIN b = 1 .. Len(b)
        /\ \A k \in DOMAIN b : b[k] = Entry(all, cs[a], k)
    BY <2>1, BlockLists
  <2>3. Monitors!Range(b) \subseteq S
    BY <2>1
  <2> HIDE DEF b, S, s
  <2>4. b \in Seq(S)
    BY <2>2, <2>3
  <2> QED  BY <2>1, <2>2, <2>4 DEF b
<1>5. s \in Seq(Seq(S)) /\ Len(s) = Len(cs) /\ DOMAIN s = DOMAIN cs
  <2> HIDE DEF S
  <2>1. s \in [1 .. Len(cs) -> Seq(S)]
    BY <1>3, <1>4
  <2> QED  BY <1>3, <2>1
<1> HIDE DEF s, S
<1>6. ts \in Seq(S) /\ \E off : Consists(ts, off, Len(s), s)
  BY <1>2, <1>5, JoinedConsists
<1>7. PICK off : Consists(ts, off, Len(s), s)
  BY <1>6
<1>8. /\ Offsets(off, Len(s), s)
      /\ \A i \in 1 .. Len(s) : \A k \in 1 .. Len(s[i]) : ts[off[i] + k] = s[i][k]
      /\ \A p \in 1 .. Len(ts) : \E i \in 1 .. Len(s) : \E k \in 1 .. Len(s[i]) : p = off[i] + k
  BY <1>7 DEF Consists
<1>9. Len(ts) \in Nat /\ DOMAIN ts = 1 .. Len(ts)
  BY <1>6
<1>10. \A a \in DOMAIN cs : off[a] \in Nat
  BY <1>3, <1>5, <1>8 DEF Offsets
<1>11. ASSUME NEW a \in DOMAIN cs, NEW k \in DOMAIN Block(all, cs[a])
       PROVE  off[a] + k \in DOMAIN ts /\ ts[off[a] + k] = Entry(all, cs[a], k)
  <2>1. a \in 1 .. Len(s) /\ k \in 1 .. Len(s[a]) /\ s[a][k] = Entry(all, cs[a], k)
    BY <1>3, <1>4, <1>5
  <2>2. Len(s) \in Nat /\ \A i \in 1 .. Len(s) : s[i] \in Seq(S)
    BY <1>5
  <2>3. off[a] + k \in 1 .. Len(ts)
    BY <1>7, <2>1, <2>2, PlaceIsInside
  <2> QED  BY <1>8, <1>9, <2>1, <2>3
<1>12. ASSUME NEW i \in DOMAIN ts
       PROVE  \E a \in DOMAIN cs : \E k \in DOMAIN Block(all, cs[a]) : i = off[a] + k
  <2>1. PICK a \in 1 .. Len(s) : \E k \in 1 .. Len(s[a]) : i = off[a] + k
    BY <1>8, <1>9
  <2> QED  BY <1>3, <1>4, <1>5, <2>1
<1> QED  BY <1>9, <1>10, <1>11, <1>12 DEF ts, cs, all

\* The monitor of contests shows the tables that are due.
LEMMA TablesAreWhole ==
  ASSUME NEW r \in Requests, r.view = "contests"
  PROVE  Whole(r, Monitors!Tables(r))
<1> DEFINE all == Monitors!AllContests(r)
           cs == Monitors!Distinct(all)
           ts == Monitors!Tables(r)
           contests == UNION {Monitors!Range(Monitors!ContestsOf(m)) : m \in Monitors!Range(r.modules)}
           own(t) == CHOOSE p \in Contests[t.contest] : p.problem = t.problem
           ps(c) == Monitors!Problems(c)
           pairs == UNION {{<<c, p.problem>> : p \in {q \in Contests[c] : ~q.hidden}} : c \in contests}
<1>1. /\ cs \in Seq(DOMAIN Contests)
      /\ \A a, b \in DOMAIN cs : cs[a] = cs[b] => a = b
      /\ \A c : c \in Monitors!Range(all) <=> \E a \in DOMAIN cs : cs[a] = c
  BY ContestsOnce
<1>2. all \in Seq(DOMAIN Contests) /\ Monitors!Range(all) = contests
  BY ContestsJoined
<1>3. PICK off :
        /\ \A a \in DOMAIN cs : off[a] \in Nat
        /\ \A a \in DOMAIN cs : \A k \in DOMAIN Block(all, cs[a]) :
             off[a] + k \in DOMAIN ts /\ ts[off[a] + k] = Entry(all, cs[a], k)
        /\ \A i \in DOMAIN ts : \E a \in DOMAIN cs : \E k \in DOMAIN Block(all, cs[a]) : i = off[a] + k
  BY TablesAreBlocks
<1>4. Len(ts) \in Nat /\ DOMAIN ts = 1 .. Len(ts)
  BY TablesAreBlocks
<1>5. \A a \in DOMAIN cs : cs[a] \in DOMAIN Contests
  BY <1>1
<1> HIDE DEF all, cs, ts, contests
<1>6. ASSUME NEW a \in DOMAIN cs
      PROVE  LET b == Block(all, cs[a])
                 c == cs[a]
             IN  /\ DOMAIN b = 1 .. Len(b) /\ Len(b) \in Nat
                 /\ \A k \in DOMAIN b : ps(c)[k] \in Contests[c] /\ ~ps(c)[k].hidden
                 /\ \A p \in Contests[c] : ~p.hidden => \E k \in DOMAIN b : ps(c)[k] = p
                 /\ \A k, l \in DOMAIN b : k < l => ps(c)[k].rank < ps(c)[l].rank
                 /\ \A k \in DOMAIN b : (CHOOSE p \in Contests[c] : p.problem = ps(c)[k].problem) = ps(c)[k]
  BY <1>5, BlockLists
<1>7. ASSUME NEW a \in DOMAIN cs, NEW k \in DOMAIN Block(all, cs[a])
      PROVE  LET t == Entry(all, cs[a], k) IN
             /\ t.contest = cs[a] /\ t.problem = ps(cs[a])[k].problem /\ own(t) = ps(cs[a])[k]
             /\ t.rank = Monitors!RankShown(all, t.problem)
  BY <1>6 DEF Entry
<1>8. \A t : t \in Monitors!Range(ts) <=> \E a \in DOMAIN cs : \E k \in DOMAIN Block(all, cs[a]) : t = Entry(all, cs[a], k)
  <2>1. \A t : t \in Monitors!Range(ts) <=> \E i \in DOMAIN ts : t = ts[i]
    BY DEF Monitors!Range
  <2> QED  BY <1>3, <2>1
<1>9. ASSUME NEW c \in contests, NEW p \in Contests[c], ~p.hidden
      PROVE  \E t \in Monitors!Range(ts) : t.contest = c /\ t.problem = p.problem
  <2>1. PICK a \in DOMAIN cs : cs[a] = c
    BY <1>1, <1>2
  <2>p. p \in Contests[cs[a]] /\ ~p.hidden
    BY <1>9, <2>1
  <2>k. \E k \in DOMAIN Block(all, cs[a]) : ps(cs[a])[k] = p
    <3> HIDE DEF ps
    <3> QED  BY <1>6, <2>p
  <2>2. PICK k \in DOMAIN Block(all, cs[a]) : ps(cs[a])[k] = p
    BY <2>k
  <2>3. Entry(all, cs[a], k).contest = c /\ Entry(all, cs[a], k).problem = p.problem
    BY <1>7, <2>1, <2>2
  <2> QED  BY <1>8, <2>3
<1>10. {<<t.contest, t.problem>> : t \in Monitors!Range(ts)} = pairs
  <2> DEFINE shownpairs == {<<t.contest, t.problem>> : t \in Monitors!Range(ts)}
  <2>1. ASSUME NEW t \in Monitors!Range(ts)
        PROVE  <<t.contest, t.problem>> \in pairs
    <3>1. PICK a \in DOMAIN cs : \E k \in DOMAIN Block(all, cs[a]) : t = Entry(all, cs[a], k)
      BY <1>8
    <3>2. PICK k \in DOMAIN Block(all, cs[a]) : t = Entry(all, cs[a], k)
      BY <3>1
    <3>3. cs[a] \in contests
      BY <1>1, <1>2
    <3>4. ps(cs[a])[k] \in {q \in Contests[cs[a]] : ~q.hidden}
      BY <1>6
    <3>5. t.contest = cs[a] /\ t.problem = ps(cs[a])[k].problem
      BY <1>7, <3>2
    <3> QED  BY <3>3, <3>4, <3>5
  <2>2. ASSUME NEW c \in contests, NEW p \in {q \in Contests[c] : ~q.hidden}
        PROVE  <<c, p.problem>> \in shownpairs
    <3>1. PICK t \in Monitors!Range(ts) : t.contest = c /\ t.problem = p.problem
      BY <1>9
    <3> QED  BY <3>1
  <2> QED  BY <2>1, <2>2
<1>11. ASSUME NEW i \in DOMAIN ts, NEW j \in DOMAIN ts, i < j, ts[i].contest = ts[j].contest
       PROVE  /\ own(ts[i]).rank < own(ts[j]).rank
              /\ \A m \in i .. j : ts[m].contest = ts[i].contest
  <2>0. PICK a \in DOMAIN cs : \E k \in DOMAIN Block(all, cs[a]) : i = off[a] + k
    BY <1>3
  <2>1. PICK k \in DOMAIN Block(all, cs[a]) : i = off[a] + k
    BY <2>0
  <2>b. PICK b \in DOMAIN cs : \E l \in DOMAIN Block(all, cs[b]) : j = off[b] + l
    BY <1>3
  <2>2. PICK l \in DOMAIN Block(all, cs[b]) : j = off[b] + l
    BY <2>b
  <2>3. ts[i] = Entry(all, cs[a], k) /\ ts[j] = Entry(all, cs[b], l)
    BY <1>3, <2>1, <2>2
  <2>4. ts[i].contest = cs[a] /\ ts[j].contest = cs[b]
    BY <1>7, <2>3
  <2>5. a = b
    BY <1>1, <1>11, <2>4
  <2>6. off[a] \in Nat /\ DOMAIN Block(all, cs[a]) = 1 .. Len(Block(all, cs[a])) /\ Len(Block(all, cs[a])) \in Nat
    BY <1>3, <1>6
  <2>7. k < l /\ k \in 1 .. Len(Block(all, cs[a])) /\ l \in 1 .. Len(Block(all, cs[a]))
    BY <1>11, <2>1, <2>2, <2>5, <2>6
  <2>8. own(ts[i]) = ps(cs[a])[k] /\ own(ts[j]) = ps(cs[a])[l]
    BY <1>7, <2>3, <2>5
  <2>9. ps(cs[a])[k].rank < ps(cs[a])[l].rank
    BY <1>6, <2>5, <2>7
  <2>10. ASSUME NEW m \in i .. j
         PROVE  ts[m].contest = ts[i].contest
    <3> DEFINE n == m - off[a]
    <3>1. n \in 1 .. Len(Block(all, cs[a])) /\ off[a] + n = m
      BY <2>1, <2>2, <2>5, <2>6, <2>7
    <3> HIDE DEF n
    <3>2. ts[m] = Entry(all, cs[a], n)
      BY <1>3, <2>6, <3>1
    <3>3. ts[m].contest = cs[a]
      BY <1>7, <2>6, <3>1, <3>2
    <3> QED  BY <2>4, <3>3
  <2> QED  BY <2>8, <2>9, <2>10
<1>12. ASSUME NEW t \in Monitors!Range(ts)
       PROVE  \/ t.rank = own(t).rank
              \/ \E u \in Monitors!Range(ts) : u.problem = t.problem /\ u.contest # t.contest /\ t.rank = own(u).rank
  <2>1. PICK a \in DOMAIN cs : \E k \in DOMAIN Block(all, cs[a]) : t = Entry(all, cs[a], k)
    BY <1>8
  <2>2. PICK k \in DOMAIN Block(all, cs[a]) : t = Entry(all, cs[a], k)
    BY <2>1
  <2>3. /\ t.contest = cs[a] /\ t.problem = ps(cs[a])[k].problem
        /\ t.rank = Monitors!RankShown(all, t.problem)
    BY <1>7, <2>2
  <2>4. ps(cs[a])[k] \in Contests[cs[a]] /\ ~ps(cs[a])[k].hidden
    BY <1>6
  <2>5. cs[a] \in Monitors!Range(all)
    BY <1>1
  <2>6. \E d \in Monitors!Range(all) : \E q \in Contests[d] :
          /\ ~q.hidden /\ q.problem = t.problem
          /\ Monitors!RankShown(all, t.problem) = (CHOOSE x \in Contests[d] : x.problem = t.problem).rank
    BY <1>2, <2>3, <2>4, <2>5, ShownRank
  <2>d. PICK d \in contests : \E q \in Contests[d] :
          /\ ~q.hidden /\ q.problem = t.problem
          /\ t.rank = (CHOOSE x \in Contests[d] : x.problem = t.problem).rank
    BY <1>2, <2>3, <2>6
  <2>7. PICK q \in Contests[d] :
          /\ ~q.hidden /\ q.problem = t.problem
          /\ t.rank = (CHOOSE x \in Contests[d] : x.problem = t.problem).rank
    BY <2>d
  <2>8. CASE d = t.contest
    BY <2>7, <2>8
  <2>9. CASE d # t.contest
    <3>1. PICK u \in Monitors!Range(ts) : u.contest = d /\ u.problem = q.problem
      BY <1>9, <2>7
    <3> QED  BY <2>7, <2>9, <3>1
  <2> QED  BY <2>8, <2>9
<1> QED  BY <1>10, <1>11, <1>12 DEF Whole, ts, contests

\* What is shown are the tables of the last request.
Shown ==
  shown # None /\ shown.request.view = "contests" =>
    shown.request \in Requests /\ shown.tables = Monitors!Tables(shown.request)

LEMMA ShownStep == Shown /\ [Next]_vars => Shown'
<1> SUFFICES ASSUME Shown, [Next]_vars
             PROVE  Shown'
  OBVIOUS
<1>1. CASE UNCHANGED shown
  BY <1>1 DEF Shown
<1>2. ASSUME NEW r \in Requests, Monitors!ShowContests(r)
      PROVE  Shown'
  <2>1. shown' = [request |-> r, tables |-> Monitors!Tables(r)]
    BY <1>2 DEF Monitors!ShowContests
  <2>2. shown'.request = r /\ shown'.tables = Monitors!Tables(r)
    BY <2>1
  <2> QED  BY <2>2 DEF Shown
<1>3. ASSUME NEW r \in Requests, Monitors!ShowProblems(r)
      PROVE  Shown'
  <2>1. shown'.request = r /\ r.view = "problems"
    BY <1>3 DEF Monitors!ShowProblems
  <2> QED  BY <2>1 DEF Shown
<1>4. CASE \E r \in Arriving : Monitors!Submit(r)
  BY <1>1, <1>4 DEF Monitors!Submit
<1>5. CASE \E i \in DOMAIN runs : (\E v \in Statuses : Monitors!Judged(i, v)) \/ Monitors!Rejudge(i)
  BY <1>1, <1>5 DEF Monitors!Judged, Monitors!Rejudge
<1>6. CASE \E k \in DOMAIN store : Monitors!Expire(k)
  BY <1>1, <1>6 DEF Monitors!Expire
<1>7. CASE UNCHANGED monitors
  BY <1>1, <1>7 DEF monitors
<1> QED
  BY <1>2, <1>3, <1>4, <1>5, <1>6, <1>7 DEF Next, vars, Monitors!Next

\* A monitor has one table for each problem that a contest asked for shows, in the order
\* of the contest.
THEOREM MonitorsAreWhole == Spec => []ContestsAreWhole
<1>1. Init => Shown
  BY DEF Init, Monitors!Init, Shown
<1>2. Shown => ContestsAreWhole
  <2> SUFFICES ASSUME shown # None /\ shown.request.view = "contests", Shown
               PROVE  Whole(shown.request, shown.tables)
    BY DEF ContestsAreWhole, Monitors!ContestsAreWhole, Whole
  <2>1. shown.request \in Requests /\ shown.tables = Monitors!Tables(shown.request)
    BY DEF Shown
  <2> QED  BY <2>1, TablesAreWhole
<1> QED  BY <1>1, <1>2, ShownStep, PTL DEF Spec
=============================================================================
