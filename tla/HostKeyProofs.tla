--------------------------- MODULE HostKeyProofs ---------------------------
(***************************************************************************)
(* For every set of endpoints, keys and attempts and every file to begin   *)
(* with: attempts that are verified one after the other accept no key but  *)
(* the recorded one when a file is configured, and none that replaces one  *)
(* of its algorithm in the default file; and what they learn is known from *)
(* then on.  The argument is about the lines of a file that is only ever   *)
(* appended to.                                                            *)
(***************************************************************************)
EXTENDS HostKey, SequenceTheorems, FiniteSetTheorems, TLAPS

-----------------------------------------------------------------------------
(* The lines of a file.                                                    *)

LEMMA LinesMember ==
    ASSUME NEW f, NEW l
    PROVE  l \in Lines(f) <=>
             \E i, j \in 1..Len(f) : IsLine(f, i, j) /\ l = SubSeq(f, i, j)
<1>1. ASSUME l \in Lines(f)
      PROVE  \E i, j \in 1..Len(f) : IsLine(f, i, j) /\ l = SubSeq(f, i, j)
  <2>1. PICK s \in {t \in (1..Len(f)) \X (1..Len(f)) : IsLine(f, t[1], t[2])} :
            l = SubSeq(f, s[1], s[2])
    BY <1>1 DEF Lines
  <2>2. s[1] \in 1..Len(f) /\ s[2] \in 1..Len(f) /\ IsLine(f, s[1], s[2])
    OBVIOUS
  <2> QED BY <2>1, <2>2
<1>2. ASSUME NEW i \in 1..Len(f), NEW j \in 1..Len(f), IsLine(f, i, j), l = SubSeq(f, i, j)
      PROVE  l \in Lines(f)
  <2> DEFINE s == <<i, j>>
  <2>1. s[1] = i /\ s[2] = j /\ s \in (1..Len(f)) \X (1..Len(f))
    OBVIOUS
  <2> HIDE DEF s
  <2>2. s \in {t \in (1..Len(f)) \X (1..Len(f)) : IsLine(f, t[1], t[2])}
    BY <1>2, <2>1
  <2>3. l = SubSeq(f, s[1], s[2])
    BY <1>2, <2>1
  <2> QED BY <2>2, <2>3 DEF Lines
<1> QED BY <1>1, <1>2

\* A stretch of a file is the same in every file that agrees on it.
LEMMA SameStretch ==
    ASSUME NEW S, NEW f \in Seq(S), NEW g \in Seq(S), Len(f) <= Len(g),
           \A k \in 1..Len(f) : g[k] = f[k],
           NEW i \in 1..Len(f), NEW j \in 1..Len(f), i <= j
    PROVE  SubSeq(g, i, j) = SubSeq(f, i, j)
<1>1. Len(f) \in Nat /\ Len(g) \in Nat /\ i \in Int /\ j \in Int
  BY LenProperties
<1>2. \A k \in i..j : k \in 1..Len(f) /\ k \in 1..Len(g)
  BY <1>1
<1>3. \A k \in i..j : f[k] \in S /\ g[k] \in S
  BY <1>2, ElementOfSeq
<1>4. /\ SubSeq(f, i, j) \in Seq(S) /\ Len(SubSeq(f, i, j)) = j - i + 1
      /\ \A k \in 1..(j - i + 1) : SubSeq(f, i, j)[k] = f[i + k - 1]
  BY <1>1, <1>3, SubSeqProperties
<1>5. /\ SubSeq(g, i, j) \in Seq(S) /\ Len(SubSeq(g, i, j)) = j - i + 1
      /\ \A k \in 1..(j - i + 1) : SubSeq(g, i, j)[k] = g[i + k - 1]
  BY <1>1, <1>3, SubSeqProperties
<1>6. \A k \in 1..(j - i + 1) : i + k - 1 \in 1..Len(f)
  BY <1>1
<1> QED BY <1>4, <1>5, <1>6, SeqEqual

\* Complete lines stay lines whatever is appended; a newline ends the last one.
LEMMA LinesAfterNewline ==
    ASSUME NEW f \in Seq(Parts)
    PROVE  Lines(Append(f, Newline)) = Lines(f)
<1> DEFINE g == Append(f, Newline)
           n == Len(f)
<1>1. /\ n \in Nat /\ g \in Seq(Parts) /\ Len(g) = n + 1 /\ g[n + 1] = Newline
      /\ \A k \in 1..n : g[k] = f[k]
  BY AppendProperties, LenProperties DEF Parts
<1> HIDE DEF g
<1>2. ASSUME NEW i \in 1..n, NEW j \in 1..n PROVE IsLine(g, i, j) <=> IsLine(f, i, j)
  <2>1. (\A k \in i..j : g[k] # Newline) <=> (\A k \in i..j : f[k] # Newline)
    BY <1>1
  <2>2. (i = 1 \/ g[i - 1] = Newline) <=> (i = 1 \/ f[i - 1] = Newline)
    BY <1>1
  <2>3. (j = n + 1 \/ g[j + 1] = Newline) <=> (j = n \/ f[j + 1] = Newline)
    BY <1>1
  <2> QED BY <1>1, <2>1, <2>2, <2>3 DEF IsLine
<1>3. ASSUME NEW i \in 1..(n + 1), NEW j \in 1..(n + 1), IsLine(g, i, j)
      PROVE  i \in 1..n /\ j \in 1..n
  <2>1. i <= j /\ g[j] # Newline
    BY <1>1, <1>3 DEF IsLine
  <2> QED BY <1>1, <2>1
<1>4. ASSUME NEW i \in 1..n, NEW j \in 1..n, i <= j PROVE SubSeq(g, i, j) = SubSeq(f, i, j)
  BY <1>1, <1>4, SameStretch
<1>5. ASSUME NEW l PROVE l \in Lines(g) <=> l \in Lines(f)
  <2>1. l \in Lines(g) <=> \E i, j \in 1..(n + 1) : IsLine(g, i, j) /\ l = SubSeq(g, i, j)
    BY <1>1, LinesMember
  <2>2. l \in Lines(f) <=> \E i, j \in 1..n : IsLine(f, i, j) /\ l = SubSeq(f, i, j)
    BY LinesMember
  <2>3. \A i, j \in 1..n : IsLine(f, i, j) => i <= j
    BY DEF IsLine
  <2>4. \A i \in 1..n : i \in 1..(n + 1)
    BY <1>1
  <2> HIDE DEF n
  <2> QED BY <1>2, <1>3, <1>4, <2>1, <2>2, <2>3, <2>4
<1> QED BY <1>5 DEF g

\* A file to which a line can be appended.
AtLineStart(f) == f = <<>> \/ f[Len(f)] = Newline

\* Lines of a file that ends with a newline, in a longer one that does not go
\* on with a newline.
LEMMA EarlierLines ==
    ASSUME NEW f \in Seq(Parts), NEW g \in Seq(Parts), AtLineStart(f), Len(f) < Len(g),
           \A k \in 1..Len(f) : g[k] = f[k],
           NEW i \in 1..Len(g), NEW j \in 1..Len(f)
    PROVE  /\ IsLine(g, i, j) => i \in 1..Len(f) /\ IsLine(f, i, j) /\ SubSeq(g, i, j) = SubSeq(f, i, j)
           /\ (i \in 1..Len(f) /\ IsLine(f, i, j)) => IsLine(g, i, j) /\ SubSeq(g, i, j) = SubSeq(f, i, j)
<1> DEFINE n == Len(f)
<1>1. n \in Nat /\ Len(g) \in Nat
  BY LenProperties
<1>2. n # 0 => f[n] = Newline
  BY EmptySeq DEF AtLineStart
<1>3. n \in 1..n /\ f[n] = Newline /\ g[n] = Newline
  <2>1. n # 0
    BY <1>1
  <2> QED BY <1>1, <1>2, <2>1
<1>4. ASSUME IsLine(g, i, j) PROVE i \in 1..n /\ IsLine(f, i, j)
  <2>1. i <= j /\ (\A k \in i..j : g[k] # Newline)
        /\ (i = 1 \/ g[i - 1] = Newline) /\ (j = Len(g) \/ g[j + 1] = Newline)
    BY <1>4 DEF IsLine
  <2>2. i \in 1..n /\ j # n
    BY <1>1, <1>3, <2>1
  <2>3. \A k \in i..j : f[k] # Newline
    <3>1. \A k \in i..j : k \in 1..n
      BY <1>1, <2>2
    <3> QED BY <2>1, <3>1
  <2>4. i = 1 \/ f[i - 1] = Newline
    <3>1. i # 1 => i - 1 \in 1..n
      BY <1>1, <2>2
    <3> QED BY <2>1, <3>1
  <2>5. f[j + 1] = Newline
    <3>1. j + 1 \in 1..n /\ j # Len(g)
      BY <1>1, <2>2
    <3> QED BY <2>1, <3>1
  <2> QED BY <2>1, <2>2, <2>3, <2>4, <2>5 DEF IsLine
<1>5. ASSUME i \in 1..n, IsLine(f, i, j) PROVE IsLine(g, i, j)
  <2>1. i <= j /\ (\A k \in i..j : f[k] # Newline)
        /\ (i = 1 \/ f[i - 1] = Newline) /\ (j = n \/ f[j + 1] = Newline)
    BY <1>5 DEF IsLine
  <2>2. j # n
    BY <1>1, <1>3, <2>1
  <2>3. \A k \in i..j : g[k] # Newline
    <3>1. \A k \in i..j : k \in 1..n
      BY <1>1, <1>5
    <3> QED BY <2>1, <3>1
  <2>4. i = 1 \/ g[i - 1] = Newline
    <3>1. i # 1 => i - 1 \in 1..n
      BY <1>1, <1>5
    <3> QED BY <2>1, <3>1
  <2>5. g[j + 1] = Newline
    <3>1. j + 1 \in 1..n
      BY <1>1, <2>2
    <3> QED BY <2>1, <2>2, <3>1
  <2> QED BY <2>1, <2>3, <2>4, <2>5 DEF IsLine
<1>6. ASSUME i \in 1..n, IsLine(f, i, j) PROVE SubSeq(g, i, j) = SubSeq(f, i, j)
  <2>1. i <= j /\ Len(f) <= Len(g)
    BY <1>1, <1>6 DEF IsLine
  <2> QED BY <1>6, <2>1, SameStretch
<1> QED BY <1>4, <1>5, <1>6

\* A part on a new line is a line of its own.
LEMMA LinesAfterPart ==
    ASSUME NEW f \in Seq(Parts), AtLineStart(f), NEW p \in Parts, p # Newline
    PROVE  Lines(Append(f, p)) = Lines(f) \cup {<<p>>}
<1> DEFINE g == Append(f, p)
           n == Len(f)
<1>1. /\ n \in Nat /\ g \in Seq(Parts) /\ Len(g) = n + 1 /\ g[n + 1] = p
      /\ \A k \in 1..n : g[k] = f[k]
  BY AppendProperties, LenProperties
<1> HIDE DEF g
<1>2. n # 0 => g[n] = Newline
  BY <1>1, EmptySeq DEF AtLineStart
<1>3. IsLine(g, n + 1, n + 1)
  <2>1. \A k \in (n + 1)..(n + 1) : g[k] # Newline
    BY <1>1
  <2>2. n + 1 = 1 \/ g[n + 1 - 1] = Newline
    BY <1>1, <1>2
  <2> QED BY <1>1, <2>1, <2>2 DEF IsLine
<1>4. SubSeq(g, n + 1, n + 1) = <<p>>
  <2>1. \A k \in (n + 1)..(n + 1) : g[k] \in Parts
    BY <1>1
  <2>2. /\ SubSeq(g, n + 1, n + 1) \in Seq(Parts) /\ Len(SubSeq(g, n + 1, n + 1)) = 1
        /\ SubSeq(g, n + 1, n + 1)[1] = p
    <3>1. n + 1 \in Int /\ n + 1 <= n + 1 /\ (n + 1) - (n + 1) + 1 = 1 /\ 1 \in 1..1 /\ n + 1 + 1 - 1 = n + 1
      BY <1>1
    <3> HIDE DEF n
    <3> QED BY <1>1, <2>1, <3>1, SubSeqProperties
  <2>3. <<p>> \in Seq(Parts) /\ Len(<<p>>) = 1 /\ <<p>>[1] = p
    OBVIOUS
  <2>4. \A k \in 1..1 : k = 1
    OBVIOUS
  <2> HIDE DEF n
  <2> QED BY <2>2, <2>3, <2>4, SeqEqual
<1>5. ASSUME NEW i \in 1..(n + 1), IsLine(g, i, n + 1) PROVE i = n + 1
  <2>1. \A k \in i..(n + 1) : g[k] # Newline
    BY <1>5 DEF IsLine
  <2> QED BY <1>1, <1>2, <2>1
<1>6. ASSUME NEW l PROVE l \in Lines(g) <=> l \in Lines(f) \cup {<<p>>}
  <2>1. l \in Lines(g) <=> \E i, j \in 1..(n + 1) : IsLine(g, i, j) /\ l = SubSeq(g, i, j)
    BY <1>1, LinesMember
  <2>2. l \in Lines(f) <=> \E i, j \in 1..n : IsLine(f, i, j) /\ l = SubSeq(f, i, j)
    BY LinesMember
  <2>3. \A i \in 1..(n + 1), j \in 1..n :
            /\ IsLine(g, i, j) => i \in 1..n /\ IsLine(f, i, j) /\ SubSeq(g, i, j) = SubSeq(f, i, j)
            /\ (i \in 1..n /\ IsLine(f, i, j)) => IsLine(g, i, j) /\ SubSeq(g, i, j) = SubSeq(f, i, j)
    <3>1. Len(f) < Len(g)
      BY <1>1
    <3> QED BY <1>1, <3>1, EarlierLines
  <2>4. \A j \in 1..(n + 1) : j \in 1..n \/ j = n + 1
    BY <1>1
  <2>5. (\A j \in 1..n : j \in 1..(n + 1)) /\ n + 1 \in 1..(n + 1)
    BY <1>1
  <2> HIDE DEF n
  <2>6. ASSUME l \in Lines(g) PROVE l \in Lines(f) \cup {<<p>>}
    <3>1. PICK i \in 1..(n + 1), j \in 1..(n + 1) : IsLine(g, i, j) /\ l = SubSeq(g, i, j)
      BY <2>1, <2>6
    <3>2. CASE j \in 1..n
      BY <2>2, <2>3, <3>1, <3>2
    <3>3. CASE j = n + 1
      BY <1>4, <1>5, <3>1, <3>3
    <3> QED BY <2>4, <3>2, <3>3
  <2>7. ASSUME l \in Lines(f) PROVE l \in Lines(g)
    <3>1. PICK i \in 1..n, j \in 1..n : IsLine(f, i, j) /\ l = SubSeq(f, i, j)
      BY <2>2, <2>7
    <3>2. i \in 1..(n + 1) /\ j \in 1..(n + 1)
      BY <2>5
    <3> QED BY <2>1, <2>3, <3>1, <3>2
  <2>8. <<p>> \in Lines(g)
    <3>1. \E i, j \in 1..Len(g) : IsLine(g, i, j) /\ <<p>> = SubSeq(g, i, j)
      BY <1>1, <1>3, <1>4, <2>5
    <3> QED BY <3>1, LinesMember
  <2> QED BY <2>6, <2>7, <2>8
<1> QED BY <1>6 DEF g

\* Two parts on a new line are one line.
LEMMA LinesAfterTwo ==
    ASSUME NEW f \in Seq(Parts), AtLineStart(f), NEW p \in Parts, NEW q \in Parts,
           p # Newline, q # Newline
    PROVE  Lines(Append(Append(f, p), q)) = Lines(f) \cup {<<p, q>>}
<1> DEFINE h == Append(f, p)
           g == Append(h, q)
           n == Len(f)
<1>0. /\ n \in Nat /\ h \in Seq(Parts) /\ Len(h) = n + 1 /\ h[n + 1] = p
      /\ \A k \in 1..n : h[k] = f[k]
  BY AppendProperties, LenProperties
<1>a. /\ g \in Seq(Parts) /\ Len(g) = Len(h) + 1 /\ g[Len(h) + 1] = q
      /\ \A k \in 1..Len(h) : g[k] = h[k]
  <2> HIDE DEF h
  <2> QED BY <1>0, AppendProperties
<1> HIDE DEF g, h
<1>1. /\ n \in Nat /\ g \in Seq(Parts) /\ Len(g) = n + 2 /\ g[n + 1] = p /\ g[n + 2] = q
      /\ \A k \in 1..n : g[k] = f[k]
  BY <1>0, <1>a
<1>2. n # 0 => g[n] = Newline
  BY <1>1, EmptySeq DEF AtLineStart
<1>3. IsLine(g, n + 1, n + 2)
  <2>1. \A k \in (n + 1)..(n + 2) : g[k] # Newline
    <3>1. \A k \in (n + 1)..(n + 2) : k = n + 1 \/ k = n + 2
      BY <1>1
    <3> QED BY <1>1, <3>1
  <2>2. n + 1 = 1 \/ g[n + 1 - 1] = Newline
    BY <1>1, <1>2
  <2> QED BY <1>1, <2>1, <2>2 DEF IsLine
<1>4. SubSeq(g, n + 1, n + 2) = <<p, q>>
  <2>1. \A k \in (n + 1)..(n + 2) : g[k] \in Parts
    <3>1. \A k \in (n + 1)..(n + 2) : k = n + 1 \/ k = n + 2
      BY <1>1
    <3> QED BY <1>1, <3>1
  <2>2. /\ SubSeq(g, n + 1, n + 2) \in Seq(Parts) /\ Len(SubSeq(g, n + 1, n + 2)) = 2
        /\ SubSeq(g, n + 1, n + 2)[1] = p /\ SubSeq(g, n + 1, n + 2)[2] = q
    <3>1. /\ n + 1 \in Int /\ n + 2 \in Int /\ n + 1 <= n + 2 /\ (n + 2) - (n + 1) + 1 = 2
          /\ 1 \in 1..2 /\ 2 \in 1..2 /\ n + 1 + 1 - 1 = n + 1 /\ n + 1 + 2 - 1 = n + 2
      BY <1>1
    <3> HIDE DEF n
    <3> QED BY <1>1, <2>1, <3>1, SubSeqProperties
  <2>3. <<p, q>> \in Seq(Parts) /\ Len(<<p, q>>) = 2 /\ <<p, q>>[1] = p /\ <<p, q>>[2] = q
    OBVIOUS
  <2>4. \A k \in 1..2 : k = 1 \/ k = 2
    OBVIOUS
  <2> HIDE DEF n
  <2> QED BY <2>2, <2>3, <2>4, SeqEqual
<1>5. ASSUME NEW i \in 1..(n + 2), IsLine(g, i, n + 2) PROVE i = n + 1
  <2>1. (\A k \in i..(n + 2) : g[k] # Newline) /\ (i = 1 \/ g[i - 1] = Newline)
    BY <1>5 DEF IsLine
  <2>2. i = n + 1 \/ i = n + 2 \/ n \in i..(n + 2)
    BY <1>1
  <2>3. n \in i..(n + 2) => n # 0
    BY <1>1
  <2>4. i = n + 2 => i # 1 /\ i - 1 = n + 1
    BY <1>1
  <2> QED BY <1>1, <1>2, <2>1, <2>2, <2>3, <2>4
<1>6. ASSUME NEW i \in 1..(n + 2) PROVE ~IsLine(g, i, n + 1)
  <2>1. n + 1 # n + 2 /\ g[n + 1 + 1] # Newline
    BY <1>1
  <2> QED BY <1>1, <2>1 DEF IsLine
<1>7. ASSUME NEW l PROVE l \in Lines(g) <=> l \in Lines(f) \cup {<<p, q>>}
  <2>1. l \in Lines(g) <=> \E i, j \in 1..(n + 2) : IsLine(g, i, j) /\ l = SubSeq(g, i, j)
    <3>1. 1..Len(g) = 1..(n + 2)
      BY <1>1
    <3>2. l \in Lines(g) <=> \E i, j \in 1..Len(g) : IsLine(g, i, j) /\ l = SubSeq(g, i, j)
      BY ONLY LinesMember
    <3> HIDE DEF n
    <3> QED BY ONLY <3>1, <3>2, Zenon
  <2>2. l \in Lines(f) <=> \E i, j \in 1..n : IsLine(f, i, j) /\ l = SubSeq(f, i, j)
    BY LinesMember
  <2>3. \A i \in 1..(n + 2), j \in 1..n :
            /\ IsLine(g, i, j) => i \in 1..n /\ IsLine(f, i, j) /\ SubSeq(g, i, j) = SubSeq(f, i, j)
            /\ (i \in 1..n /\ IsLine(f, i, j)) => IsLine(g, i, j) /\ SubSeq(g, i, j) = SubSeq(f, i, j)
    <3>1. Len(f) < Len(g)
      BY <1>1
    <3> QED BY <1>1, <3>1, EarlierLines
  <2>4. \A j \in 1..(n + 2) : j \in 1..n \/ j = n + 1 \/ j = n + 2
    BY <1>1
  <2>5. (\A j \in 1..n : j \in 1..(n + 2)) /\ n + 1 \in 1..(n + 2) /\ n + 2 \in 1..(n + 2)
    BY <1>1
  <2> HIDE DEF n
  <2>6. ASSUME l \in Lines(g) PROVE l \in Lines(f) \cup {<<p, q>>}
    <3>1. PICK i \in 1..(n + 2), j \in 1..(n + 2) : IsLine(g, i, j) /\ l = SubSeq(g, i, j)
      BY <2>1, <2>6
    <3>2. CASE j \in 1..n
      BY <2>2, <2>3, <3>1, <3>2
    <3>3. CASE j = n + 1
      BY <1>6, <3>1, <3>3
    <3>4. CASE j = n + 2
      BY <1>4, <1>5, <3>1, <3>4
    <3> QED BY <2>4, <3>2, <3>3, <3>4
  <2>7. ASSUME l \in Lines(f) PROVE l \in Lines(g)
    <3>1. PICK i \in 1..n, j \in 1..n : IsLine(f, i, j) /\ l = SubSeq(f, i, j)
      BY <2>2, <2>7
    <3>2. i \in 1..(n + 2) /\ j \in 1..(n + 2)
      BY <2>5
    <3> QED BY <2>1, <2>3, <3>1, <3>2
  <2>8. <<p, q>> \in Lines(g)
    <3>1. \E i, j \in 1..Len(g) : IsLine(g, i, j) /\ <<p, q>> = SubSeq(g, i, j)
      BY <1>1, <1>3, <1>4, <2>5
    <3> QED BY <3>1, LinesMember
  <2> QED BY <2>6, <2>7, <2>8
<1> QED BY <1>7 DEF g, h

-----------------------------------------------------------------------------
(* What the lines say of an endpoint.                                      *)

LEMMA PartFacts ==
    /\ \A h \in Hosts : HostPart(h) \in Parts /\ HostPart(h) # Newline
    /\ \A k \in Keys : KeyPart(k) \in Parts /\ KeyPart(k) # Newline
    /\ \A h, e \in Hosts : HostPart(h) = HostPart(e) => h = e
    /\ \A k, e \in Keys : KeyPart(k) = KeyPart(e) => k = e
BY DEF HostPart, KeyPart, Newline, Parts

LEMMA NoLines ==
    ASSUME NEW f, NEW h
    PROVE  /\ ~ContainsEndpoint(f, h) <=> LinesOf(f, h) = {}
           /\ LinesOf(f, h) = {} => Entries(f, h) = {}
<1>1. ~ContainsEndpoint(f, h) <=> LinesOf(f, h) = {}
  BY DEF ContainsEndpoint, LinesOf
<1>2. ASSUME LinesOf(f, h) = {}, NEW k \in Entries(f, h) PROVE FALSE
  <2>1. <<HostPart(h), KeyPart(k)>> \in Lines(f)
    BY DEF Entries
  <2>2. <<HostPart(h), KeyPart(k)>>[1] = HostPart(h)
    OBVIOUS
  <2> QED BY <1>2, <2>1, <2>2 DEF LinesOf
<1> QED BY <1>1, <1>2

\* An endpoint whose only line is a record has exactly that key.
LEMMA OnlyRecordIsKnown ==
    ASSUME NEW f, NEW h \in Hosts, NEW k \in Keys,
           LinesOf(f, h) = {<<HostPart(h), KeyPart(k)>>}
    PROVE  Entries(f, h) = {k} /\ Matches(f, h, k) = "known"
<1> DEFINE r == <<HostPart(h), KeyPart(k)>>
<1>1. r \in Lines(f) /\ \A l \in Lines(f) : l[1] = HostPart(h) => l = r
  BY DEF LinesOf
<1>2. Entries(f, h) = {k}
  <2>1. k \in Entries(f, h)
    BY <1>1 DEF Entries
  <2>2. ASSUME NEW e \in Entries(f, h) PROVE e = k
    <3>1. e \in Keys /\ <<HostPart(h), KeyPart(e)>> \in Lines(f)
      BY DEF Entries
    <3>2. <<HostPart(h), KeyPart(e)>> = r
      BY <1>1, <3>1
    <3> QED BY <3>1, <3>2, PartFacts
  <2> QED BY <2>1, <2>2
<1>3. ~Garbled(f, h)
  <2> SUFFICES ASSUME NEW l \in Lines(f), l[1] = HostPart(h), Len(l) > 2 PROVE FALSE
    BY DEF Garbled
  <2>1. l = r /\ Len(r) = 2
    BY <1>1
  <2> QED BY <2>1
<1> QED BY <1>2, <1>3 DEF Matches

\* A known key is on record.
LEMMA KnownIsRecorded ==
    ASSUME NEW f, NEW h, NEW k, Matches(f, h, k) = "known"
    PROVE  k \in Entries(f, h)
BY DEF Matches

\* A key that matches nothing is of another algorithm than every recorded one.
LEMMA NoMatchIsOther ==
    ASSUME NEW f, NEW h, NEW k, Matches(f, h, k) = "no_match"
    PROVE  \A e \in Entries(f, h) : Algorithm[e] # Algorithm[k]
<1>1. /\ k \notin Entries(f, h)
      /\ \A e \in Entries(f, h) : ~(e # k /\ Algorithm[e] = Algorithm[k])
  BY DEF Matches
<1> QED BY <1>1

\* One more line: it is the endpoint's only one if it is of it and there was
\* none, and changes nothing for the others.
LEMMA OneMoreLine ==
    ASSUME NEW f, NEW g, NEW l, NEW p, Lines(g) = Lines(f) \cup {l}, l[1] = p, NEW h
    PROVE  /\ p # HostPart(h) => LinesOf(g, h) = LinesOf(f, h)
           /\ (p = HostPart(h) /\ LinesOf(f, h) = {}) => LinesOf(g, h) = {l}
BY DEF LinesOf

-----------------------------------------------------------------------------
(* The invariant.                                                          *)

LEMMA SetupFacts ==
    ASSUME TypeOK, NEW c \in Conns
    PROVE  conn[c].host \in Hosts /\ conn[c].key \in Keys
BY DEF TypeOK, Setups

LEMMA InitKnownHosts == Init => KnownHostsInv
<1> SUFFICES ASSUME Init PROVE KnownHostsInv
  OBVIOUS
<1>1. (CHOOSE s \in Setups : TRUE) \in Setups
  <2>1. PICK h \in Hosts, k \in Keys : TRUE
    BY AttemptsAssumption
  <2>2. [host |-> h, key |-> k, policy |-> "Prompt", path |-> "given", verifier |-> TRUE] \in Setups
    BY DEF Setups, Policies
  <2> QED BY <2>2
<1>2. TypeOK
  <2>1. conn \in [Conns -> Setups]
    BY <1>1 DEF Init
  <2> QED BY <2>1, FilesAssumption DEF Init, TypeOK, Steps, Accepted
<1>3. InFlight = {}
  BY DEF Init, InFlight
<1> QED BY <1>2, <1>3 DEF Init, KnownHostsInv, OneAtATime, AttemptSound, LookIsCurrent, RecordKept

LEMMA StepTypes ==
    ASSUME TypeOK, NEW c \in Conns,
           Start(c) \/ Match(c) \/ LookForEndpoint(c) \/ RejectChanged(c) \/ Decide(c)
             \/ Decision(c) \/ Learn(c)
    PROVE  TypeOK'
<1>0. /\ file \in Seq(Parts) /\ defaultFile \in DefaultFiles /\ pc \in [Conns -> Steps]
      /\ conn \in [Conns -> Setups] /\ status \in [Conns -> {"none", "known", "unknown", "changed"}]
      /\ fix \in [Conns -> BOOLEAN] /\ out \in [Conns -> {"none", "rejected"} \cup Accepted]
  BY DEF TypeOK
<1>1. file' \in Seq(Parts)
  <2>1. \/ UNCHANGED file \/ file' = Append(file, Newline)
        \/ file' = Append(file, HostPart(conn[c].host)) \/ file' = Append(file, KeyPart(conn[c].key))
    BY DEF Start, Match, LookForEndpoint, RejectChanged, Decide, Decision, Learn, LearnOpen,
           LearnRepair, LearnHost, LearnKey, LearnNewline, LearnFails
  <2>2. Newline \in Parts /\ HostPart(conn[c].host) \in Parts /\ KeyPart(conn[c].key) \in Parts
    BY SetupFacts, PartFacts DEF Parts
  <2>3. \A p \in Parts : Append(file, p) \in Seq(Parts)
    BY <1>0
  <2> QED BY <1>0, <2>1, <2>2, <2>3
<1>2. defaultFile' \in DefaultFiles
  BY <1>0 DEF Start, Match, LookForEndpoint, RejectChanged, Decide, Decision, Learn, LearnOpen,
         LearnRepair, LearnHost, LearnKey, LearnNewline, LearnFails
<1>3. conn' \in [Conns -> Setups]
  BY <1>0 DEF Start, Match, LookForEndpoint, RejectChanged, Decide, Decision, Learn, LearnOpen,
         LearnRepair, LearnHost, LearnKey, LearnNewline, LearnFails
<1>4. pc' \in [Conns -> Steps]
  BY <1>0 DEF Start, Match, LookForEndpoint, RejectChanged, Decide, Decision, Learn, LearnOpen,
         LearnRepair, LearnHost, LearnKey, LearnNewline, LearnFails, End, Goto, Steps
<1>5. status' \in [Conns -> {"none", "known", "unknown", "changed"}]
  BY <1>0 DEF Start, Match, LookForEndpoint, RejectChanged, Decide, Decision, Learn, LearnOpen,
         LearnRepair, LearnHost, LearnKey, LearnNewline, LearnFails
<1>6. fix' \in [Conns -> BOOLEAN]
  BY <1>0 DEF Start, Match, LookForEndpoint, RejectChanged, Decide, Decision, Learn, LearnOpen,
         LearnRepair, LearnHost, LearnKey, LearnNewline, LearnFails, NeedsNewline
<1>7. out' \in [Conns -> {"none", "rejected"} \cup Accepted]
  BY <1>0 DEF Start, Match, LookForEndpoint, RejectChanged, Decide, Decision, Learn, LearnOpen,
         LearnRepair, LearnHost, LearnKey, LearnNewline, LearnFails, End, Goto, Accepted
<1> QED BY <1>1, <1>2, <1>3, <1>4, <1>5, <1>6, <1>7 DEF TypeOK

\* Whoever makes a step, the other attempts are where they were.
LEMMA OthersStay ==
    ASSUME TypeOK, NEW c \in Conns, NEW d \in Conns, d # c,
           Start(c) \/ Match(c) \/ LookForEndpoint(c) \/ RejectChanged(c) \/ Decide(c)
             \/ Decision(c) \/ Learn(c)
    PROVE  pc'[d] = pc[d] /\ conn'[d] = conn[d] /\ fix'[d] = fix[d] /\ out'[d] = out[d]
BY DEF TypeOK, Start, Match, LookForEndpoint, RejectChanged, Decide, Decision, Learn, LearnOpen,
       LearnRepair, LearnHost, LearnKey, LearnNewline, LearnFails, End, Goto

\* While the file is as it was, so is all that is known of the others.
LEMMA OthersSound ==
    ASSUME KnownHostsInv, NEW d \in Conns, file' = file, defaultFile' = defaultFile,
           pc'[d] = pc[d], conn'[d] = conn[d], fix'[d] = fix[d], out'[d] = out[d]
    PROVE  AttemptSound(d)' /\ LookIsCurrent(d)' /\ RecordKept(d)'
<1>1. AttemptSound(d) /\ LookIsCurrent(d) /\ RecordKept(d)
  BY DEF KnownHostsInv
<1>2. NeedsNewline' = NeedsNewline
  BY DEF NeedsNewline
<1> QED BY <1>1, <1>2 DEF AttemptSound, LookIsCurrent, RecordKept

\* Only Start lets an attempt in, and it lets none in beside another.
LEMMA OneAtATimeKept ==
    ASSUME TypeOK, TypeOK', OneAtATime, Parallel = 1, NEW c \in Conns,
           \A d \in Conns \ {c} : pc'[d] = pc[d],
           pc[c] \notin {"idle", "end"} \/ Start(c)
    PROVE  OneAtATime'
<1>1. CASE pc[c] \notin {"idle", "end"}
  <2>1. \A d \in InFlight' : d = c \/ d \in InFlight
    BY DEF InFlight
  <2>2. c \in InFlight
    BY <1>1 DEF InFlight
  <2> QED BY <2>1, <2>2 DEF OneAtATime
<1>2. CASE Start(c)
  <2>1. Cardinality(InFlight) < 1
    BY <1>2 DEF Start
  <2>2. IsFiniteSet(InFlight)
    BY AttemptsAssumption, FS_Subset DEF InFlight
  <2>3. Cardinality(InFlight) \in Nat
    BY <2>2, FS_CardinalityType
  <2>4. InFlight = {}
    <3>1. Cardinality(InFlight) = 0
      BY <2>1, <2>3
    <3> QED BY <2>2, <3>1, FS_EmptySet
  <2>5. \A d \in InFlight' : d = c
    BY <2>4 DEF InFlight
  <2> QED BY <2>5 DEF OneAtATime
<1> QED BY <1>1, <1>2

\* The steps that only look: what is found is true of the file as it is.
LEMMA LookingSound ==
    ASSUME KnownHostsInv, NEW c \in Conns,
           Start(c) \/ Match(c) \/ LookForEndpoint(c) \/ RejectChanged(c) \/ Decide(c)
             \/ Decision(c) \/ LearnOpen(c) \/ LearnFails(c)
    PROVE  /\ file' = file /\ defaultFile' = defaultFile
           /\ AttemptSound(c)' /\ LookIsCurrent(c)' /\ RecordKept(c)'
<1>1. TypeOK /\ AttemptSound(c) /\ LookIsCurrent(c) /\ RecordKept(c)
  BY DEF KnownHostsInv
<1>2. /\ pc \in [Conns -> Steps] /\ out \in [Conns -> {"none", "rejected"} \cup Accepted]
      /\ conn \in [Conns -> Setups] /\ fix \in [Conns -> BOOLEAN]
  BY <1>1 DEF TypeOK
<1>d. defaultFile' = defaultFile
  BY DEF Start, Match, LookForEndpoint, RejectChanged, Decide, Decision, LearnOpen, LearnFails
<1>3. CASE Start(c)
  <2>1. file' = file /\ pc'[c] = "match" /\ out'[c] = out[c] /\ pc[c] = "idle"
    BY <1>2, <1>3 DEF Start
  <2>2. out[c] = "none"
    BY <1>1, <2>1 DEF AttemptSound
  <2> QED BY <1>d, <2>1, <2>2 DEF AttemptSound, LookIsCurrent, RecordKept
<1>4. CASE Match(c)
  <2>1. /\ file' = file /\ conn'[c] = conn[c] /\ pc[c] = "match"
        /\ \/ pc'[c] = "end" /\ out'[c] \in {"known", "rejected"}
           \/ pc'[c] = "changed" /\ out'[c] = out[c]
           \/ pc'[c] = "contains" /\ out'[c] = out[c] /\ conn[c].path = "given"
           \/ /\ pc'[c] = "unknown" /\ out'[c] = out[c] /\ conn[c].path = "default"
              /\ Matches(Consulted(c), conn[c].host, conn[c].key) = "no_match"
    BY <1>2, <1>4 DEF Match, End, Goto
  <2>2. out[c] = "none"
    BY <1>1, <2>1 DEF AttemptSound
  <2>3. pc'[c] = "unknown" =>
            \A e \in Entries(defaultFile, conn[c].host) : Algorithm[e] # Algorithm[conn[c].key]
    BY <2>1, NoMatchIsOther DEF Consulted
  <2> QED BY <1>d, <2>1, <2>2, <2>3 DEF AttemptSound, LookIsCurrent, RecordKept
<1>5. CASE LookForEndpoint(c)
  <2>1. /\ file' = file /\ conn'[c] = conn[c] /\ pc[c] = "contains" /\ out'[c] = out[c]
        /\ \/ pc'[c] = "changed"
           \/ pc'[c] = "unknown" /\ ~ContainsEndpoint(file, conn[c].host)
    BY <1>2, <1>5 DEF LookForEndpoint, Goto
  <2>2. out[c] = "none"
    BY <1>1, <2>1 DEF AttemptSound
  <2>3. pc'[c] = "unknown" => LinesOf(file', conn'[c].host) = {}
    BY <2>1, NoLines
  <2>4. conn[c].path = "given"
    BY <1>1, <2>1 DEF AttemptSound
  <2> QED BY <1>d, <2>1, <2>2, <2>3, <2>4 DEF AttemptSound, LookIsCurrent, RecordKept
<1>6. CASE RejectChanged(c) \/ LearnFails(c)
  <2>1. file' = file /\ pc'[c] = "end" /\ out'[c] = "rejected"
    BY <1>2, <1>6 DEF RejectChanged, LearnFails, End
  <2> QED BY <1>d, <2>1 DEF AttemptSound, LookIsCurrent, RecordKept
<1>7. CASE Decide(c) \/ Decision(c)
  <2>1. /\ file' = file /\ conn'[c] = conn[c] /\ pc[c] \in {"unknown", "prompt"}
        /\ \/ pc'[c] = "end" /\ out'[c] \in {"accepted", "rejected"}
           \/ pc'[c] = "open" /\ out'[c] = out[c] /\ conn[c].path = "given"
           \/ pc'[c] = "prompt" /\ out'[c] = out[c]
    BY <1>2, <1>7 DEF Decide, Decision, End, Goto
  <2>2. out[c] = "none"
    BY <1>1, <2>1 DEF AttemptSound
  <2>3. conn[c].path = "given" => LinesOf(file', conn'[c].host) = {}
    BY <1>1, <2>1 DEF LookIsCurrent
  <2>4. conn[c].path = "default" =>
            \A e \in Entries(defaultFile, conn[c].host) : Algorithm[e] # Algorithm[conn[c].key]
    BY <1>1, <2>1 DEF LookIsCurrent
  <2> QED BY <1>d, <2>1, <2>2, <2>3, <2>4 DEF AttemptSound, LookIsCurrent, RecordKept
<1>8. CASE LearnOpen(c)
  <2>1. /\ file' = file /\ conn'[c] = conn[c] /\ pc[c] = "open" /\ out'[c] = out[c]
        /\ pc'[c] = "repair" /\ fix'[c] = NeedsNewline
    BY <1>2, <1>8 DEF LearnOpen
  <2>2. out[c] = "none" /\ conn[c].path = "given"
    BY <1>1, <2>1 DEF AttemptSound
  <2>3. LinesOf(file', conn'[c].host) = {}
    BY <1>1, <2>1, <2>2 DEF LookIsCurrent
  <2>4. NeedsNewline' = NeedsNewline
    BY <2>1 DEF NeedsNewline
  <2> QED BY <1>d, <2>1, <2>2, <2>3, <2>4 DEF AttemptSound, LookIsCurrent, RecordKept
<1> QED BY <1>d, <1>3, <1>4, <1>5, <1>6, <1>7, <1>8

\* While one attempt writes, the others do not look, and their records stay.
LEMMA OthersWhileWriting ==
    ASSUME KnownHostsInv, NEW c \in Conns, NEW d \in Conns, d # c, pc[c] \notin {"idle", "end"},
           pc'[d] = pc[d], conn'[d] = conn[d], fix'[d] = fix[d], out'[d] = out[d],
           out[d] = "stored" => LinesOf(file', conn[d].host) = LinesOf(file, conn[d].host)
    PROVE  AttemptSound(d)' /\ LookIsCurrent(d)' /\ RecordKept(d)'
<1>1. AttemptSound(d) /\ RecordKept(d)
  BY DEF KnownHostsInv
<1>2. pc[d] \in {"idle", "end"}
  BY DEF KnownHostsInv, OneAtATime, InFlight
<1> QED BY <1>1, <1>2 DEF AttemptSound, LookIsCurrent, RecordKept

\* The last part taken off again.
LEMMA BeforeAppend ==
    ASSUME NEW f \in Seq(Parts), NEW p \in Parts
    PROVE  SubSeq(Append(f, p), 1, Len(Append(f, p)) - 1) = f
<1> DEFINE g == Append(f, p)
<1>1. /\ g \in Seq(Parts) /\ Len(g) = Len(f) + 1 /\ Len(f) \in Nat
      /\ \A k \in 1..Len(f) : g[k] = f[k]
  BY AppendProperties, LenProperties
<1> HIDE DEF g
<1>2. Len(g) - 1 = Len(f)
  BY <1>1
<1>3. SubSeq(g, 1, Len(f)) = f
  <2>1. \A k \in 1..Len(f) : g[k] \in Parts
    BY <1>1, ElementOfSeq
  <2>2. 1 \in Int /\ Len(f) \in Int /\ Len(f) - 1 + 1 = Len(f)
    BY <1>1
  <2>3. /\ SubSeq(g, 1, Len(f)) \in Seq(Parts)
        /\ Len(SubSeq(g, 1, Len(f))) = IF 1 <= Len(f) THEN Len(f) - 1 + 1 ELSE 0
        /\ \A k \in 1..(Len(f) - 1 + 1) : SubSeq(g, 1, Len(f))[k] = g[1 + k - 1]
    BY <2>1, <2>2, SubSeqProperties
  <2>4. Len(SubSeq(g, 1, Len(f))) = Len(f)
    BY <1>1, <2>3
  <2>5. \A k \in 1..Len(f) : SubSeq(g, 1, Len(f))[k] = f[k]
    <3> SUFFICES ASSUME NEW k \in 1..Len(f) PROVE SubSeq(g, 1, Len(f))[k] = f[k]
      OBVIOUS
    <3>1. 1 + k - 1 = k /\ k \in 1..(Len(f) - 1 + 1)
      BY <1>1
    <3> QED BY <1>1, <2>3, <3>1
  <2> QED BY <2>3, <2>4, <2>5, SeqEqual
<1> QED BY <1>2, <1>3 DEF g

\* The newline that an earlier write owed changes no line.
LEMMA RepairSound ==
    ASSUME KnownHostsInv, NEW c \in Conns, LearnRepair(c)
    PROVE  \A d \in Conns : AttemptSound(d)' /\ LookIsCurrent(d)' /\ RecordKept(d)'
<1>1. TypeOK /\ AttemptSound(c) /\ LookIsCurrent(c) /\ file \in Seq(Parts) /\ pc \in [Conns -> Steps]
  BY DEF KnownHostsInv, TypeOK
<1>2. /\ pc[c] = "repair" /\ file' = IF fix[c] THEN Append(file, Newline) ELSE file
      /\ pc'[c] = "host" /\ UNCHANGED <<conn, fix, out>>
  BY <1>1 DEF LearnRepair
<1>3. Lines(file') = Lines(file)
  BY <1>1, <1>2, LinesAfterNewline
<1>4. \A h : LinesOf(file', h) = LinesOf(file, h)
  BY <1>3 DEF LinesOf
<1>5. ~NeedsNewline'
  <2>1. fix[c] = NeedsNewline
    BY <1>1, <1>2 DEF LookIsCurrent
  <2>2. CASE fix[c]
    <3>1. file' = Append(file, Newline) /\ Newline \in Parts
      BY <1>2, <2>2 DEF Parts
    <3>2. Len(file') = Len(file) + 1 /\ file'[Len(file) + 1] = Newline
      BY <1>1, <3>1, AppendProperties
    <3> QED BY <3>2 DEF NeedsNewline
  <2>3. CASE ~fix[c]
    BY <1>2, <2>1, <2>3 DEF NeedsNewline
  <2> QED BY <2>2, <2>3
<1>6. AttemptSound(c)' /\ LookIsCurrent(c)' /\ RecordKept(c)'
  <2>1. out[c] = "none" /\ conn[c].path = "given"
    BY <1>1, <1>2 DEF AttemptSound
  <2>2. LinesOf(file', conn'[c].host) = {}
    BY <1>1, <1>2, <1>4, <2>1 DEF LookIsCurrent
  <2> QED BY <1>2, <1>5, <2>1, <2>2 DEF AttemptSound, LookIsCurrent, RecordKept
<1>7. ASSUME NEW d \in Conns, d # c PROVE AttemptSound(d)' /\ LookIsCurrent(d)' /\ RecordKept(d)'
  <2>1. pc'[d] = pc[d] /\ conn'[d] = conn[d] /\ fix'[d] = fix[d] /\ out'[d] = out[d]
    BY <1>1, <1>7, OthersStay DEF Learn
  <2> QED BY <1>2, <1>4, <1>7, <2>1, OthersWhileWriting
<1> QED BY <1>6, <1>7

\* The host part begins a line of an endpoint that has none.
LEMMA HostPartSound ==
    ASSUME KnownHostsInv, NEW c \in Conns, LearnHost(c)
    PROVE  \A d \in Conns : AttemptSound(d)' /\ LookIsCurrent(d)' /\ RecordKept(d)'
<1>1. TypeOK /\ AttemptSound(c) /\ LookIsCurrent(c) /\ file \in Seq(Parts) /\ pc \in [Conns -> Steps]
  BY DEF KnownHostsInv, TypeOK
<1>2. /\ pc[c] = "host" /\ file' = Append(file, HostPart(conn[c].host))
      /\ pc'[c] = "key" /\ UNCHANGED <<conn, fix, out>>
  BY <1>1 DEF LearnHost
<1>3. /\ conn[c].host \in Hosts /\ HostPart(conn[c].host) \in Parts
      /\ HostPart(conn[c].host) # Newline
  BY <1>1, SetupFacts, PartFacts
<1>4. out[c] = "none" /\ conn[c].path = "given"
  BY <1>1, <1>2 DEF AttemptSound
<1>5. LinesOf(file, conn[c].host) = {} /\ AtLineStart(file)
  BY <1>1, <1>2, <1>4 DEF LookIsCurrent, NeedsNewline, AtLineStart
<1>6. Lines(file') = Lines(file) \cup {<<HostPart(conn[c].host)>>}
  BY <1>1, <1>2, <1>3, <1>5, LinesAfterPart
<1>7. SubSeq(file', 1, Len(file') - 1) = file
  BY <1>1, <1>2, <1>3, BeforeAppend
<1>8. AttemptSound(c)' /\ LookIsCurrent(c)' /\ RecordKept(c)'
  <2>1. file' = Append(SubSeq(file', 1, Len(file') - 1), HostPart(conn'[c].host))
    BY <1>2, <1>7
  <2> QED BY <1>2, <1>4, <1>5, <1>7, <2>1 DEF AttemptSound, LookIsCurrent, RecordKept, AtLineStart
<1>9. ASSUME NEW d \in Conns, d # c PROVE AttemptSound(d)' /\ LookIsCurrent(d)' /\ RecordKept(d)'
  <2>1. pc'[d] = pc[d] /\ conn'[d] = conn[d] /\ fix'[d] = fix[d] /\ out'[d] = out[d]
    BY <1>1, <1>9, OthersStay DEF Learn
  <2>2. ASSUME out[d] = "stored"
        PROVE  LinesOf(file', conn[d].host) = LinesOf(file, conn[d].host)
    <3>1. LinesOf(file, conn[d].host) # {}
      BY <2>2 DEF KnownHostsInv, RecordKept
    <3>2. conn[d].host \in Hosts /\ conn[d].host # conn[c].host
      BY <1>1, <1>5, <3>1, SetupFacts
    <3>3. HostPart(conn[c].host) # HostPart(conn[d].host)
      BY <1>3, <3>2, PartFacts
    <3> DEFINE line == <<HostPart(conn[c].host)>>
    <3>4. line[1] = HostPart(conn[c].host) /\ Lines(file') = Lines(file) \cup {line}
      BY <1>6
    <3> HIDE DEF line
    <3> QED BY <3>3, <3>4, OneMoreLine
  <2> QED BY <1>2, <1>9, <2>1, <2>2, OthersWhileWriting
<1> QED BY <1>8, <1>9

\* The key part makes it the record.
LEMMA KeyPartSound ==
    ASSUME KnownHostsInv, NEW c \in Conns, LearnKey(c)
    PROVE  \A d \in Conns : AttemptSound(d)' /\ LookIsCurrent(d)' /\ RecordKept(d)'
<1>1. TypeOK /\ AttemptSound(c) /\ LookIsCurrent(c) /\ file \in Seq(Parts) /\ pc \in [Conns -> Steps]
  BY DEF KnownHostsInv, TypeOK
<1>2. /\ pc[c] = "key" /\ file' = Append(file, KeyPart(conn[c].key))
      /\ pc'[c] = "newline" /\ UNCHANGED <<conn, fix, out>>
  BY <1>1 DEF LearnKey
<1> DEFINE hp == HostPart(conn[c].host)
           kp == KeyPart(conn[c].key)
           before == SubSeq(file, 1, Len(file) - 1)
<1>3. /\ conn[c].host \in Hosts /\ hp \in Parts /\ hp # Newline /\ kp \in Parts /\ kp # Newline
  BY <1>1, SetupFacts, PartFacts
<1>4. out[c] = "none" /\ conn[c].path = "given"
  BY <1>1, <1>2 DEF AttemptSound
<1>5. file = Append(before, hp) /\ AtLineStart(before) /\ LinesOf(before, conn[c].host) = {}
  BY <1>1, <1>2 DEF LookIsCurrent, AtLineStart
<1>6. before \in Seq(Parts)
  <2>1. Len(file) \in Nat /\ \A k \in 1..(Len(file) - 1) : file[k] \in Parts
    BY <1>1, LenProperties, ElementOfSeq
  <2>2. 1 \in Int /\ Len(file) - 1 \in Int
    BY <2>1
  <2> QED BY <2>1, <2>2, SubSeqProperties
<1> HIDE DEF before, hp, kp
<1>7. Lines(file) = Lines(before) \cup {<<hp>>}
  BY <1>3, <1>5, <1>6, LinesAfterPart
<1>8. Lines(file') = Lines(before) \cup {<<hp, kp>>}
  <2>1. file' = Append(Append(before, hp), kp)
    BY <1>2, <1>5 DEF kp
  <2> QED BY <1>3, <1>5, <1>6, <2>1, LinesAfterTwo
<1> DEFINE half == <<hp>>
           whole == <<hp, kp>>
<1>9. /\ half[1] = hp /\ Lines(file) = Lines(before) \cup {half}
      /\ whole[1] = hp /\ Lines(file') = Lines(before) \cup {whole}
      /\ Len(half) = 1 /\ Len(whole) = 2 /\ hp = HostPart(conn[c].host)
  BY <1>7, <1>8 DEF hp
<1> HIDE DEF half, whole
<1>n. LinesOf(before, conn[c].host) = {}
  BY <1>5
<1>10. LinesOf(file, conn[c].host) = {half}
  BY <1>n, <1>9 DEF LinesOf
<1>11. LinesOf(file', conn[c].host) = {whole}
  BY <1>n, <1>9 DEF LinesOf
<1>12. AttemptSound(c)' /\ LookIsCurrent(c)' /\ RecordKept(c)'
  <2>1. LinesOf(file', conn'[c].host) = {Record(conn'[c])}
    BY <1>2, <1>11 DEF Record, hp, kp, whole
  <2> QED BY <1>2, <1>4, <2>1 DEF AttemptSound, LookIsCurrent, RecordKept
<1>13. ASSUME NEW d \in Conns, d # c PROVE AttemptSound(d)' /\ LookIsCurrent(d)' /\ RecordKept(d)'
  <2>1. pc'[d] = pc[d] /\ conn'[d] = conn[d] /\ fix'[d] = fix[d] /\ out'[d] = out[d]
    BY <1>1, <1>13, OthersStay DEF Learn
  <2>2. ASSUME out[d] = "stored"
        PROVE  LinesOf(file', conn[d].host) = LinesOf(file, conn[d].host)
    <3>1. LinesOf(file, conn[d].host) = {Record(conn[d])}
      BY <2>2 DEF KnownHostsInv, RecordKept
    <3>2. conn[d].host # conn[c].host
      <4> SUFFICES ASSUME conn[d].host = conn[c].host PROVE FALSE
        OBVIOUS
      <4>1. Record(conn[d]) = half
        BY <1>10, <3>1
      <4>2. Len(Record(conn[d])) = 2
        BY DEF Record
      <4> QED BY <1>9, <4>1, <4>2
    <3>3. hp # HostPart(conn[d].host)
      BY <1>1, <1>3, <3>2, SetupFacts, PartFacts DEF hp
    <3>4. LinesOf(file, conn[d].host) = LinesOf(before, conn[d].host)
      BY <1>9, <3>3, OneMoreLine
    <3>5. LinesOf(file', conn[d].host) = LinesOf(before, conn[d].host)
      BY <1>9, <3>3, OneMoreLine
    <3> QED BY <3>4, <3>5
  <2> QED BY <1>2, <1>13, <2>1, <2>2, OthersWhileWriting
<1> QED BY <1>12, <1>13

\* The last newline: the key is stored.
LEMMA NewlineSound ==
    ASSUME KnownHostsInv, NEW c \in Conns, LearnNewline(c)
    PROVE  \A d \in Conns : AttemptSound(d)' /\ LookIsCurrent(d)' /\ RecordKept(d)'
<1>1. TypeOK /\ AttemptSound(c) /\ LookIsCurrent(c) /\ file \in Seq(Parts) /\ pc \in [Conns -> Steps]
  BY DEF KnownHostsInv, TypeOK
<1>2. /\ pc[c] = "newline" /\ file' = Append(file, Newline)
      /\ pc'[c] = "end" /\ UNCHANGED <<conn, fix>>
  BY <1>1 DEF LearnNewline, End
<1>3. Lines(file') = Lines(file)
  BY <1>1, <1>2, LinesAfterNewline
<1>4. \A h : LinesOf(file', h) = LinesOf(file, h)
  BY <1>3 DEF LinesOf
<1>5. LinesOf(file', conn'[c].host) = {Record(conn'[c])}
  BY <1>1, <1>2, <1>4 DEF LookIsCurrent
<1>6. AttemptSound(c)' /\ LookIsCurrent(c)' /\ RecordKept(c)'
  BY <1>2, <1>5 DEF AttemptSound, LookIsCurrent, RecordKept
<1>7. ASSUME NEW d \in Conns, d # c PROVE AttemptSound(d)' /\ LookIsCurrent(d)' /\ RecordKept(d)'
  <2>1. pc'[d] = pc[d] /\ conn'[d] = conn[d] /\ fix'[d] = fix[d] /\ out'[d] = out[d]
    BY <1>1, <1>7, OthersStay DEF Learn
  <2> QED BY <1>2, <1>4, <1>7, <2>1, OthersWhileWriting
<1> QED BY <1>6, <1>7

\* Each attempt in turn finds the file as it looked at it, and keeps every
\* record that was learned before it.
THEOREM KnownHostsInvariant ==
    ASSUME Parallel = 1
    PROVE  Spec => []KnownHostsInv
<1>1. ASSUME KnownHostsInv, [Next]_vars PROVE KnownHostsInv'
  <2>1. CASE UNCHANGED vars
    <3>1. TypeOK' /\ OneAtATime'
      BY <1>1, <2>1 DEF vars, KnownHostsInv, TypeOK, OneAtATime, InFlight
    <3>2. \A d \in Conns : AttemptSound(d)' /\ LookIsCurrent(d)' /\ RecordKept(d)'
      BY <1>1, <2>1, OthersSound DEF vars
    <3> QED BY <3>1, <3>2 DEF KnownHostsInv
  <2>2. ASSUME NEW c \in Conns,
               Start(c) \/ Match(c) \/ LookForEndpoint(c) \/ RejectChanged(c) \/ Decide(c)
                 \/ Decision(c) \/ Learn(c)
        PROVE  KnownHostsInv'
    <3>1. TypeOK /\ OneAtATime
      BY <1>1 DEF KnownHostsInv
    <3>2. TypeOK'
      BY <2>2, <3>1, StepTypes
    <3>3. \A d \in Conns \ {c} :
             pc'[d] = pc[d] /\ conn'[d] = conn[d] /\ fix'[d] = fix[d] /\ out'[d] = out[d]
      BY <2>2, <3>1, OthersStay
    <3>4. OneAtATime'
      <4>1. pc[c] \notin {"idle", "end"} \/ Start(c)
        BY <2>2 DEF Match, LookForEndpoint, RejectChanged, Decide, Decision, Learn, LearnOpen,
                    LearnRepair, LearnHost, LearnKey, LearnNewline, LearnFails
      <4> QED BY <3>1, <3>2, <3>3, <4>1, OneAtATimeKept
    <3>5. \A d \in Conns : AttemptSound(d)' /\ LookIsCurrent(d)' /\ RecordKept(d)'
      <4>1. CASE Start(c) \/ Match(c) \/ LookForEndpoint(c) \/ RejectChanged(c) \/ Decide(c)
                 \/ Decision(c) \/ LearnOpen(c) \/ LearnFails(c)
        <5>1. file' = file /\ defaultFile' = defaultFile /\ AttemptSound(c)' /\ LookIsCurrent(c)' /\ RecordKept(c)'
          BY <1>1, <4>1, LookingSound
        <5>2. ASSUME NEW d \in Conns, d # c PROVE AttemptSound(d)' /\ LookIsCurrent(d)' /\ RecordKept(d)'
          BY <1>1, <3>3, <5>1, <5>2, OthersSound
        <5> QED BY <5>1, <5>2
      <4>2. CASE LearnRepair(c) \/ LearnHost(c) \/ LearnKey(c) \/ LearnNewline(c)
        BY <1>1, <4>2, RepairSound, HostPartSound, KeyPartSound, NewlineSound
      <4> QED BY <2>2, <4>1, <4>2 DEF Learn
    <3> QED BY <3>2, <3>4, <3>5 DEF KnownHostsInv
  <2> QED BY <1>1, <2>1, <2>2 DEF Next
<1> QED BY InitKnownHosts, <1>1, PTL DEF Spec

\* A key that learn stored is known from then on, although writes were cut
\* short before it and whatever is learned, or fails to be, after it.
THEOREM StoredStaysKnown ==
    ASSUME Parallel = 1
    PROVE  Spec => []StoredIsKnown
<1>1. KnownHostsInv => StoredIsKnown
  <2> SUFFICES ASSUME KnownHostsInv, NEW c \in Conns, out[c] = "stored"
               PROVE  Matches(file, conn[c].host, conn[c].key) = "known"
    BY DEF StoredIsKnown
  <2>1. LinesOf(file, conn[c].host) = {<<HostPart(conn[c].host), KeyPart(conn[c].key)>>}
    BY DEF KnownHostsInv, RecordKept, Record
  <2>2. conn[c].host \in Hosts /\ conn[c].key \in Keys
    BY SetupFacts DEF KnownHostsInv
  <2> QED BY <2>1, <2>2, OnlyRecordIsKnown
<1> QED BY <1>1, KnownHostsInvariant, PTL

\* Whatever the policy, the verifier and the file, check_server_key accepts a key
\* only when it is on record for the endpoint in the file consulted, or none is,
\* or, in the default file alone, none of its algorithm is.
THEOREM ChangedKeysRejected ==
    ASSUME Parallel = 1
    PROVE  Spec => ChangedNeverAccepted
<1> DEFINE recorded(c) == Entries(Consulted(c)', conn[c].host)
<1>1. ASSUME KnownHostsInv, KnownHostsInv', [Next]_vars, NEW c \in Conns, Accepts(c)
      PROVE  \/ conn[c].key \in recorded(c)
             \/ recorded(c) = {}
             \/ /\ conn[c].path = "default"
                /\ \A e \in recorded(c) : Algorithm[e] # Algorithm[conn[c].key]
  <2>0. /\ TypeOK /\ AttemptSound(c) /\ LookIsCurrent(c) /\ out'[c] # out[c]
        /\ out \in [Conns -> {"none", "rejected"} \cup Accepted] /\ pc \in [Conns -> Steps]
        /\ conn[c] \in Setups
    BY <1>1 DEF KnownHostsInv, TypeOK, Accepted, Accepts
  <2>1. PICK d \in Conns : Start(d) \/ Match(d) \/ LookForEndpoint(d) \/ RejectChanged(d)
                             \/ Decide(d) \/ Decision(d) \/ Learn(d)
    BY <1>1, <2>0 DEF Next, vars
  <2>2. d = c
    BY <2>0, <2>1, OthersStay
  <2>3. \/ Match(c) /\ UNCHANGED <<file, defaultFile, conn>>
             /\ Matches(Consulted(c), conn[c].host, conn[c].key) = "known"
        \/ pc[c] \in {"unknown", "prompt"} /\ UNCHANGED <<file, defaultFile, conn>>
        \/ LearnNewline(c) /\ out'[c] = "stored" /\ conn' = conn
    <3>1. CASE Match(c)
      BY <1>1, <2>0, <3>1 DEF Match, End, Goto, Accepted, Accepts
    <3>2. CASE Decide(c) \/ Decision(c)
      BY <3>2 DEF Decide, Decision
    <3>3. CASE LearnNewline(c)
      BY <2>0, <3>3 DEF LearnNewline, End
    <3>4. CASE Start(c) \/ LookForEndpoint(c) \/ LearnOpen(c) \/ LearnRepair(c) \/ LearnHost(c) \/ LearnKey(c)
      BY <2>0, <3>4 DEF Start, LookForEndpoint, LearnOpen, LearnRepair, LearnHost, LearnKey, Goto
    <3>5. CASE RejectChanged(c) \/ LearnFails(c)
      BY <1>1, <2>0, <3>5 DEF RejectChanged, LearnFails, End, Accepted, Accepts
    <3> QED BY <2>1, <2>2, <3>1, <3>2, <3>3, <3>4, <3>5 DEF Learn
  <2>4. CASE /\ UNCHANGED <<file, defaultFile, conn>>
             /\ Matches(Consulted(c), conn[c].host, conn[c].key) = "known"
    <3>1. Consulted(c)' = Consulted(c)
      BY <2>4 DEF Consulted
    <3>2. conn[c].key \in Entries(Consulted(c), conn[c].host)
      BY <2>4, KnownIsRecorded
    <3> QED BY <3>1, <3>2
  <2>5. CASE pc[c] \in {"unknown", "prompt"} /\ UNCHANGED <<file, defaultFile, conn>>
    <3>1. CASE conn[c].path = "given"
      <4>1. Consulted(c)' = file /\ LinesOf(file, conn[c].host) = {}
        BY <2>0, <2>5, <3>1 DEF LookIsCurrent, Consulted
      <4>2. recorded(c) = {}
        BY <4>1, NoLines
      <4> QED BY <4>2
    <3>2. CASE conn[c].path = "default"
      <4>1. Consulted(c)' = defaultFile
        BY <2>5, <3>2 DEF Consulted
      <4>2. \A e \in Entries(defaultFile, conn[c].host) : Algorithm[e] # Algorithm[conn[c].key]
        BY <2>0, <2>5, <3>2 DEF LookIsCurrent
      <4> QED BY <3>2, <4>1, <4>2
    <3> QED BY <2>0, <3>1, <3>2 DEF Setups
  <2>6. CASE LearnNewline(c) /\ out'[c] = "stored" /\ conn' = conn
    <3>1. LinesOf(file', conn[c].host) = {<<HostPart(conn[c].host), KeyPart(conn[c].key)>>}
      BY <1>1, <2>6 DEF KnownHostsInv, RecordKept, Record
    <3>2. conn[c].host \in Hosts /\ conn[c].key \in Keys
      BY <2>0, SetupFacts
    <3>3. Entries(file', conn[c].host) = {conn[c].key}
      BY <3>1, <3>2, OnlyRecordIsKnown
    <3>4. conn[c].path = "given"
      BY <2>0, <2>6 DEF AttemptSound, LearnNewline
    <3>5. Consulted(c)' = file'
      BY <2>6, <3>4 DEF Consulted
    <3> QED BY <3>3, <3>5
  <2> QED BY <2>3, <2>4, <2>5, <2>6
<1>2. KnownHostsInv /\ KnownHostsInv' /\ [Next]_vars =>
        [\A c \in Conns : Accepts(c) =>
            \/ conn[c].key \in recorded(c)
            \/ recorded(c) = {}
            \/ /\ conn[c].path = "default"
               /\ \A e \in recorded(c) : Algorithm[e] # Algorithm[conn[c].key]]_vars
  BY <1>1
<1> QED BY <1>2, KnownHostsInvariant, PTL DEF Spec, ChangedNeverAccepted
=============================================================================
